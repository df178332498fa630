--------------------------- MODULE AccountProofs ---------------------------
(***************************************************************************)
(* Theorems about Account, for any number of requests, ticks and mails.    *)
(***************************************************************************)
EXTENDS Account, FiniteSetTheorems, TLAPS

\* The secret waits in a mail of the box.
Mailed(kind, secret, box) ==
  secret # None => \E i \in DOMAIN box : box[i].kind = kind /\ box[i].secret = secret

\* Rows of the user that are held to be saved, or to be mailed from.
Holding == {"insert", "queue", "commit", "find", "create", "saveUser", "expiry"}

\* A handler holds only secrets that were mailed, but for the one it made
\* itself, which it mails before it saves the row.
Fits(op, at, row, box) ==
  /\ at \in {"insert", "commit"} => op = "register"
  /\ at \in {"find", "create"} => op \in {"resend", "sendReset"}
  /\ at = "queue" => op \in MailOps
  /\ at = "expiry" => op = "reset"
  /\ at = "guarded" => op = "change"
  /\ at = "saveUser" => op \in RowOps \cup {"sendReset"}
  /\ at \in Holding =>
       /\ row \in User
       /\ op # "register" \/ at = "commit" => Mailed("verify", row.code, box)
       /\ op # "sendReset" \/ at = "saveUser" => Mailed("reset", row.token, box)

Fields == {"op", "at", "row", "listed", "id", "attempts", "last", "mine", "secret", "raced"}
Formed(q) ==
  /\ DOMAIN q = Fields /\ q.row \in User \cup {NoUser}
  /\ q.last \in Time /\ q.secret \in Secret \cup {None}

Letter == [kind : {"verify", "reset"}, secret : Secret \cup {None}, time : Time]

RequestsFit ==
  /\ DOMAIN request = Requests
  /\ \A r \in Requests :
       LET q == request[r] IN
       /\ Formed(q) /\ Fits(q.op, q.at, q.row, mails)
       /\ q.at = "guarded" => account # NoUser

RowIsMailed(row, box) ==
  row \in {NoUser} \cup
          {u \in User : Mailed("verify", u.code, box) /\ Mailed("reset", u.token, box)}

Inv ==
  /\ clock \in 0..MaxClock /\ started \in 0..MaxRequests
  /\ mails \in Seq(Letter)
  /\ RowIsMailed(account, mails)
  /\ RequestsFit

-----------------------------------------------------------------------------
(* Times, secrets and boxes.                                               *)

LEMMA Times ==
  ASSUME Inv
  PROVE  /\ clock \in Time /\ Never \in Time /\ clock \in Int
         /\ started < MaxRequests => fresh \in Secret /\ fresh = started + 1
BY ConstantsOK DEF Inv, Time, Never, Secret, fresh

Kept(box, later) == \A i \in DOMAIN box : i \in DOMAIN later /\ later[i] = box[i]

LEMMA StaysMailed ==
  ASSUME NEW box, NEW later, Kept(box, later)
  PROVE  /\ \A kind, secret : Mailed(kind, secret, box) => Mailed(kind, secret, later)
         /\ \A op, at, row : Fits(op, at, row, box) => Fits(op, at, row, later)
         /\ \A row : RowIsMailed(row, box) => RowIsMailed(row, later)
<1>1. \A kind, secret : Mailed(kind, secret, box) => Mailed(kind, secret, later)
  BY DEF Mailed, Kept
<1>2. \A op, at, row : Fits(op, at, row, box) => Fits(op, at, row, later)
  BY <1>1 DEF Fits
<1>3. \A row : RowIsMailed(row, box) => RowIsMailed(row, later)
  BY <1>1 DEF RowIsMailed
<1>4. QED
  BY <1>1, <1>2, <1>3

\* A step of one request, which may save the row and add a mail.
LEMMA RequestMoves ==
  ASSUME Inv, NEW r \in Requests, NEW q, request' = [request EXCEPT ![r] = q],
         Formed(q), Fits(q.op, q.at, q.row, mails'),
         q.at = "guarded" => account' # NoUser,
         mails' \in Seq(Letter), Kept(mails, mails'),
         RowIsMailed(account', mails'), account # NoUser => account' # NoUser,
         clock' = clock, started' \in 0..MaxRequests
  PROVE  Inv'
<1>1. DOMAIN request' = Requests /\ request'[r] = q
  BY DEF Inv, RequestsFit
<1>2. ASSUME NEW s \in Requests
      PROVE  /\ Formed(request'[s])
             /\ Fits(request'[s].op, request'[s].at, request'[s].row, mails')
             /\ request'[s].at = "guarded" => account' # NoUser
  <2>1. CASE s = r
    BY <1>1, <2>1
  <2>2. CASE s # r
    <3>1. request'[s] = request[s]
      BY <2>2 DEF Inv, RequestsFit
    <3>2. /\ Formed(request[s])
          /\ Fits(request[s].op, request[s].at, request[s].row, mails)
          /\ request[s].at = "guarded" => account # NoUser
      BY DEF Inv, RequestsFit
    <3>3. QED
      BY <3>1, <3>2, StaysMailed
  <2>3. QED
    BY <2>1, <2>2
<1>3. RequestsFit'
  BY <1>1, <1>2 DEF RequestsFit
<1>4. QED
  BY <1>3 DEF Inv

\* A request that only holds something else, or is done.
LEMMA RequestTurns ==
  ASSUME Inv, NEW r \in Requests, NEW q, request' = [request EXCEPT ![r] = q],
         Formed(q), Fits(q.op, q.at, q.row, mails), q.at # "guarded",
         UNCHANGED <<account, mails, clock, started>>
  PROVE  Inv'
<1>1. Kept(mails, mails')
  BY DEF Kept
<1>2. QED
  BY <1>1, RequestMoves DEF Inv

LEMMA BlankFits ==
  ASSUME Inv, NEW box
  PROVE  Formed(Blank) /\ Fits(Blank.op, Blank.at, Blank.row, box) /\ Blank.at # "guarded"
BY Times DEF Blank, Formed, Fits, Fields, Holding, Never

LEMMA FinishKeeps ==
  ASSUME Inv, NEW r \in Requests, Finish(r), UNCHANGED <<account, mails, clock, started>>
  PROVE  Inv'
BY BlankFits, RequestTurns DEF Finish

LEMMA GotoKeeps ==
  ASSUME Inv, NEW r \in Requests, NEW at, Goto(r, at), at # "guarded",
         Fits(request[r].op, at, request[r].row, mails),
         UNCHANGED <<account, mails, clock, started>>
  PROVE  Inv'
<1> DEFINE q == [request[r] EXCEPT !.at = at]
<1>1. Formed(request[r])
  BY DEF Inv, RequestsFit
<1>2. Formed(q) /\ q.at = at /\ q.op = request[r].op /\ q.row = request[r].row
  BY <1>1 DEF Formed, Fields
<1>3. request' = [request EXCEPT ![r] = q]
  BY DEF Goto
<1> HIDE DEF q
<1>4. QED
  BY <1>2, <1>3, RequestTurns

LEMMA StartKeeps ==
  ASSUME Inv, NEW r \in Requests, NEW op, NEW at, NEW q, Start(r, op, at, q),
         Formed(q), Fits(op, at, q.row, mails), at = "guarded" => account # NoUser
  PROVE  Inv'
<1> DEFINE p == [q EXCEPT !.op = op, !.at = at]
<1>1. Formed(p) /\ p.op = op /\ p.at = at /\ p.row = q.row
  BY DEF Formed, Fields
<1>2. /\ request' = [request EXCEPT ![r] = p] /\ UNCHANGED <<account, mails, clock>>
      /\ started' \in 0..MaxRequests
  BY ConstantsOK DEF Start, Inv
<1>3. Kept(mails, mails')
  BY <1>2 DEF Kept
<1> HIDE DEF p
<1>4. QED
  BY <1>1, <1>2, <1>3, RequestMoves DEF Inv

-----------------------------------------------------------------------------
(* Requests that start.                                                    *)

LEMMA ReadFits ==
  ASSUME Inv
  PROVE  /\ Formed(Read) /\ Read.row = account
         /\ account # NoUser =>
              /\ account \in User
              /\ Mailed("verify", account.code, mails)
              /\ Mailed("reset", account.token, mails)
<1>1. account \in User \cup {NoUser}
  BY DEF Inv, RowIsMailed
<1>2. Formed(Read) /\ Read.row = account
  BY <1>1, BlankFits DEF Read, Formed, Fields
<1>3. QED
  BY <1>2 DEF Inv, RowIsMailed

LEMMA BeginKeeps ==
  ASSUME Inv, NEW r \in Requests,
         \/ Register(r) \/ Activate(r) \/ Resend(r) \/ SendReset(r) \/ Reset(r)
         \/ ChangePassword(r) \/ Rename(r) \/ Login(r) \/ Refresh(r) \/ GoogleLogin(r)
  PROVE  Inv'
<1> USE DEF Holding, MailOps, RowOps
<1>1. CASE Register(r)
  <2> DEFINE q == [Blank EXCEPT !.row = Registered(fresh), !.attempts = 1, !.last = clock]
  <2>1. Start(r, "register", "insert", q) /\ fresh \in Secret /\ clock \in Time
    BY <1>1, Times DEF Register, Start
  <2>2. Registered(fresh) \in User /\ Registered(fresh).token = None
    BY <2>1, Times DEF Registered, User
  <2>3. Formed(q) /\ q.row = Registered(fresh)
    BY <2>1, <2>2, BlankFits DEF Formed, Fields
  <2>4. Fits("register", "insert", q.row, mails)
    BY <2>2, <2>3 DEF Fits, Mailed
  <2> HIDE DEF q
  <2>5. QED
    BY <2>1, <2>3, <2>4, StartKeeps
<1>2. CASE Activate(r) \/ (GoogleLogin(r) /\ account # NoUser /\ ~account.verified)
  <2> DEFINE q == [Read EXCEPT !.row.verified = TRUE]
             u == [account EXCEPT !.verified = TRUE]
  <2>1. account \in User /\ \E op \in {"activate", "google"} : Start(r, op, "saveUser", q)
    BY <1>2, ReadFits DEF Activate, GoogleLogin
  <2>2. u \in User /\ u.code = account.code /\ u.token = account.token
    BY <2>1 DEF User
  <2>3. q.row = u /\ Formed(q)
    BY <2>2, ReadFits DEF Formed, Fields
  <2>4. \A op \in {"activate", "google"} : Fits(op, "saveUser", u, mails)
    BY <1>2, <2>1, <2>2, ReadFits DEF Fits, Activate
  <2> HIDE DEF q, u
  <2>5. QED
    BY <2>1, <2>3, <2>4, StartKeeps
<1>3. CASE Resend(r) \/ Rename(r)
  <2>1. Fits("resend", "find", Read.row, mails) /\ Fits("rename", "saveUser", Read.row, mails)
    BY <1>3, ReadFits DEF Fits, Resend, Rename
  <2>2. QED
    BY <1>3, <2>1, ReadFits, StartKeeps DEF Resend, Rename
<1>4. CASE SendReset(r)
  <2> DEFINE q == [Read EXCEPT !.row.token = fresh, !.listed = acts]
             u == [account EXCEPT !.token = fresh]
  <2>1. account # NoUser /\ account \in User /\ Start(r, "sendReset", "find", q) /\ fresh \in Secret
    BY <1>4, ReadFits, Times DEF SendReset, Resettable, Start
  <2>2. u \in User /\ u.code = account.code
    BY <2>1 DEF User
  <2>3. q.row = u /\ Formed(q)
    BY <2>2, ReadFits DEF Formed, Fields
  <2>4. Fits("sendReset", "find", u, mails)
    BY <2>1, <2>2, ReadFits DEF Fits
  <2> HIDE DEF q, u
  <2>5. QED
    BY <2>1, <2>3, <2>4, StartKeeps
<1>5. CASE Reset(r)
  <2> DEFINE q == [Read EXCEPT !.row.password = fresh, !.row.token = None,
                               !.row.provider = "password"]
             u == [account EXCEPT !.password = fresh, !.token = None, !.provider = "password"]
  <2>1. account # NoUser /\ account \in User /\ Start(r, "reset", "expiry", q) /\ fresh \in Secret
    BY <1>5, ReadFits, Times DEF Reset, Start
  <2>2. u \in User /\ u.code = account.code /\ u.token = None
    BY <2>1 DEF User
  <2>3. q.row = u /\ Formed(q)
    BY <2>2, ReadFits DEF Formed, Fields
  <2>4. Fits("reset", "expiry", u, mails)
    BY <2>1, <2>2, ReadFits DEF Fits, Mailed
  <2> HIDE DEF q, u
  <2>5. QED
    BY <2>1, <2>3, <2>4, StartKeeps
<1>6. CASE ChangePassword(r)
  <2> DEFINE q == [Blank EXCEPT !.secret = fresh]
  <2>1. account # NoUser /\ Start(r, "change", "guarded", q) /\ fresh \in Secret
    BY <1>6, Times DEF ChangePassword, Accepted, Start
  <2>2. Formed(q)
    BY <2>1, BlankFits DEF Formed, Fields
  <2>3. Fits("change", "guarded", q.row, mails)
    BY DEF Fits
  <2> HIDE DEF q
  <2>4. QED
    BY <2>1, <2>2, <2>3, StartKeeps
<1>7. CASE Login(r)
  <2>1. Fits("login", "sign", Read.row, mails)
    BY DEF Fits
  <2>2. QED
    BY <1>7, <2>1, ReadFits, StartKeeps DEF Login
<1>8. CASE Refresh(r)
  <2>1. PICK s \in sessions : Start(r, "refresh", "sign", [Read EXCEPT !.raced = s.raced])
    BY <1>8 DEF Refresh
  <2> DEFINE q == [Read EXCEPT !.raced = s.raced]
  <2>2. Formed(q)
    BY ReadFits DEF Formed, Fields
  <2>3. Fits("refresh", "sign", q.row, mails)
    BY DEF Fits
  <2> HIDE DEF q
  <2>4. Start(r, "refresh", "sign", q)
    BY <2>1 DEF q
  <2>5. QED
    BY <2>2, <2>3, <2>4, StartKeeps
<1>9. CASE GoogleLogin(r) /\ ~(account # NoUser /\ ~account.verified)
  <2>1. Fits("google", "signUp", Blank.row, mails) /\ Fits("google", "sign", Read.row, mails)
    BY DEF Fits
  <2>2. Start(r, "google", "signUp", Blank) \/ Start(r, "google", "sign", Read)
    BY <1>9 DEF GoogleLogin
  <2>3. QED
    BY <2>1, <2>2, ReadFits, BlankFits, StartKeeps
<1>10. CASE GoogleLogin(r)
  BY <1>2, <1>9, <1>10, Zenon
<1>11. QED
  BY <1>1, <1>2, <1>3, <1>4, <1>5, <1>6, <1>7, <1>8, <1>10, Zenon

-----------------------------------------------------------------------------
(* Requests that go on.                                                    *)

LEMMA HeldFits ==
  ASSUME Inv, NEW r \in Requests
  PROVE  LET q == request[r] IN
         /\ Formed(q) /\ Fits(q.op, q.at, q.row, mails)
         /\ q.at = "guarded" => account \in User
BY DEF Inv, RequestsFit, RowIsMailed

LEMMA QueueMailKeeps ==
  ASSUME Inv, NEW r \in Requests, QueueMail(r)
  PROVE  Inv'
<1> DEFINE q == request[r]
           letter == MailOf(q)
           p == [q EXCEPT !.at = AfterMail[q.op]]
<1>1. /\ Formed(q) /\ q.at = "queue" /\ q.op \in MailOps /\ q.row \in User
      /\ Fits(q.op, q.at, q.row, mails)
  BY HeldFits DEF QueueMail, Fits, Holding
<1>2. letter \in Letter
  BY <1>1 DEF MailOf, Kind, Letter, Formed, User
<1>3. /\ mails' = Append(mails, letter) /\ mails \in Seq(Letter)
      /\ UNCHANGED <<account, clock, started>>
  BY DEF QueueMail, Inv
<1>4. /\ mails' \in Seq(Letter) /\ Kept(mails, mails')
      /\ Len(mails) + 1 \in DOMAIN mails' /\ mails'[Len(mails) + 1] = letter
  <2> HIDE DEF letter
  <2>1. QED
    BY <1>2, <1>3 DEF Kept
<1>5. Fits(q.op, q.at, q.row, mails')
  BY <1>1, <1>4, StaysMailed
<1>6. /\ q.op = "sendReset" => Mailed("reset", q.row.token, mails')
      /\ q.op # "sendReset" => Mailed("verify", q.row.code, mails')
  <2>1. CASE q.op = "sendReset"
    <3>1. letter.kind = "reset" /\ letter.secret = q.row.token
      BY <2>1 DEF MailOf, Kind
    <3>2. QED
      BY <1>4, <2>1, <3>1 DEF Mailed
  <2>2. CASE q.op # "sendReset"
    <3>1. letter.kind = "verify" /\ letter.secret = q.row.code
      BY <2>2 DEF MailOf, Kind
    <3>2. QED
      BY <1>4, <2>2, <3>1 DEF Mailed
  <2>3. QED
    BY <2>1, <2>2
<1>7. Formed(p) /\ p.op = q.op /\ p.row = q.row /\ p.at = AfterMail[q.op]
  BY <1>1 DEF Formed, Fields
<1>8. /\ q.op = "register" => p.at = "commit"
      /\ q.op = "resend" => p.at = "count"
      /\ q.op = "sendReset" => p.at = "saveUser"
  BY <1>7 DEF AfterMail
<1>9. request' = [request EXCEPT ![r] = p]
  BY DEF QueueMail, Goto
<1> HIDE DEF p, letter
<1>10. Fits(p.op, p.at, p.row, mails') /\ p.at # "guarded"
  BY <1>1, <1>5, <1>6, <1>7, <1>8 DEF Fits, MailOps, RowOps, Holding
<1>11. RowIsMailed(account', mails')
  BY <1>3, <1>4, StaysMailed DEF Inv
<1>12. QED
  BY <1>3, <1>4, <1>7, <1>9, <1>10, <1>11, RequestMoves DEF Inv

LEMMA FindActivityKeeps ==
  ASSUME Inv, NEW r \in Requests, FindActivity(r) \/ CreateActivity(r)
  PROVE  Inv'
<1> DEFINE q == request[r]
<1>1. /\ Formed(q) /\ q.at \in {"find", "create"} /\ q.op \in {"resend", "sendReset"}
      /\ Fits(q.op, q.at, q.row, mails) /\ q.row \in User
  BY HeldFits DEF FindActivity, CreateActivity, Fits, Holding
<1>2. UNCHANGED <<account, mails, clock, started>>
  BY DEF FindActivity, CreateActivity
<1>3. Fits(q.op, "queue", q.row, mails) /\ Fits(q.op, "create", q.row, mails)
  BY <1>1 DEF Fits, Holding, MailOps
<1>4. CASE Finish(r)
  BY <1>2, <1>4, FinishKeeps
<1>5. CASE Goto(r, "create")
  BY <1>2, <1>3, <1>5, GotoKeeps
<1>6. CASE \E i : request' = [request EXCEPT ![r].at = "queue", ![r].id = i,
                                ![r].attempts = Attempts(acts[i]), ![r].last = clock]
  <2>1. PICK i : request' = [request EXCEPT ![r].at = "queue", ![r].id = i,
                                ![r].attempts = Attempts(acts[i]), ![r].last = clock]
    BY <1>6
  <2> DEFINE p == [q EXCEPT !.at = "queue", !.id = i, !.attempts = Attempts(acts[i]),
                            !.last = clock]
  <2>2. Formed(p) /\ p.op = q.op /\ p.row = q.row /\ p.at = "queue"
    BY <1>1, Times DEF Formed, Fields
  <2>3. request' = [request EXCEPT ![r] = p]
    BY <2>1
  <2> HIDE DEF p
  <2>4. QED
    BY <1>2, <1>3, <2>2, <2>3, RequestTurns
<1>7. CASE CreateActivity(r)
  <2> DEFINE p == [q EXCEPT !.at = "queue", !.id = Len(acts) + 1, !.attempts = 1,
                            !.last = clock, !.mine = TRUE]
  <2>1. Formed(p) /\ p.op = q.op /\ p.row = q.row /\ p.at = "queue"
    BY <1>1, Times DEF Formed, Fields
  <2>2. request' = [request EXCEPT ![r] = p]
    BY <1>7 DEF CreateActivity
  <2> HIDE DEF p
  <2>3. QED
    BY <1>2, <1>3, <2>1, <2>2, RequestTurns
<1>8. QED
  BY <1>4, <1>5, <1>6, <1>7 DEF FindActivity

LEMMA CommitKeeps ==
  ASSUME Inv, NEW r \in Requests, Commit(r)
  PROVE  Inv'
<1> DEFINE q == request[r]
<1>1. q.row \in User /\ Mailed("verify", q.row.code, mails) /\ Mailed("reset", q.row.token, mails)
  BY HeldFits DEF Commit, Fits, Holding
<1>2. /\ account' = q.row /\ UNCHANGED <<mails, clock, started>>
      /\ request' = [request EXCEPT ![r] = Blank]
  BY DEF Commit, Finish
<1>3. RowIsMailed(account', mails') /\ account' # NoUser /\ Kept(mails, mails')
  BY <1>1, <1>2, NoUserIsNoRow DEF RowIsMailed, Kept
<1>4. QED
  BY <1>2, <1>3, BlankFits, RequestMoves DEF Inv

LEMMA SaveUserKeeps ==
  ASSUME Inv, NEW r \in Requests, SaveUser(r)
  PROVE  Inv'
<1> DEFINE q == request[r]
           u == [q.row EXCEPT !.required = Required(q.op, q.row)]
<1>1. /\ Formed(q) /\ q.row \in User /\ q.op \in RowOps \cup {"sendReset"}
      /\ Mailed("verify", q.row.code, mails) /\ Mailed("reset", q.row.token, mails)
  BY HeldFits DEF SaveUser, Fits, Holding, RowOps
<1>2. u \in User /\ u.code = q.row.code /\ u.token = q.row.token
  BY <1>1, Times DEF User, Required
<1>3. account' = u /\ UNCHANGED <<mails, clock, started>>
  BY DEF SaveUser
<1>4. RowIsMailed(account', mails') /\ account' # NoUser /\ Kept(mails, mails')
  <2> HIDE DEF u
  <2>1. QED
    BY <1>1, <1>2, <1>3, NoUserIsNoRow DEF RowIsMailed, Kept
<1>5. CASE Finish(r)
  BY <1>3, <1>4, <1>5, BlankFits, RequestMoves DEF Inv, Finish
<1>6. CASE \E at \in {"count", "sign"} : Goto(r, at)
  <2>1. PICK at \in {"count", "sign"} : Goto(r, at)
    BY <1>6
  <2> DEFINE p == [q EXCEPT !.at = at]
  <2>2. Formed(p) /\ p.at = at
    BY <1>1 DEF Formed, Fields
  <2>3. request' = [request EXCEPT ![r] = p]
    BY <2>1 DEF Goto
  <2> HIDE DEF p
  <2>4. Fits(p.op, p.at, p.row, mails') /\ p.at # "guarded"
    BY <2>2 DEF Fits, Holding
  <2>5. QED
    BY <1>3, <1>4, <2>2, <2>3, <2>4, RequestMoves DEF Inv
<1>7. QED
  BY <1>1, <1>5, <1>6 DEF SaveUser, AfterSave, RowOps

LEMMA GoogleSignUpKeeps ==
  ASSUME Inv, NEW r \in Requests, GoogleSignUp(r)
  PROVE  Inv'
<1> DEFINE q == request[r]
           p == [q EXCEPT !.at = "sign", !.row = GoogleUser]
<1>1. UNCHANGED <<mails, clock, started>>
  BY DEF GoogleSignUp
<1>2. CASE Finish(r) /\ UNCHANGED account
  BY <1>1, <1>2, FinishKeeps
<1>3. CASE account' = GoogleUser
           /\ request' = [request EXCEPT ![r].at = "sign", ![r].row = GoogleUser]
  <2>1. GoogleUser \in User /\ GoogleUser.code = None /\ GoogleUser.token = None
    BY Times DEF GoogleUser, User
  <2>2. RowIsMailed(account', mails') /\ account' # NoUser /\ Kept(mails, mails')
    BY <1>1, <1>3, <2>1, NoUserIsNoRow DEF RowIsMailed, Mailed, Kept
  <2>3. Formed(p) /\ p.at = "sign"
    BY <2>1, HeldFits DEF Formed, Fields
  <2>4. request' = [request EXCEPT ![r] = p]
    BY <1>3
  <2> HIDE DEF p
  <2>5. Fits(p.op, p.at, p.row, mails')
    BY <2>3 DEF Fits, Holding
  <2>6. QED
    BY <1>1, <2>2, <2>3, <2>4, <2>5, RequestMoves DEF Inv
<1>4. QED
  BY <1>2, <1>3 DEF GoogleSignUp

LEMMA ReadForChangeKeeps ==
  ASSUME Inv, NEW r \in Requests, ReadForChange(r)
  PROVE  Inv'
<1> DEFINE q == request[r]
           u == [account EXCEPT !.password = q.secret, !.provider = "password"]
           p == [q EXCEPT !.at = "saveUser", !.secret = None, !.row = u]
<1>1. account \in User /\ q.op = "change" /\ Formed(q)
  BY HeldFits DEF ReadForChange, Fits
<1>2. Mailed("verify", account.code, mails) /\ Mailed("reset", account.token, mails)
  BY <1>1, NoUserIsNoRow, ReadFits
<1>3. UNCHANGED <<account, mails, clock, started>>
  BY DEF ReadForChange
<1>4. u \in User /\ u.code = account.code /\ u.token = account.token
  BY <1>1 DEF User, Formed
<1>5. Formed(p) /\ p.op = "change" /\ p.at = "saveUser" /\ p.row = u
  <2> HIDE DEF u
  <2>1. QED
    BY <1>1, <1>4 DEF Formed, Fields
<1>6. Finish(r) \/ request' = [request EXCEPT ![r] = p]
  BY DEF ReadForChange
<1> HIDE DEF p, u
<1>7. Fits(p.op, p.at, p.row, mails)
  BY <1>2, <1>4, <1>5 DEF Fits, RowOps
<1>8. QED
  BY <1>3, <1>5, <1>6, <1>7, FinishKeeps, RequestTurns

LEMMA OtherStepsKeep ==
  ASSUME Inv, NEW r \in Requests,
         InsertUser(r) \/ SaveActivity(r) \/ CheckExpiry(r) \/ Sign(r) \/ Abort(r)
  PROVE  Inv'
<1>1. UNCHANGED <<account, mails, clock, started>>
  BY DEF InsertUser, SaveActivity, CheckExpiry, Sign, Abort
<1>2. CASE Finish(r)
  BY <1>1, <1>2, FinishKeeps
<1>3. CASE InsertUser(r) /\ Goto(r, "queue")
  <2>1. Fits(request[r].op, "queue", request[r].row, mails)
    BY <1>3, HeldFits DEF InsertUser, Fits, Holding, MailOps
  <2>2. QED
    BY <1>1, <1>3, <2>1, GotoKeeps
<1>4. CASE CheckExpiry(r) /\ Goto(r, "saveUser")
  <2>1. Fits(request[r].op, "saveUser", request[r].row, mails)
    BY <1>4, HeldFits DEF CheckExpiry, Fits, Holding, RowOps
  <2>2. QED
    BY <1>1, <1>4, <2>1, GotoKeeps
<1>5. QED
  BY <1>2, <1>3, <1>4 DEF InsertUser, SaveActivity, CheckExpiry, Sign, Abort

-----------------------------------------------------------------------------
LEMMA Inductive == Inv /\ [Next]_vars => Inv'
<1> SUFFICES ASSUME Inv, [Next]_vars PROVE Inv'
  OBVIOUS
<1>1. CASE Tick
  <2>1. clock' \in 0..MaxClock /\ UNCHANGED <<account, mails, request, started>>
    BY <1>1, ConstantsOK DEF Tick, Inv
  <2>2. QED
    BY <2>1 DEF Inv, RequestsFit
<1>2. CASE UNCHANGED vars
  BY <1>2 DEF vars, Inv, RequestsFit
<1>3. ASSUME NEW r \in Requests, Step(r) PROVE Inv'
  BY <1>3, BeginKeeps, QueueMailKeeps, FindActivityKeeps, CommitKeeps, SaveUserKeeps,
     GoogleSignUpKeeps, ReadForChangeKeeps, OtherStepsKeep DEF Step
<1>4. QED
  BY <1>1, <1>2, <1>3 DEF Next, Quiet

\* For any number of requests, whatever they overlap with and wherever they
\* die, the code and the token that the row holds were put into a mail: each
\* handler mails what it made before it saves it, and a save of a stale row
\* brings back only what was mailed before.
THEOREM SecretsWereMailed == Spec => []EveryStoredSecretWasMailed
<1>1. Init => Inv
  <2> SUFFICES ASSUME Init PROVE Inv
    OBVIOUS
  <2>1. clock \in 0..MaxClock /\ started \in 0..MaxRequests /\ mails \in Seq(Letter)
    BY ConstantsOK DEF Init
  <2>2. RowIsMailed(account, mails)
    BY DEF Init, RowIsMailed
  <2>3. Formed(Blank) /\ Fits(Blank.op, Blank.at, Blank.row, mails) /\ Blank.at # "guarded"
    BY ConstantsOK DEF Blank, Formed, Fits, Fields, Holding, Never, Time
  <2>4. QED
    BY <2>1, <2>2, <2>3 DEF Init, Inv, RequestsFit
<1>2. Inv => EveryStoredSecretWasMailed
  BY DEF Inv, RowIsMailed, Mailed, EveryStoredSecretWasMailed
<1>3. QED
  BY <1>1, <1>2, Inductive, PTL DEF Spec

-----------------------------------------------------------------------------
(* Type correctness, and which row each handler has read.                  *)

\* The steps of each handler.
Staged(op, at) ==
  \/ op = "none" /\ at = "idle"
  \/ op = "register" /\ at \in {"insert", "queue", "commit"}
  \/ op = "resend" /\ at \in {"find", "queue", "count"}
  \/ op = "sendReset" /\ at \in {"find", "create", "queue", "saveUser", "count"}
  \/ op \in {"activate", "rename"} /\ at = "saveUser"
  \/ op = "google" /\ at \in {"signUp", "saveUser", "sign"}
  \/ op \in {"login", "refresh"} /\ at = "sign"
  \/ op = "reset" /\ at \in {"expiry", "saveUser"}
  \/ op = "change" /\ at \in {"guarded", "saveUser"}

\* Only rows that Google verified have no code.
Coded(u) == u \in User /\ (u.code = None => u.verified)
Rowed == {"insert", "queue", "commit", "find", "create", "saveUser", "expiry", "sign"}
Inserting(q) == q.op = "register" /\ q.at \in {"queue", "commit"}

HoldsRow(q) ==
  /\ q \in Request /\ Staged(q.op, q.at) /\ (q.op = "none" => q = Blank)
  /\ q.at \in Rowed => Coded(q.row)
  /\ q.at = "guarded" => q.secret \in Secret
  /\ q.op = "sendReset" /\ q.at # "count" => q.row.token \in Secret /\ q.row.verified
  /\ q.op \in {"register", "resend"} /\ q.at # "count" => q.row.code \in Secret
  /\ q.op \in {"activate", "google"} /\ q.at = "saveUser" => q.row.verified

SavesActivity(q, n) ==
  q.op \in {"resend", "sendReset"} /\ q.at \in {"queue", "saveUser", "count"} => q.id \in 1..n

\* Whoever gets past the guards has seen the user, and seen him verified.
KnowsUser(q, acc, kept) ==
  /\ q.op \notin {"none", "register"} /\ q.at # "signUp" => acc # NoUser
  /\ Inserting(q) => acc = NoUser
  /\ kept => /\ q.at \in {"sign", "guarded"} => acc.verified
             /\ q.op = "change" /\ q.at = "saveUser" => q.row.verified

Stands == "verified" \notin undone
World ==
  /\ account = NoUser \/ Coded(account)
  /\ acts \in Seq(Activity) /\ mails \in Seq(Mail) /\ sessions \subseteq Session
  /\ clock \in 0..MaxClock /\ started \in 0..MaxRequests /\ fails \in 0..MaxFail
  /\ undone \subseteq {"password", "verified"} /\ disturbed \in BOOLEAN
  /\ sessions # {} => account # NoUser /\ (Stands => account.verified)
Handlers ==
  /\ request \in [Requests -> Request]
  /\ \A r \in Requests :
       /\ HoldsRow(request[r]) /\ SavesActivity(request[r], Len(acts))
       /\ KnowsUser(request[r], account, Stands)
  /\ \A r, s \in Requests : Inserting(request[r]) /\ Inserting(request[s]) => r = s

LEMMA BlankHolds ==
  /\ HoldsRow(Blank) /\ ~Inserting(Blank)
  /\ \A n, acc, kept : SavesActivity(Blank, n) /\ KnowsUser(Blank, acc, kept)
<1>1. Never \in Time /\ 0 \in 0..MaxPerDay
  BY ConstantsOK DEF Never, Time
<1>2. Blank \in Request
  BY <1>1 DEF Blank, Request
<1>3. QED
  BY <1>2 DEF HoldsRow, Blank, Staged, Rowed, Inserting, SavesActivity, KnowsUser

LEMMA Facts ==
  ASSUME World
  PROVE  /\ clock \in Time /\ Never \in Time /\ clock \in Nat /\ 0 \in Time
         /\ {0, 1} \subseteq 0..MaxPerDay
         /\ started < MaxRequests => fresh \in Secret /\ fresh = started + 1
         /\ None \notin Secret /\ Len(acts) \in Nat /\ DOMAIN acts = 1..Len(acts)
BY ConstantsOK, SMTT(30) DEF World, Time, Never, Secret, fresh

\* A step of one request.
LEMMA HandlerMoves ==
  ASSUME Handlers, World, NEW r \in Requests, NEW p, request' = [request EXCEPT ![r] = p],
         HoldsRow(p), SavesActivity(p, Len(acts')), KnowsUser(p, account', Stands'),
         Inserting(p) => \A s \in Requests \ {r} : ~Inserting(request[s]),
         Len(acts') \in Nat, Len(acts) <= Len(acts'),
         account # NoUser => account' # NoUser,
         \A s \in Requests \ {r} : Inserting(request[s]) => account' = NoUser,
         Stands' => Stands /\ (account # NoUser /\ account.verified => account'.verified)
  PROVE  Handlers'
<1>1. DOMAIN request' = Requests /\ request'[r] = p /\ Len(acts) \in Nat
  BY DEF Handlers, World
<1>2. \A s \in Requests \ {r} : request'[s] = request[s]
  BY DEF Handlers
<1>3. ASSUME NEW s \in Requests
      PROVE  /\ HoldsRow(request'[s]) /\ SavesActivity(request'[s], Len(acts'))
             /\ KnowsUser(request'[s], account', Stands')
  <2>1. CASE s = r
    BY <1>1, <2>1
  <2>2. CASE s # r
    <3> DEFINE q == request[s]
    <3>1. HoldsRow(q) /\ SavesActivity(q, Len(acts)) /\ KnowsUser(q, account, Stands)
      BY DEF Handlers
    <3>2. SavesActivity(q, Len(acts'))
      <4>1. q.id \in Nat
        BY <3>1 DEF HoldsRow, Request
      <4>2. QED
        BY <1>1, <3>1, <4>1 DEF SavesActivity
    <3>3. q.at \in {"sign", "guarded"} => account # NoUser
      BY <3>1 DEF HoldsRow, Staged, KnowsUser
    <3>4. KnowsUser(q, account', Stands')
      BY <2>2, <3>1, <3>3 DEF KnowsUser
    <3>5. QED
      BY <1>2, <2>2, <3>1, <3>2, <3>4
  <2>3. QED
    BY <2>1, <2>2
<1>4. \A s, t \in Requests : Inserting(request'[s]) /\ Inserting(request'[t]) => s = t
  BY <1>1, <1>2 DEF Handlers
<1>5. request' \in [Requests -> Request]
  BY DEF Handlers, HoldsRow
<1>6. QED
  BY <1>1, <1>3, <1>4, <1>5 DEF Handlers

LEMMA WorldStays ==
  ASSUME World, UNCHANGED <<account, acts, mails, sessions, clock, undone>>,
         started' \in 0..MaxRequests, fails' \in 0..MaxFail, disturbed' \in BOOLEAN
  PROVE  World'
BY DEF World, Stands, Coded

\* A request that only holds something else, or is done.
LEMMA HandlerTurns ==
  ASSUME Handlers, World, NEW r \in Requests, NEW p, request' = [request EXCEPT ![r] = p],
         HoldsRow(p), SavesActivity(p, Len(acts)), KnowsUser(p, account, Stands),
         Inserting(p) => \A s \in Requests \ {r} : ~Inserting(request[s]),
         UNCHANGED <<account, acts, undone>>
  PROVE  Handlers'
<1>1. Len(acts) \in Nat
  BY DEF World
<1>2. \A s \in Requests \ {r} : Inserting(request[s]) => account = NoUser
  BY DEF Handlers, KnowsUser
<1>3. Stands' <=> Stands
  BY DEF Stands
<1>4. SavesActivity(p, Len(acts')) /\ KnowsUser(p, account', Stands')
  BY <1>3 DEF KnowsUser
<1>5. /\ Len(acts') \in Nat /\ Len(acts) <= Len(acts') /\ (account # NoUser => account' # NoUser)
      /\ \A s \in Requests \ {r} : Inserting(request[s]) => account' = NoUser
  BY <1>1, <1>2
<1>6. Stands' => Stands /\ (account # NoUser /\ account.verified => account'.verified)
  BY <1>3
<1>7. QED
  BY <1>4, <1>5, <1>6, HandlerMoves, Zenon

LEMMA HandlerEnds ==
  ASSUME Handlers, World, NEW r \in Requests, Finish(r), UNCHANGED <<account, acts, undone>>
  PROVE  Handlers'
BY BlankHolds, HandlerTurns DEF Finish

Starts(r) ==
  \/ Register(r) \/ Activate(r) \/ Resend(r) \/ SendReset(r) \/ Reset(r)
  \/ ChangePassword(r) \/ Rename(r) \/ Login(r) \/ Refresh(r) \/ GoogleLogin(r)

\* What a request holds once it has passed its checks, and knows of the user.
Opened(op, at, u, secret) ==
  \/ op = "register" /\ at = "insert" /\ u = Registered(fresh)
  \/ op = "google" /\ at = "signUp"
  \/ /\ account # NoUser
     /\ \/ op \in {"activate", "google"} /\ at = "saveUser" /\ u = [account EXCEPT !.verified = TRUE]
        \/ op = "rename" /\ at = "saveUser" /\ u = account
        \/ op = "resend" /\ at = "find" /\ u = account /\ account.code \in Secret
        \/ op = "sendReset" /\ at = "find" /\ u = [account EXCEPT !.token = fresh] /\ account.verified
        \/ op = "reset" /\ at = "expiry"
           /\ u = [account EXCEPT !.password = fresh, !.token = None, !.provider = "password"]
        \/ op = "change" /\ at = "guarded" /\ secret = fresh /\ (Stands => account.verified)
        \/ op \in {"login", "refresh", "google"} /\ at = "sign" /\ u = account
           /\ (Stands => account.verified)

LEMMA Begins ==
  ASSUME NEW r \in Requests, NEW q \in Request,
         NEW op \in {"register", "resend", "sendReset", "activate", "reset", "change",
                     "rename", "google", "login", "refresh"},
         NEW at \in {"insert", "find", "saveUser", "expiry", "guarded", "signUp", "sign"},
         Start(r, op, at, q), Opened(op, at, q.row, q.secret)
  PROVE  \E p \in Request : /\ request' = [request EXCEPT ![r] = p]
                           /\ Opened(p.op, p.at, p.row, p.secret)
<1> DEFINE p == [q EXCEPT !.op = op, !.at = at]
<1>1. request' = [request EXCEPT ![r] = p]
  BY DEF Start
<1>2. p \in Request
  BY ZenonT(60) DEF Request, MailOps, RowOps
<1>3. DOMAIN q = Fields
  BY DEF Request, Fields
<1>4. p.op = op /\ p.at = at /\ p.row = q.row /\ p.secret = q.secret
  BY <1>3 DEF Fields
<1> HIDE DEF p
<1>5. QED
  BY <1>1, <1>2, <1>4

LEMMA Moved ==
  ASSUME NEW q \in Request, NEW at \in {"queue", "commit", "create", "saveUser", "count", "sign"}
  PROVE  LET p == [q EXCEPT !.at = at] IN
         p \in Request /\ p.at = at /\ p.op = q.op /\ p.row = q.row /\ p.id = q.id
<1>1. [q EXCEPT !.at = at] \in Request
  BY DEF Request, MailOps, RowOps
<1>2. DOMAIN q = Fields
  BY DEF Request, Fields
<1>3. QED
  BY <1>1, <1>2 DEF Fields

\* What a handler must hold to go on with the row that it has read.
Reaches(q, at) ==
  /\ q.op \in {"register", "resend", "sendReset", "reset"} /\ Staged(q.op, at)
  /\ q.at \in Rowed
  /\ q.op \in {"resend", "sendReset"} => at = "create" \/ q.at \in {"queue", "saveUser"}
  /\ q.op = "register" => Inserting(q) \/ (account = NoUser /\ ~Locked)

LEMMA HandlerGoes ==
  ASSUME Handlers, World, NEW r \in Requests,
         NEW at \in {"queue", "commit", "create", "saveUser", "count"}, Goto(r, at),
         UNCHANGED <<account, acts, undone>>, Reaches(request[r], at)
  PROVE  Handlers'
<1> DEFINE q == request[r]
           p == [q EXCEPT !.at = at]
<1>1. request' = [request EXCEPT ![r] = p]
  BY DEF Goto
<1>2. HoldsRow(q) /\ SavesActivity(q, Len(acts)) /\ KnowsUser(q, account, Stands) /\ q \in Request
  BY DEF Handlers, HoldsRow
<1>3. p \in Request /\ p.at = at /\ p.op = q.op /\ p.row = q.row /\ p.id = q.id
  <2>1. p \in Request
    BY <1>2 DEF Request, MailOps, RowOps
  <2>2. DOMAIN q = Fields
    BY <1>2 DEF Request, Fields
  <2>3. QED
    BY <2>1, <2>2 DEF Fields
<1>4. Reaches(q, at)
  OBVIOUS
<1>5. Inserting(q) \/ (account = NoUser /\ ~Locked) =>
        account = NoUser /\ \A s \in Requests \ {r} : ~Inserting(request[s])
  BY <1>2 DEF Handlers, KnowsUser, Inserting, Locked
<1> HIDE DEF p, q
<1>6. HoldsRow(p)
  BY <1>2, <1>3, <1>4 DEF HoldsRow, Reaches, Staged, Rowed
<1>7. SavesActivity(p, Len(acts))
  BY <1>2, <1>3, <1>4 DEF SavesActivity, Reaches, Staged
<1>8. KnowsUser(p, account, Stands)
  BY <1>2, <1>3, <1>4, <1>5 DEF KnowsUser, Reaches, Staged, Rowed, Inserting
<1>9. Inserting(p) => \A s \in Requests \ {r} : ~Inserting(request[s])
  BY <1>3, <1>4, <1>5 DEF Reaches, Inserting
<1>10. QED
  BY <1>1, <1>6, <1>7, <1>8, <1>9, HandlerTurns

LEMMA ReadHolds ==
  ASSUME World, account # NoUser
  PROVE  /\ Coded(account) /\ account \in User /\ Read \in Request /\ Read.row = account
         /\ DOMAIN account = {"provider", "password", "code", "verified", "token", "required"}
<1>1. Coded(account) /\ account \in User
  BY DEF World, Coded
<1>2. Blank \in Request
  BY BlankHolds DEF HoldsRow
<1>3. QED
  BY <1>1, <1>2 DEF Read, Request, User

\* The rows that handlers make of the one they read.
LEMMA RowsMade ==
  ASSUME NEW u, Coded(u)
  PROVE  /\ Coded([u EXCEPT !.verified = TRUE]) /\ [u EXCEPT !.verified = TRUE].verified
         /\ \A t \in Secret :
              /\ Coded([u EXCEPT !.token = t]) /\ [u EXCEPT !.token = t].token = t
              /\ [u EXCEPT !.token = t].verified = u.verified
         /\ \A t \in Secret :
              /\ Coded([u EXCEPT !.password = t, !.token = None, !.provider = "password"])
              /\ Coded([u EXCEPT !.password = t, !.provider = "password"])
              /\ [u EXCEPT !.password = t, !.provider = "password"].verified = u.verified
         /\ \A t \in Time : Coded([u EXCEPT !.required = t])
                            /\ [u EXCEPT !.required = t].verified = u.verified
BY DEF Coded, User

LEMMA StartsOpen ==
  ASSUME World, NEW r \in Requests, Starts(r)
  PROVE  \E p \in Request : /\ request' = [request EXCEPT ![r] = p]
                           /\ Opened(p.op, p.at, p.row, p.secret)
<1> DEFINE Goal == \E p \in Request : /\ request' = [request EXCEPT ![r] = p]
                                      /\ Opened(p.op, p.at, p.row, p.secret)
<1>1. Blank \in Request
  BY BlankHolds DEF HoldsRow
<1>2. CASE Register(r)
  <2> DEFINE q == [Blank EXCEPT !.row = Registered(fresh), !.attempts = 1, !.last = clock]
  <2>1. Start(r, "register", "insert", q) /\ fresh \in Secret
    BY <1>2, Facts DEF Register, Start
  <2>2. Coded(Registered(fresh)) /\ Registered(fresh).code \in Secret
    BY <2>1, Facts DEF Registered, Coded, User
  <2>3. q \in Request /\ q.row = Registered(fresh)
    BY <1>1, <2>2, Facts DEF Request, Coded
  <2> HIDE DEF q
  <2>4. Opened("register", "insert", q.row, q.secret)
    BY <2>2, <2>3 DEF Opened
  <2>5. QED
    BY <2>1, <2>3, <2>4, Begins
<1>3. ASSUME NEW op \in {"activate", "google"}, account # NoUser,
             Start(r, op, "saveUser", [Read EXCEPT !.row.verified = TRUE])
      PROVE  Goal
  <2> DEFINE q == [Read EXCEPT !.row.verified = TRUE]
             u == [account EXCEPT !.verified = TRUE]
  <2>1. Coded(u) /\ u.verified
    BY <1>3, ReadHolds, RowsMade
  <2>2. q \in Request /\ q.row = u
    BY <1>3, <2>1, ReadHolds DEF Request, Coded
  <2>3. Start(r, op, "saveUser", q)
    BY <1>3
  <2> HIDE DEF q, u
  <2>4. Opened(op, "saveUser", q.row, q.secret)
    BY <1>3, <2>1, <2>2 DEF Opened, u
  <2>5. QED
    BY <2>2, <2>3, <2>4, Begins
<1>4. CASE Resend(r)
  <2>1. account # NoUser /\ account.code \in Secret /\ Start(r, "resend", "find", Read)
    BY <1>4, ReadHolds DEF Resend, Coded, User
  <2>2. Opened("resend", "find", Read.row, Read.secret)
    BY <2>1, ReadHolds DEF Opened
  <2>3. QED
    BY <2>1, <2>2, ReadHolds, Begins
<1>5. CASE Rename(r)
  <2>1. account # NoUser /\ Start(r, "rename", "saveUser", Read)
    BY <1>5 DEF Rename
  <2>2. Opened("rename", "saveUser", Read.row, Read.secret)
    BY <2>1, ReadHolds DEF Opened
  <2>3. QED
    BY <2>1, <2>2, ReadHolds, Begins
<1>6. CASE SendReset(r)
  <2> DEFINE q == [Read EXCEPT !.row.token = fresh, !.listed = acts]
             u == [account EXCEPT !.token = fresh]
  <2>1. account # NoUser /\ account.verified /\ Start(r, "sendReset", "find", q) /\ fresh \in Secret
    BY <1>6, Facts DEF SendReset, Resettable, Start
  <2>2. Coded(u) /\ u.verified /\ u.token \in Secret
    BY <2>1, ReadHolds, RowsMade
  <2>3. q \in Request /\ q.row = u
    BY <2>1, <2>2, ReadHolds DEF Request, World, Coded
  <2> HIDE DEF q, u
  <2>4. Opened("sendReset", "find", q.row, q.secret)
    BY <2>1, <2>2, <2>3 DEF Opened, u
  <2>5. QED
    BY <2>1, <2>3, <2>4, Begins
<1>7. CASE Reset(r)
  <2> DEFINE q == [Read EXCEPT !.row.password = fresh, !.row.token = None,
                               !.row.provider = "password"]
             u == [account EXCEPT !.password = fresh, !.token = None, !.provider = "password"]
  <2>1. account # NoUser /\ Start(r, "reset", "expiry", q) /\ fresh \in Secret
    BY <1>7, Facts DEF Reset, Start
  <2>2. Coded(u)
    BY <2>1, ReadHolds, RowsMade
  <2>3. q \in Request /\ q.row = u
    BY <2>1, <2>2, ReadHolds DEF Request, Coded
  <2> HIDE DEF q, u
  <2>4. Opened("reset", "expiry", q.row, q.secret)
    BY <2>1, <2>2, <2>3 DEF Opened, u
  <2>5. QED
    BY <2>1, <2>3, <2>4, Begins
<1>8. CASE ChangePassword(r)
  <2> DEFINE q == [Blank EXCEPT !.secret = fresh]
  <2>1. sessions # {} /\ Start(r, "change", "guarded", q) /\ fresh \in Secret
    BY <1>8, Facts DEF ChangePassword, Start
  <2>2. q \in Request /\ q.secret = fresh
    BY <1>1, <2>1 DEF Request
  <2>3. account # NoUser /\ (Stands => account.verified)
    BY <2>1 DEF World
  <2> HIDE DEF q
  <2>4. Opened("change", "guarded", q.row, q.secret)
    BY <2>2, <2>3 DEF Opened
  <2>5. QED
    BY <2>1, <2>2, <2>4, Begins
<1>9. ASSUME NEW op \in {"login", "refresh", "google"}, NEW q \in Request, Start(r, op, "sign", q),
             q.row = account, account # NoUser, Stands => account.verified
      PROVE  Goal
  <2>1. Opened(op, "sign", q.row, q.secret)
    BY <1>9, ReadHolds DEF Opened
  <2>2. QED
    BY <1>9, <2>1, Begins
<1>10. CASE Login(r) \/ (GoogleLogin(r) /\ account # NoUser /\ account.verified)
  <2>1. account # NoUser /\ account.verified
        /\ (Start(r, "login", "sign", Read) \/ Start(r, "google", "sign", Read))
    BY <1>10 DEF Login, GoogleLogin
  <2>2. QED
    BY <1>9, <2>1, ReadHolds
<1>11. CASE Refresh(r)
  <2>1. PICK s \in sessions : Start(r, "refresh", "sign", [Read EXCEPT !.raced = s.raced])
    BY <1>11 DEF Refresh
  <2>2. account # NoUser /\ (Stands => account.verified) /\ s.raced \in BOOLEAN
    BY <2>1 DEF World, Session
  <2> DEFINE q == [Read EXCEPT !.raced = s.raced]
  <2>3. q \in Request /\ q.row = account
    BY <2>2, ReadHolds DEF Request
  <2> HIDE DEF q
  <2>4. Start(r, "refresh", "sign", q)
    BY <2>1 DEF q
  <2>5. QED
    BY <1>9, <2>2, <2>3, <2>4
<1>12. CASE GoogleLogin(r) /\ account = NoUser
  <2>1. Start(r, "google", "signUp", Blank)
    BY <1>12 DEF GoogleLogin
  <2>2. Opened("google", "signUp", Blank.row, Blank.secret)
    BY DEF Opened
  <2>3. QED
    BY <1>1, <2>1, <2>2, Begins
<1>13. CASE Activate(r)
  BY <1>3, <1>13 DEF Activate
<1>14. CASE GoogleLogin(r)
  <2>1. CASE account = NoUser
    BY <1>12, <1>14, <2>1
  <2>2. CASE account # NoUser /\ account.verified
    BY <1>10, <1>14, <2>2
  <2>3. CASE account # NoUser /\ ~account.verified
    BY <1>3, <1>14, <2>3 DEF GoogleLogin
  <2>4. QED
    BY <2>1, <2>2, <2>3, Zenon
<1>15. QED
  BY <1>2, <1>4, <1>5, <1>6, <1>7, <1>8, <1>10, <1>11, <1>13, <1>14 DEF Starts

LEMMA Starting ==
  ASSUME World, NEW r \in Requests, Starts(r)
  PROVE  /\ UNCHANGED <<account, acts, mails, sessions, clock, fails, undone>>
         /\ started < MaxRequests /\ started' = started + 1 /\ disturbed' \in BOOLEAN
<1>1. \E op, at, q : Start(r, op, at, q)
  BY Zenon DEF Starts, Register, Activate, Resend, SendReset, Reset, ChangePassword, Rename, Login,
     Refresh, GoogleLogin
<1>2. QED
  BY <1>1 DEF Start, World

LEMMA StartHolds ==
  ASSUME World, Handlers, NEW r \in Requests, Starts(r)
  PROVE  World' /\ Handlers'
<1>1. /\ UNCHANGED <<account, acts, mails, sessions, clock, fails, undone>>
      /\ started' \in 0..MaxRequests /\ disturbed' \in BOOLEAN /\ fresh \in Secret
  BY Starting, Facts, ConstantsOK DEF World
<1>2. World'
  BY <1>1, WorldStays DEF World
<1>3. PICK p \in Request : /\ request' = [request EXCEPT ![r] = p]
                           /\ Opened(p.op, p.at, p.row, p.secret)
  BY StartsOpen
<1> DEFINE op == p.op
           at == p.at
           u  == p.row
<1>4. Opened(op, at, u, p.secret)
  BY <1>3
<1> HIDE DEF op, at, u
<1>5. Coded(Registered(fresh)) /\ Registered(fresh).code = fresh
  BY <1>1, Facts DEF Registered, Coded, User
<1> DEFINE u1 == [account EXCEPT !.verified = TRUE]
           u2 == [account EXCEPT !.token = fresh]
           u3 == [account EXCEPT !.password = fresh, !.token = None, !.provider = "password"]
<1>6. account # NoUser => /\ Coded(account) /\ Coded(u1) /\ Coded(u2) /\ Coded(u3)
                          /\ u1.verified /\ u2.token = fresh /\ u2.verified = account.verified
  BY <1>1, ReadHolds, RowsMade
<1>7. /\ at \in Rowed => Coded(u)
      /\ op = "sendReset" => u.token \in Secret /\ u.verified
      /\ op \in {"register", "resend"} => u.code \in Secret
      /\ op \in {"activate", "google"} /\ at = "saveUser" => u.verified
  <2> HIDE DEF Registered, u1, u2, u3
  <2>1. Opened(op, at, u, p.secret) =>
          \/ op = "register" /\ u = Registered(fresh)
          \/ op = "google" /\ at = "signUp"
          \/ account # NoUser /\ op \in {"activate", "google"} /\ u = u1
          \/ account # NoUser /\ op = "resend" /\ u = account /\ account.code \in Secret
          \/ account # NoUser /\ op = "sendReset" /\ u = u2 /\ account.verified
          \/ account # NoUser /\ op = "reset" /\ u = u3
          \/ op = "change" /\ at = "guarded"
          \/ account # NoUser /\ op \in {"rename", "login", "refresh", "google"} /\ u = account
             /\ (at # "saveUser" \/ op = "rename")
    BY DEF Opened, u1, u2, u3
  <2>2. QED
    BY <1>1, <1>4, <1>5, <1>6, <2>1 DEF Rowed
<1>8. /\ Staged(op, at) /\ op # "none" /\ at \notin {"queue", "commit", "count", "create"}
      /\ op = "sendReset" => at = "find"
      /\ op # "register" /\ at # "signUp" => account # NoUser
      /\ at = "guarded" => p.secret \in Secret
      /\ Stands /\ at \in {"sign", "guarded"} => account.verified
      /\ ~(op = "change" /\ at = "saveUser")
  BY <1>1, <1>4 DEF Opened, Staged
<1>9. HoldsRow(p)
  BY <1>7, <1>8 DEF HoldsRow, op, at, u
<1>10. SavesActivity(p, Len(acts)) /\ KnowsUser(p, account, Stands) /\ ~Inserting(p)
  BY <1>8 DEF SavesActivity, KnowsUser, Inserting, Staged, op, at
<1>11. QED
  BY <1>1, <1>2, <1>3, <1>9, <1>10, HandlerTurns

LEMMA HandlersAre ==
  ASSUME Handlers, NEW r \in Requests
  PROVE  /\ HoldsRow(request[r]) /\ SavesActivity(request[r], Len(acts))
         /\ KnowsUser(request[r], account, Stands) /\ request[r] \in Request
         /\ account # NoUser => \A s \in Requests : ~Inserting(request[s])
         /\ Inserting(request[r]) => \A s \in Requests \ {r} : ~Inserting(request[s])
BY DEF Handlers, HoldsRow, KnowsUser

LEMMA GoingHolds ==
  ASSUME World, Handlers, NEW r \in Requests,
         InsertUser(r) \/ CheckExpiry(r) \/ Abort(r)
  PROVE  World' /\ Handlers'
<1> DEFINE q == request[r]
<1>1. UNCHANGED <<account, acts, mails, sessions, clock, started, undone>>
      /\ fails' \in 0..MaxFail /\ disturbed' \in BOOLEAN /\ started' \in 0..MaxRequests
  <2>1. fails \in 0..MaxFail /\ disturbed \in BOOLEAN /\ started \in 0..MaxRequests
    BY DEF World
  <2>2. CASE Abort(r)
    BY <2>1, <2>2, ConstantsOK DEF Abort
  <2>3. CASE InsertUser(r) \/ CheckExpiry(r)
    BY <2>1, <2>3 DEF InsertUser, CheckExpiry
  <2>4. QED
    BY <2>2, <2>3
<1>2. World'
  BY <1>1, WorldStays
<1>3. CASE Finish(r)
  BY <1>1, <1>2, <1>3, HandlerEnds
<1>4. CASE InsertUser(r) /\ Goto(r, "queue")
  <2>1. q.op = "register" /\ q.at = "insert" /\ ~Locked
    BY <1>4 DEF InsertUser
  <2>2. account = NoUser
    <3>1. CASE Finish(r)
      <4>1. request'[r] = Blank /\ request'[r] = [q EXCEPT !.at = "queue"] /\ q \in Request
        BY <1>4, <3>1, HandlersAre DEF Goto, Finish, Handlers
      <4>2. [q EXCEPT !.at = "queue"].at = "queue"
        BY <4>1, Moved
      <4>3. QED
        BY <4>1, <4>2 DEF Blank
    <3>2. QED
      BY <1>4, <3>1 DEF InsertUser
  <2>3. Reaches(q, "queue")
    BY <2>1, <2>2 DEF Reaches, Staged, Rowed
  <2>4. QED
    BY <1>1, <1>2, <1>4, <2>3, HandlerGoes
<1>5. CASE CheckExpiry(r) /\ Goto(r, "saveUser")
  <2>1. q.at = "expiry" /\ q.op = "reset"
    BY <1>5, HandlersAre DEF CheckExpiry, HoldsRow, Staged
  <2>2. Reaches(q, "saveUser")
    BY <2>1 DEF Reaches, Staged, Rowed
  <2>3. QED
    BY <1>1, <1>2, <1>5, <2>2, HandlerGoes
<1>6. QED
  BY <1>3, <1>4, <1>5 DEF InsertUser, CheckExpiry, Abort

LEMMA ActivityIs ==
  ASSUME World, NEW i \in DOMAIN acts
  PROVE  /\ acts[i] \in Activity /\ i \in 1..Len(acts) /\ i \in Nat
         /\ acts[i].last \in Time /\ acts[i].attempts \in 0..MaxPerDay
         /\ Allowed(acts[i]) => Attempts(acts[i]) \in 0..MaxPerDay
<1>1. acts[i] \in Activity /\ i \in 1..Len(acts) /\ Len(acts) \in Nat
  BY DEF World
<1>2. acts[i].last \in Time /\ acts[i].attempts \in 0..MaxPerDay
  BY <1>1 DEF Activity
<1>3. QED
  BY <1>1, <1>2, ConstantsOK DEF Allowed, Attempts

LEMMA FindHolds ==
  ASSUME World, Handlers, NEW r \in Requests, FindActivity(r)
  PROVE  World' /\ Handlers'
<1> DEFINE q == request[r]
<1>1. UNCHANGED <<account, acts, mails, sessions, clock, started, fails, undone, disturbed>>
  BY DEF FindActivity
<1>2. World'
  BY <1>1, WorldStays DEF World
<1>3. q.at = "find" /\ q.op \in {"resend", "sendReset"}
  BY HandlersAre DEF FindActivity, HoldsRow, Staged
<1>4. CASE Finish(r)
  BY <1>1, <1>2, <1>4, HandlerEnds
<1>5. CASE q.op = "sendReset" /\ Goto(r, "create")
  <2>1. Reaches(q, "create")
    BY <1>3, <1>5 DEF Reaches, Staged, Rowed
  <2>2. QED
    BY <1>1, <1>2, <1>5, <2>1, HandlerGoes
<1>6. ASSUME NEW i \in Owned(q.op), Allowed(acts[i]),
             request' = [request EXCEPT ![r].at = "queue", ![r].id = i,
                           ![r].attempts = Attempts(acts[i]), ![r].last = clock]
      PROVE  Handlers'
  <2>1. i \in DOMAIN acts
    BY DEF Owned
  <2>2. i \in 1..Len(acts) /\ i \in Nat /\ Attempts(acts[i]) \in 0..MaxPerDay /\ clock \in Time
    BY <1>6, <2>1, ActivityIs, Facts
  <2> DEFINE n == Attempts(acts[i])
             p == [q EXCEPT !.at = "queue", !.id = i, !.attempts = n, !.last = clock]
  <2>3. request' = [request EXCEPT ![r] = p]
    BY <1>6 DEF Handlers
  <2> HIDE DEF n
  <2>4. n \in 0..MaxPerDay
    BY <2>2 DEF n
  <2>5. p \in Request
    BY <2>2, <2>4, HandlersAre, ZenonT(60) DEF Request
  <2>6. DOMAIN q = Fields
    BY HandlersAre DEF Request, Fields
  <2>7. p.op = q.op /\ p.at = "queue" /\ p.row = q.row /\ p.id = i
    BY <2>6 DEF Fields
  <2>8. HoldsRow(q) /\ KnowsUser(q, account, Stands)
    BY HandlersAre
  <2> HIDE DEF p, q
  <2>9. HoldsRow(p)
    BY <1>3, <2>5, <2>7, <2>8 DEF HoldsRow, Staged, Rowed
  <2>10. SavesActivity(p, Len(acts))
    BY <2>2, <2>7 DEF SavesActivity
  <2>11. KnowsUser(p, account, Stands) /\ ~Inserting(p)
    BY <1>3, <2>7, <2>8 DEF KnowsUser, Inserting
  <2>12. QED
    BY <1>1, <2>3, <2>9, <2>10, <2>11, HandlerTurns
<1>7. QED
  BY <1>2, <1>4, <1>5, <1>6 DEF FindActivity

LEMMA QueueHolds ==
  ASSUME World, Handlers, NEW r \in Requests, QueueMail(r)
  PROVE  World' /\ Handlers'
<1> DEFINE q == request[r]
           m == MailOf(q)
<1>1. /\ UNCHANGED <<account, acts, sessions, clock, started, fails, undone, disturbed>>
      /\ mails' = Append(mails, m) /\ q.at = "queue" /\ Goto(r, AfterMail[q.op])
  BY DEF QueueMail
<1>2. q.op \in {"register", "resend", "sendReset"} /\ HoldsRow(q) /\ q \in Request
  BY <1>1, HandlersAre DEF HoldsRow, Staged
<1>3. m \in Mail
  <2>1. q.last \in Time
    BY <1>2 DEF Request
  <2>2. CASE q.op = "sendReset"
    BY <1>1, <1>2, <2>1, <2>2 DEF MailOf, Mail, Kind, HoldsRow
  <2>3. CASE q.op # "sendReset"
    BY <1>1, <1>2, <2>1, <2>3 DEF MailOf, Mail, Kind, HoldsRow
  <2>4. QED
    BY <2>2, <2>3
<1> HIDE DEF m
<1>4. mails' \in Seq(Mail)
  BY <1>1, <1>3 DEF World
<1>5. World'
  BY <1>1, <1>4 DEF World, Stands, Coded
<1>6. CASE q.op = "register"
  <2>1. Goto(r, "commit") /\ Reaches(q, "commit")
    BY <1>1, <1>6 DEF AfterMail, Reaches, Staged, Rowed, Inserting
  <2>2. QED
    BY <1>1, <1>5, <2>1, HandlerGoes
<1>7. CASE q.op = "resend"
  <2>1. Goto(r, "count") /\ Reaches(q, "count")
    BY <1>1, <1>7 DEF AfterMail, Reaches, Staged, Rowed, Inserting
  <2>2. QED
    BY <1>1, <1>5, <2>1, HandlerGoes
<1>8. CASE q.op = "sendReset"
  <2>1. Goto(r, "saveUser") /\ Reaches(q, "saveUser")
    BY <1>1, <1>8 DEF AfterMail, Reaches, Staged, Rowed, Inserting
  <2>2. QED
    BY <1>1, <1>5, <2>1, HandlerGoes
<1>9. QED
  BY <1>2, <1>6, <1>7, <1>8

LEMMA ReadForChangeHolds ==
  ASSUME World, Handlers, NEW r \in Requests, ReadForChange(r)
  PROVE  World' /\ Handlers'
<1> DEFINE q == request[r]
           u == [account EXCEPT !.password = q.secret, !.provider = "password"]
           p == [q EXCEPT !.at = "saveUser", !.secret = None, !.row = u]
<1>1. UNCHANGED <<account, acts, mails, sessions, clock, started, fails, undone, disturbed>>
  BY DEF ReadForChange
<1>2. World'
  BY <1>1, WorldStays DEF World
<1>3. /\ q.at = "guarded" /\ q.op = "change" /\ q.secret \in Secret /\ account # NoUser
      /\ q \in Request /\ (Stands => account.verified)
  BY HandlersAre DEF ReadForChange, HoldsRow, Staged, KnowsUser
<1>4. Coded(u) /\ u.verified = account.verified
  BY <1>3, ReadHolds, RowsMade
<1>5. Finish(r) \/ request' = [request EXCEPT ![r] = p]
  BY DEF ReadForChange, Handlers
<1> HIDE DEF u
<1>6. u \in User
  BY <1>4 DEF Coded
<1>7. p \in Request
  BY <1>3, <1>6 DEF Request, MailOps, RowOps
<1>8. DOMAIN q = Fields
  BY <1>3 DEF Request, Fields
<1>9. p.op = "change" /\ p.at = "saveUser" /\ p.row = u
  BY <1>3, <1>8 DEF Fields
<1> HIDE DEF p, q
<1>10. HoldsRow(p) /\ SavesActivity(p, Len(acts)) /\ KnowsUser(p, account, Stands) /\ ~Inserting(p)
  BY <1>3, <1>4, <1>7, <1>9 DEF HoldsRow, Staged, Rowed, SavesActivity, KnowsUser, Inserting
<1>11. QED
  BY <1>1, <1>2, <1>5, <1>10, HandlerTurns, HandlerEnds

LEMMA SignHolds ==
  ASSUME World, Handlers, NEW r \in Requests, Sign(r)
  PROVE  World' /\ Handlers'
<1> DEFINE q == request[r]
           s == [iat |-> clock, password |-> q.row.password,
                 raced |-> q.raced \/ q.row.password # account.password]
<1>1. UNCHANGED <<account, acts, mails, clock, started, fails, undone, disturbed>>
      /\ sessions' = sessions \cup {s} /\ Finish(r) /\ q.at = "sign"
  BY DEF Sign
<1>2. Coded(q.row) /\ q.raced \in BOOLEAN /\ account # NoUser /\ (Stands => account.verified)
  BY <1>1, HandlersAre DEF HoldsRow, Staged, Rowed, KnowsUser, Request
<1>3. s \in Session
  BY <1>2 DEF World, Session, Coded, User
<1> HIDE DEF s
<1>4. World'
  BY <1>1, <1>2, <1>3 DEF World, Stands, Coded
<1>5. QED
  BY <1>1, <1>4, HandlerEnds

LEMMA TickHolds ==
  ASSUME World, Handlers, Tick \/ UNCHANGED vars
  PROVE  World' /\ Handlers'
<1>1. /\ UNCHANGED <<account, acts, mails, sessions, request, started, fails, undone, disturbed>>
      /\ clock' \in 0..MaxClock
  BY ConstantsOK DEF Tick, vars, World
<1>2. World'
  BY <1>1 DEF World, Stands, Coded
<1>3. Handlers'
  BY <1>1 DEF Handlers, Stands, HoldsRow, SavesActivity, KnowsUser, Inserting
<1>4. QED
  BY <1>2, <1>3

\* A handler that ends, when nothing but activities changes.
LEMMA HandlerCounts ==
  ASSUME World, Handlers, NEW r \in Requests, Finish(r), acts' \in Seq(Activity),
         Len(acts) <= Len(acts'),
         UNCHANGED <<account, mails, sessions, clock, started, fails, undone, disturbed>>
  PROVE  World' /\ Handlers'
<1>1. World'
  BY DEF World, Stands, Coded
<1>2. Len(acts') \in Nat /\ (Stands' <=> Stands) /\ request' = [request EXCEPT ![r] = Blank]
  BY DEF Stands, Finish
<1>3. \A s \in Requests \ {r} : Inserting(request[s]) => account' = NoUser
  BY DEF Handlers, KnowsUser
<1>4. HoldsRow(Blank) /\ ~Inserting(Blank) /\ SavesActivity(Blank, Len(acts'))
      /\ KnowsUser(Blank, account', Stands')
  BY BlankHolds
<1>5. QED
  BY <1>1, <1>2, <1>3, <1>4, HandlerMoves

LEMMA SaveActivityHolds ==
  ASSUME World, Handlers, NEW r \in Requests, SaveActivity(r)
  PROVE  World' /\ Handlers'
<1> DEFINE q == request[r]
           a == [acts[q.id] EXCEPT !.attempts = q.attempts, !.last = q.last,
                                   !.owned = acts[q.id].owned \/ q.mine]
<1>1. UNCHANGED <<account, mails, sessions, clock, started, fails, undone, disturbed>> /\ Finish(r)
  BY DEF SaveActivity
<1>2. acts' = [acts EXCEPT ![q.id] = a]
  BY DEF SaveActivity, World
<1>3. q.id \in 1..Len(acts) /\ q \in Request
  BY HandlersAre DEF SaveActivity, HoldsRow, Staged, SavesActivity
<1>4. acts[q.id] \in Activity
  BY <1>3 DEF World
<1>5. a \in Activity
  BY <1>3, <1>4 DEF Activity, Request
<1> HIDE DEF a, q
<1>6. acts' \in Seq(Activity) /\ Len(acts') = Len(acts) /\ Len(acts) \in Nat
  BY <1>2, <1>3, <1>5 DEF World
<1>7. QED
  BY <1>1, <1>6, HandlerCounts

LEMMA CreateHolds ==
  ASSUME World, Handlers, NEW r \in Requests, CreateActivity(r)
  PROVE  World' /\ Handlers'
<1> DEFINE q == request[r]
           a == [kind |-> "reset", owned |-> TRUE, attempts |-> 0, last |-> clock - Gap - 1]
           n == Len(acts) + 1
           p == [q EXCEPT !.at = "queue", !.id = n, !.attempts = 1, !.last = clock, !.mine = TRUE]
<1>1. UNCHANGED <<account, mails, sessions, clock, started, fails, undone, disturbed>>
  BY DEF CreateActivity
<1>2. acts' = Append(acts, a) /\ request' = [request EXCEPT ![r] = p] /\ q.at = "create"
  BY DEF CreateActivity, Handlers
<1>3. q.op = "sendReset" /\ q \in Request /\ HoldsRow(q) /\ KnowsUser(q, account, Stands)
  BY <1>2, HandlersAre DEF HoldsRow, Staged
<1>4. a \in Activity
  BY ConstantsOK, SMTT(30) DEF World, Activity, Time
<1> HIDE DEF a
<1>5. acts' \in Seq(Activity) /\ Len(acts') = n /\ Len(acts) \in Nat /\ n \in Nat /\ n = Len(acts) + 1
  BY <1>2, <1>4 DEF World
<1>6. clock \in Time /\ 1 \in 0..MaxPerDay
  BY Facts
<1> HIDE DEF n
<1>7. p \in Request
  BY <1>3, <1>5, <1>6 DEF Request, MailOps, RowOps
<1>8. DOMAIN q = Fields
  BY <1>3 DEF Request, Fields
<1>9. p.op = "sendReset" /\ p.at = "queue" /\ p.row = q.row /\ p.id = n
  BY <1>3, <1>8 DEF Fields
<1> HIDE DEF p, q
<1>10. HoldsRow(p)
  BY <1>2, <1>3, <1>7, <1>9 DEF HoldsRow, Staged, Rowed
<1>11. SavesActivity(p, Len(acts')) /\ ~Inserting(p)
  BY <1>5, <1>9 DEF SavesActivity, Inserting
<1>12. KnowsUser(p, account', Stands')
  BY <1>1, <1>2, <1>3, <1>9 DEF KnowsUser, Inserting
<1>13. World'
  BY <1>1, <1>5 DEF World, Stands, Coded
<1>14. (Stands' <=> Stands) /\ Len(acts') \in Nat /\ Len(acts) <= Len(acts')
  BY <1>1, <1>5 DEF Stands
<1>15. \A s \in Requests \ {r} : Inserting(request[s]) => account' = NoUser
  BY <1>1 DEF Handlers, KnowsUser
<1>16. QED
  BY <1>1, <1>2, <1>10, <1>11, <1>12, <1>13, <1>14, <1>15, HandlerMoves

LEMMA CommitHolds ==
  ASSUME World, Handlers, NEW r \in Requests, Commit(r)
  PROVE  World' /\ Handlers'
<1> DEFINE q == request[r]
           a == [kind |-> "verify", owned |-> TRUE, attempts |-> q.attempts, last |-> q.last]
<1>1. /\ UNCHANGED <<mails, sessions, clock, started, fails, undone, disturbed>>
      /\ account' = q.row /\ acts' = Append(acts, a) /\ Finish(r) /\ q.at = "commit"
  BY DEF Commit
<1>2. q.op = "register" /\ q \in Request /\ Coded(q.row) /\ Inserting(q) /\ account = NoUser
  BY <1>1, HandlersAre DEF HoldsRow, Staged, Rowed, Inserting, KnowsUser
<1>3. a \in Activity
  BY <1>2 DEF Activity, Request
<1> HIDE DEF a
<1>4. acts' \in Seq(Activity) /\ Len(acts') \in Nat /\ Len(acts) <= Len(acts')
  BY <1>1, <1>3 DEF World
<1>5. World'
  BY <1>1, <1>2, <1>4 DEF World, Stands, Coded
<1>6. \A s \in Requests \ {r} : ~Inserting(request[s])
  BY <1>2, HandlersAre
<1>7. (Stands' <=> Stands) /\ request' = [request EXCEPT ![r] = Blank]
  BY <1>1 DEF Stands, Finish
<1>8. HoldsRow(Blank) /\ ~Inserting(Blank) /\ SavesActivity(Blank, Len(acts'))
      /\ KnowsUser(Blank, account', Stands')
  BY BlankHolds
<1>9. QED
  BY <1>2, <1>4, <1>5, <1>6, <1>7, <1>8, HandlerMoves

LEMMA GoogleSignUpHolds ==
  ASSUME World, Handlers, NEW r \in Requests, GoogleSignUp(r)
  PROVE  World' /\ Handlers'
<1> DEFINE q == request[r]
           p == [q EXCEPT !.at = "sign", !.row = GoogleUser]
<1>1. UNCHANGED <<acts, mails, sessions, clock, started, fails, undone, disturbed>>
      /\ q.at = "signUp" /\ ~Locked
  BY DEF GoogleSignUp
<1>2. CASE Finish(r) /\ UNCHANGED account
  BY <1>1, <1>2, HandlerEnds, WorldStays DEF World
<1>3. CASE account = NoUser /\ account' = GoogleUser /\ request' = [request EXCEPT ![r] = p]
  <2>1. q.op = "google" /\ q \in Request
    BY <1>1, HandlersAre DEF HoldsRow, Staged
  <2>2. Coded(GoogleUser) /\ GoogleUser \in User /\ GoogleUser.verified
    BY Facts DEF GoogleUser, Coded, User
  <2>3. World'
    BY <1>1, <1>3, <2>2 DEF World, Stands
  <2> HIDE DEF GoogleUser
  <2>4. p \in Request
    BY <2>1, <2>2 DEF Request, MailOps, RowOps
  <2>5. DOMAIN q = Fields
    BY <2>1 DEF Request, Fields
  <2>6. p.op = "google" /\ p.at = "sign" /\ p.row = GoogleUser
    BY <2>1, <2>5 DEF Fields
  <2>7. \A s \in Requests : ~Inserting(request[s])
    BY <1>1 DEF Locked, Inserting
  <2>8. account' # NoUser
    BY <1>3, <2>2, NoUserIsNoRow
  <2> HIDE DEF p, q
  <2>9. HoldsRow(p) /\ SavesActivity(p, Len(acts')) /\ ~Inserting(p)
    BY <2>2, <2>4, <2>6 DEF HoldsRow, Staged, Rowed, SavesActivity, Inserting
  <2>10. KnowsUser(p, account', Stands')
    BY <1>3, <2>2, <2>6, <2>8 DEF KnowsUser, Inserting
  <2>11. (Stands' <=> Stands) /\ Len(acts') \in Nat /\ Len(acts) <= Len(acts')
    BY <1>1 DEF Stands, World
  <2>12. QED
    BY <1>3, <2>3, <2>7, <2>8, <2>9, <2>10, <2>11, HandlerMoves
<1>4. QED
  BY <1>2, <1>3 DEF GoogleSignUp, Handlers

\* What a save makes of the activities, it makes of rows that it knows.
LEMMA CascadeFits ==
  ASSUME World, NEW listed \in Seq(Activity)
  PROVE  Cascade(listed) \in Seq(Activity) /\ Len(Cascade(listed)) = Len(acts)
         /\ DOMAIN Cascade(listed) = DOMAIN acts
<1> DEFINE c == [i \in DOMAIN acts |->
                   IF i \in DOMAIN listed /\ listed[i].owned THEN listed[i]
                   ELSE [acts[i] EXCEPT !.owned = FALSE]]
<1>1. Len(acts) \in Nat /\ DOMAIN acts = 1..Len(acts)
  BY DEF World
<1>2. ASSUME NEW i \in DOMAIN acts
      PROVE  c[i] \in Activity
  <2>1. acts[i] \in Activity
    BY ActivityIs
  <2>2. [acts[i] EXCEPT !.owned = FALSE] \in Activity
    BY <2>1 DEF Activity
  <2>3. i \in DOMAIN listed => listed[i] \in Activity
    OBVIOUS
  <2>4. QED
    BY <2>2, <2>3
<1>3. c \in [1..Len(acts) -> Activity]
  BY <1>1, <1>2
<1> HIDE DEF c
<1>4. c \in Seq(Activity) /\ Len(c) = Len(acts) /\ DOMAIN c = DOMAIN acts
  BY <1>1, <1>3
<1>5. QED
  BY <1>4 DEF c, Cascade

\* A save takes back that the address is verified only where it tells.
LEMMA SaveUserHolds ==
  ASSUME World, Handlers, NEW r \in Requests, SaveUser(r)
  PROVE  World' /\ Handlers'
<1> DEFINE q == request[r]
           at == AfterSave(q.op)
           u == [q.row EXCEPT !.required = Required(q.op, q.row)]
           p == [q EXCEPT !.at = at]
<1>1. /\ UNCHANGED <<mails, sessions, clock, started, fails, disturbed>>
      /\ account' = u /\ q.at = "saveUser"
      /\ acts' = IF q.op = "sendReset" THEN Cascade(q.listed) ELSE acts
      /\ IF at = "idle" THEN Finish(r) ELSE Goto(r, at)
  BY DEF SaveUser
<1>2. undone' = undone
        \cup {c \in {"password"} : q.op \notin {"reset", "change"}
                                   /\ q.row.password # account.password}
        \cup {c \in {"verified"} : account.verified /\ ~q.row.verified}
  BY DEF SaveUser
<1>3. /\ HoldsRow(q) /\ KnowsUser(q, account, Stands) /\ SavesActivity(q, Len(acts))
      /\ q \in Request /\ Coded(q.row) /\ account # NoUser
      /\ q.op \in {"sendReset", "activate", "rename", "google", "reset", "change"}
  BY <1>1, HandlersAre DEF HoldsRow, Staged, Rowed, KnowsUser
<1>4. Required(q.op, q.row) \in Time
  BY <1>3, Facts DEF Required, Coded, User
<1>5. Coded(u) /\ u.verified = q.row.verified
  BY <1>3, <1>4, RowsMade
<1>6. u # NoUser
  BY <1>5, NoUserIsNoRow DEF Coded
<1> HIDE DEF u
<1>7. acts' \in Seq(Activity) /\ Len(acts') = Len(acts) /\ Len(acts) \in Nat
  BY <1>1, <1>3, CascadeFits DEF World, Request
<1>8. undone' \subseteq {"password", "verified"} /\ undone \subseteq undone'
  BY <1>2 DEF World
<1>9. Stands' => Stands /\ (account.verified => u.verified)
  <2>1. CASE account.verified /\ ~q.row.verified
    BY <1>2, <2>1 DEF Stands
  <2>2. CASE ~(account.verified /\ ~q.row.verified)
    BY <1>5, <1>8, <2>2 DEF Stands
  <2>3. QED
    BY <2>1, <2>2
<1>10. World'
  <2>1. sessions' # {} => account' # NoUser /\ (Stands' => account'.verified)
    BY <1>1, <1>3, <1>6, <1>9 DEF World
  <2>2. QED
    BY <1>1, <1>5, <1>7, <1>8, <2>1 DEF World, Coded
<1>11. \A s \in Requests : ~Inserting(request[s])
  BY <1>3, HandlersAre
<1>12. Len(acts') \in Nat /\ Len(acts) <= Len(acts')
  BY <1>7
<1>13. account # NoUser => account' # NoUser
  BY <1>1, <1>6
<1>14. \A s \in Requests \ {r} : Inserting(request[s]) => account' = NoUser
  BY <1>11
<1>15. Stands' => Stands /\ (account # NoUser /\ account.verified => account'.verified)
  BY <1>1, <1>9
<1>16. CASE at = "idle"
  <2>1. request' = [request EXCEPT ![r] = Blank]
    BY <1>1, <1>16 DEF Finish
  <2>2. HoldsRow(Blank) /\ ~Inserting(Blank) /\ SavesActivity(Blank, Len(acts'))
        /\ KnowsUser(Blank, account', Stands')
    BY BlankHolds
  <2>3. QED
    BY <1>10, <1>12, <1>13, <1>14, <1>15, <2>1, <2>2, HandlerMoves
<1>17. CASE at # "idle"
  <2>1. request' = [request EXCEPT ![r] = p]
    BY <1>1, <1>17 DEF Goto
  <2>2. (q.op = "sendReset" /\ at = "count") \/ (q.op = "google" /\ at = "sign" /\ q.row.verified)
    BY <1>1, <1>3, <1>17 DEF AfterSave, HoldsRow
  <2>3. p \in Request /\ p.op = q.op /\ p.at = at /\ p.row = q.row /\ p.id = q.id
    <3>1. p \in Request
      BY <1>3, <2>2 DEF Request, MailOps, RowOps
    <3>2. DOMAIN q = Fields
      BY <1>3 DEF Request, Fields
    <3>3. QED
      BY <3>1, <3>2 DEF Fields
  <2> HIDE DEF p, at, q
  <2>4. HoldsRow(p)
    BY <1>3, <2>2, <2>3 DEF HoldsRow, Staged, Rowed
  <2>5. SavesActivity(p, Len(acts'))
    BY <1>1, <1>3, <1>7, <2>2, <2>3 DEF SavesActivity
  <2>6. KnowsUser(p, account', Stands') /\ ~Inserting(p)
    BY <1>1, <1>5, <1>6, <2>2, <2>3 DEF KnowsUser, Inserting
  <2>7. QED
    BY <1>10, <1>12, <1>13, <1>14, <1>15, <2>1, <2>4, <2>5, <2>6, HandlerMoves
<1>18. QED
  BY <1>16, <1>17

LEMMA HandlersInductive == World /\ Handlers /\ [Next]_vars => World' /\ Handlers'
<1> SUFFICES ASSUME World, Handlers, [Next]_vars PROVE World' /\ Handlers'
  OBVIOUS
<1>1. ASSUME NEW r \in Requests, Step(r) PROVE World' /\ Handlers'
  BY <1>1, StartHolds, GoingHolds, FindHolds, QueueHolds, ReadForChangeHolds, SignHolds,
     SaveActivityHolds, CreateHolds, CommitHolds, GoogleSignUpHolds, SaveUserHolds DEF Step, Starts
<1>2. QED
  BY <1>1, TickHolds DEF Next, Quiet

LEMMA HandlersBegin == Init => World /\ Handlers
<1> SUFFICES ASSUME Init PROVE World /\ Handlers
  OBVIOUS
<1>1. World
  <2>1. 0 \in 0..MaxClock /\ 0 \in 0..MaxRequests /\ 0 \in 0..MaxFail
    BY ConstantsOK
  <2>2. <<>> \in Seq(Activity) /\ <<>> \in Seq(Mail)
    OBVIOUS
  <2>3. QED
    BY <2>1, <2>2 DEF Init, World
<1>2. Handlers
  BY BlankHolds DEF Init, Handlers, HoldsRow
<1>3. QED
  BY <1>1, <1>2

\* The table, the queue and the sessions hold what they are declared to, and a
\* handler that saves, mails or signs has a row to do it with.
THEOREM TypesHold == Spec => []TypeOK
<1>1. World /\ Handlers => TypeOK
  <2> SUFFICES ASSUME World, Handlers PROVE TypeOK
    OBVIOUS
  <2>1. account \in User \cup {NoUser}
    BY DEF World, Coded
  <2>2. request \in [Requests -> Request]
    BY DEF Handlers
  <2>3. ASSUME NEW r \in Requests
        PROVE  LET q == request[r] IN
               /\ q.at = "idle" <=> q = Blank
               /\ q.at \in {"queue", "commit", "saveUser", "sign"} => q.row # NoUser
               /\ q.at = "count" => q.id \in DOMAIN acts
    <3>1. HoldsRow(request[r]) /\ SavesActivity(request[r], Len(acts)) /\ Blank.at = "idle"
      BY HandlersAre DEF Blank
    <3>2. DOMAIN acts = 1..Len(acts)
      BY DEF World
    <3>3. QED
      BY <3>1, <3>2, NoUserIsNoRow DEF HoldsRow, Staged, Rowed, Coded, SavesActivity
  <2>4. QED
    BY <2>1, <2>2, <2>3 DEF TypeOK, World
<1>2. QED
  BY <1>1, HandlersBegin, HandlersInductive, PTL DEF Spec

\* Only a reset or a rename, which read the row before the verification, can
\* take it back: no other handler saves a row that is not verified over one
\* that is, unless one of these two did so before it.
THEOREM VerificationHolds == Spec => VerificationStays
<1> DEFINE Keeps == account # NoUser /\ account.verified /\ ~account'.verified =>
             \/ "verified" \in undone
             \/ \E r \in Requests : /\ request[r].at = "saveUser" /\ request'[r] = Blank
                                   /\ request[r].op \in {"reset", "rename"}
<1>1. World /\ Handlers /\ [Next]_vars => [Keeps]_vars
  <2> SUFFICES ASSUME World, Handlers, [Next]_vars, account # NoUser, account.verified,
                      ~account'.verified, Stands
               PROVE  \E r \in Requests : /\ request[r].at = "saveUser" /\ request'[r] = Blank
                                         /\ request[r].op \in {"reset", "rename"}
    BY DEF Stands
  <2>1. account' # account
    OBVIOUS
  <2>2. PICK r \in Requests : Step(r)
    BY <2>1 DEF Next, Tick, Quiet, vars
  <2>3. ~Commit(r)
    BY HandlersAre DEF Commit, HoldsRow, Staged, KnowsUser, Inserting
  <2>4. SaveUser(r)
    BY <2>1, <2>2, <2>3 DEF Step, Register, InsertUser, Activate, Resend, SendReset,
       FindActivity, CreateActivity, QueueMail, SaveActivity, Reset, CheckExpiry,
       ChangePassword, ReadForChange, Rename, Login, Refresh, GoogleLogin, GoogleSignUp,
       Sign, Abort, Start
  <2>5. request[r].at = "saveUser" /\ HoldsRow(request[r]) /\ Coded(request[r].row)
        /\ KnowsUser(request[r], account, Stands)
    BY <2>4, HandlersAre DEF SaveUser, HoldsRow, Rowed
  <2>6. account'.verified = request[r].row.verified
    BY <2>4, <2>5 DEF SaveUser, Coded, User
  <2>7. request[r].op \in {"reset", "rename"}
    BY <2>5, <2>6 DEF HoldsRow, Staged, KnowsUser
  <2>8. AfterSave(request[r].op) = "idle"
    BY <2>7 DEF AfterSave
  <2>9. request'[r] = Blank
    BY <2>4, <2>8 DEF SaveUser, Finish, Handlers
  <2>10. QED
    BY <2>5, <2>7, <2>9
<1>2. QED
  BY <1>1, HandlersBegin, HandlersInductive, PTL DEF Spec, VerificationStays

-----------------------------------------------------------------------------
(* Which session goes with which password.                                 *)

\* The rows that are stored, or may be saved without a change of the password.
Saves(q) == /\ q.at \in {"insert", "queue", "commit", "find", "create", "saveUser"}
            /\ q.op \notin {"reset", "change"}
Rows == {u \in {account} : u # NoUser}
          \cup {request[r].row : r \in {s \in Requests : Saves(request[s])}}

\* The passwords that a handler is about to set.
Changing(q)    == q.op \in {"reset", "change"}
NewPassword(q) == IF q.at = "guarded" THEN q.secret ELSE q.row.password

\* A password says since when sessions are required: two rows with the same
\* password agree, also while one of them is out of date.
Passwords ==
  /\ \A u \in Rows : /\ u.password = None => u.required = Never
                     /\ u.password # None => u.password \in 1..started
  /\ \A u, v \in Rows : u.password = v.password => u.required = v.required
  /\ \A r \in Requests : Changing(request[r]) =>
       /\ NewPassword(request[r]) \in 1..started
       /\ \A u \in Rows : u.password # NewPassword(request[r])
       /\ \A s \in Requests : Changing(request[s]) /\ NewPassword(request[s]) = NewPassword(request[r])
                              => s = r

Past == \A s \in sessions : s.iat <= clock

\* Where a row may have its password from.
Copies(u)      == \E v \in Rows : u.password = v.password /\ u.required = v.required
Unset(u)       == u.password = None /\ u.required = Never
Made(u)        == u.password = started + 1 /\ started' = started + 1
Releases(r, u) == Changing(request[r]) /\ u.password = NewPassword(request[r])

LEMMA PasswordsMove ==
  ASSUME Handlers, World, World', Passwords, NEW r \in Requests, NEW p,
         request' = [request EXCEPT ![r] = p], started' \in {started, started + 1},
         NEW x, Rows' \subseteq Rows \cup {x},
         Copies(x) \/ Unset(x) \/ (Made(x) /\ ~Changing(p)) \/ (Releases(r, x) /\ ~Changing(p)),
         Changing(p) => \/ Changing(request[r]) /\ NewPassword(p) = NewPassword(request[r])
                        \/ NewPassword(p) = started + 1 /\ started' = started + 1
  PROVE  Passwords'
<1>1. started \in Nat /\ started' \in Nat /\ started <= started' /\ None \notin Nat
  BY ConstantsOK DEF World
<1>2. request'[r] = p /\ \A s \in Requests \ {r} : request'[s] = request[s]
  BY DEF Handlers
<1>3. \A u \in Rows : /\ u.password = None => u.required = Never
                      /\ u.password # None => u.password \in 1..started
  BY DEF Passwords
<1>4. \A u, v \in Rows : u.password = v.password => u.required = v.required
  BY DEF Passwords
<1>5. ASSUME NEW s \in Requests, Changing(request[s])
      PROVE  /\ NewPassword(request[s]) \in 1..started
             /\ \A u \in Rows : u.password # NewPassword(request[s])
             /\ \A t \in Requests :
                  Changing(request[t]) /\ NewPassword(request[t]) = NewPassword(request[s]) => t = s
  BY <1>5 DEF Passwords
<1>6. /\ x.password = None => x.required = Never
      /\ x.password # None => x.password \in 1..started'
  BY <1>1, <1>3, <1>5 DEF Copies, Unset, Made, Releases
<1>7. \A u \in Rows : u.password = x.password => u.required = x.required
  <2>1. CASE Copies(x)
    BY <1>4, <2>1 DEF Copies
  <2>2. CASE Unset(x)
    BY <1>3, <2>2 DEF Unset
  <2>3. CASE Made(x)
    BY <1>1, <1>3, <2>3 DEF Made
  <2>4. CASE Releases(r, x)
    BY <1>5, <2>4 DEF Releases
  <2>5. QED
    BY <2>1, <2>2, <2>3, <2>4
<1>8. \A u \in Rows' : /\ u.password = None => u.required = Never
                       /\ u.password # None => u.password \in 1..started'
  BY <1>1, <1>3, <1>6
<1>9. \A u, v \in Rows' : u.password = v.password => u.required = v.required
  BY <1>4, <1>7
<1>10. ASSUME NEW s \in Requests, Changing(request'[s])
       PROVE  /\ NewPassword(request'[s]) \in 1..started'
              /\ \A u \in Rows' : u.password # NewPassword(request'[s])
              /\ \A t \in Requests :
                   Changing(request'[t]) /\ NewPassword(request'[t]) = NewPassword(request'[s]) => t = s
  <2>1. CASE s # r
    <3>1. request'[s] = request[s] /\ Changing(request[s])
      BY <1>2, <1>10, <2>1
    <3>2. x.password # NewPassword(request[s])
      BY <1>1, <1>5, <2>1, <3>1 DEF Copies, Unset, Made, Releases
    <3>3. ASSUME NEW t \in Requests, Changing(request'[t]),
                 NewPassword(request'[t]) = NewPassword(request'[s])
          PROVE  t = s
      BY <1>1, <1>2, <1>5, <2>1, <3>1, <3>3
    <3>4. QED
      BY <1>1, <1>5, <3>1, <3>2, <3>3
  <2>2. CASE s = r /\ Changing(request[r]) /\ NewPassword(p) = NewPassword(request[r])
    <3>1. request'[s] = p /\ Changing(p)
      BY <1>2, <1>10, <2>2
    <3>2. x.password # NewPassword(request[r])
      BY <1>1, <1>5, <2>2, <3>1 DEF Copies, Unset
    <3>3. ASSUME NEW t \in Requests, Changing(request'[t]),
                 NewPassword(request'[t]) = NewPassword(request'[s])
          PROVE  t = s
      BY <1>1, <1>2, <1>5, <2>2, <3>1, <3>3
    <3>4. QED
      BY <1>1, <1>5, <2>2, <3>1, <3>2, <3>3
  <2>3. CASE s = r /\ NewPassword(p) = started + 1 /\ started' = started + 1
    <3>1. request'[s] = p /\ Changing(p)
      BY <1>2, <1>10, <2>3
    <3>2. x.password # started + 1
      BY <1>1, <1>3, <3>1 DEF Copies, Unset
    <3>3. ASSUME NEW t \in Requests, Changing(request'[t]),
                 NewPassword(request'[t]) = NewPassword(request'[s])
          PROVE  t = s
      BY <1>1, <1>2, <1>5, <2>3, <3>1, <3>3
    <3>4. QED
      BY <1>1, <1>3, <2>3, <3>1, <3>2, <3>3
  <2>4. QED
    BY <1>2, <1>10, <2>1, <2>2, <2>3
<1>11. QED
  BY <1>8, <1>9, <1>10 DEF Passwords

\* The rows after a step of one request.
LEMMA RowsMove ==
  ASSUME Handlers, NEW r \in Requests, NEW p, NEW x, request' = [request EXCEPT ![r] = p],
         Saves(p) => p.row \in Rows \cup {x}, account' # NoUser => account' \in Rows \cup {x}
  PROVE  Rows' \subseteq Rows \cup {x}
<1>1. request'[r] = p /\ \A s \in Requests \ {r} : request'[s] = request[s]
  BY DEF Handlers
<1>2. ASSUME NEW s \in Requests, Saves(request'[s])
      PROVE  request'[s].row \in Rows \cup {x}
  <2>1. CASE s = r
    BY <1>1, <1>2, <2>1
  <2>2. CASE s # r
    BY <1>1, <1>2, <2>2 DEF Rows
  <2>3. QED
    BY <2>1, <2>2
<1>3. QED
  BY <1>2 DEF Rows

LEMMA RowsAre ==
  ASSUME World, Handlers
  PROVE  /\ account # NoUser => account \in Rows
         /\ \A r \in Requests : Saves(request[r]) => request[r].row \in Rows
BY DEF Rows

\* A handler that passes on the row and the password it holds, or ends.
LEMMA PasswordsPass ==
  ASSUME Handlers, World, World', Passwords, NEW r \in Requests, NEW p,
         request' = [request EXCEPT ![r] = p], UNCHANGED <<account, started>>,
         Saves(p) => Saves(request[r]) /\ p.row = request[r].row,
         Changing(p) => Changing(request[r]) /\ NewPassword(p) = NewPassword(request[r])
  PROVE  Passwords'
<1>1. Saves(p) => p.row \in Rows
  BY RowsAre
<1>2. account' # NoUser => account' \in Rows
  BY RowsAre
<1>3. Rows' \subseteq Rows \cup {GoogleUser}
  BY <1>1, <1>2, RowsMove
<1>4. Unset(GoogleUser)
  BY DEF Unset, GoogleUser
<1>5. QED
  BY <1>3, <1>4, PasswordsMove

LEMMA BlankPasses == ~Saves(Blank) /\ ~Changing(Blank)
BY DEF Saves, Changing, Blank

LEMMA PasswordsEnd ==
  ASSUME Handlers, World, World', Passwords, NEW r \in Requests, Finish(r),
         UNCHANGED <<account, started>>
  PROVE  Passwords'
BY BlankPasses, PasswordsPass DEF Finish

LEMMA PasswordsGo ==
  ASSUME Handlers, World, World', Passwords, NEW r \in Requests,
         NEW at \in {"queue", "commit", "create", "saveUser", "count", "sign"}, Goto(r, at),
         UNCHANGED <<account, started>>,
         request[r].at \in {"insert", "queue", "find", "expiry"}
  PROVE  Passwords'
<1> DEFINE q == request[r]
           p == [q EXCEPT !.at = at]
<1>1. request' = [request EXCEPT ![r] = p]
  BY DEF Goto
<1>2. DOMAIN q = Fields
  BY HandlersAre DEF Request, Fields
<1>3. p.op = q.op /\ p.at = at /\ p.row = q.row
  BY <1>2 DEF Fields
<1>4. q.at \in {"insert", "queue", "find"} \/ (q.at = "expiry" /\ q.op = "reset")
  BY HandlersAre DEF HoldsRow, Staged
<1> HIDE DEF p
<1>5. Saves(p) => Saves(q) /\ p.row = q.row
  BY <1>3, <1>4 DEF Saves
<1>6. Changing(p) => Changing(q) /\ NewPassword(p) = NewPassword(q)
  BY <1>3, <1>4 DEF Changing, NewPassword
<1>7. QED
  BY <1>1, <1>5, <1>6, PasswordsPass

LEMMA PasswordsStart ==
  ASSUME Handlers, World, World', Passwords, NEW r \in Requests, Starts(r)
  PROVE  Passwords'
<1>1. UNCHANGED <<account, clock, sessions>> /\ started' = started + 1
  BY Starting
<1>2. PICK p \in Request : /\ request' = [request EXCEPT ![r] = p]
                           /\ Opened(p.op, p.at, p.row, p.secret)
  BY StartsOpen
<1> DEFINE op == p.op
           at == p.at
           u  == p.row
           x  == IF Saves(p) THEN u ELSE GoogleUser
<1>3. Opened(op, at, u, p.secret)
  BY <1>2
<1> HIDE DEF op, at, u
<1>4. Saves(p) => Made(u) \/ Copies(u)
  <2>1. ASSUME Saves(p), op # "register" PROVE Copies(u)
    <3>1. account # NoUser /\ u.password = account.password /\ u.required = account.required
      BY <1>3, <2>1, ReadHolds DEF Opened, Saves, op, at
    <3>2. QED
      BY <3>1, RowsAre DEF Copies
  <2>2. ASSUME op = "register" PROVE Made(u)
    BY <1>1, <1>3, <2>2 DEF Opened, Registered, Made, fresh
  <2>3. QED
    BY <2>1, <2>2
<1>5. Changing(p) => NewPassword(p) = started + 1 /\ ~Saves(p)
  <2>1. CASE op = "reset"
    <3>1. account # NoUser /\ at = "expiry" /\ u.password = fresh
      BY <1>3, <2>1, ReadHolds DEF Opened
    <3>2. QED
      BY <2>1, <3>1 DEF NewPassword, Saves, fresh, op, at, u
  <2>2. CASE op = "change"
    <3>1. at = "guarded" /\ p.secret = fresh
      BY <1>3, <2>2 DEF Opened
    <3>2. QED
      BY <2>2, <3>1 DEF NewPassword, Saves, fresh, op, at
  <2>3. QED
    BY <2>1, <2>2 DEF Changing, op
<1>6. Unset(GoogleUser)
  BY DEF Unset, GoogleUser
<1>7. Copies(x) \/ Unset(x) \/ (Made(x) /\ ~Changing(p))
  BY <1>4, <1>5, <1>6
<1>8. Saves(p) => p.row = x
  BY DEF u
<1>9. account' # NoUser => account' \in Rows
  BY <1>1, RowsAre
<1> HIDE DEF x
<1>10. Rows' \subseteq Rows \cup {x}
  BY <1>2, <1>8, <1>9, RowsMove
<1>11. QED
  BY <1>1, <1>2, <1>5, <1>7, <1>10, PasswordsMove

\* Handlers that read, queue and count, up to the saves of the row.
LEMMA PasswordsWait ==
  ASSUME Handlers, World, World', Passwords, NEW r \in Requests,
         \/ InsertUser(r) \/ FindActivity(r) \/ CreateActivity(r) \/ QueueMail(r)
         \/ SaveActivity(r) \/ CheckExpiry(r) \/ ReadForChange(r) \/ Sign(r) \/ Abort(r)
  PROVE  Passwords'
<1> DEFINE q == request[r]
<1>1. UNCHANGED <<account, started>>
  BY DEF InsertUser, FindActivity, CreateActivity, QueueMail, SaveActivity, CheckExpiry,
     ReadForChange, Sign, Abort
<1>2. DOMAIN q = Fields /\ HoldsRow(q)
  BY HandlersAre DEF Request, Fields
<1>3. CASE Finish(r)
  BY <1>1, <1>3, PasswordsEnd
<1>4. CASE InsertUser(r) /\ Goto(r, "queue")
  BY <1>1, <1>4, PasswordsGo DEF InsertUser
<1>5. CASE CheckExpiry(r) /\ Goto(r, "saveUser")
  BY <1>1, <1>5, PasswordsGo DEF CheckExpiry
<1>6. CASE FindActivity(r) /\ Goto(r, "create")
  BY <1>1, <1>6, PasswordsGo DEF FindActivity
<1>7. CASE QueueMail(r)
  <2>1. q.at = "queue" /\ Goto(r, AfterMail[q.op]) /\ q.op \in {"register", "resend", "sendReset"}
    BY <1>2, <1>7 DEF QueueMail, HoldsRow, Staged
  <2>2. AfterMail[q.op] \in {"commit", "count", "saveUser"}
    BY <2>1 DEF AfterMail
  <2>3. QED
    BY <1>1, <2>1, <2>2, PasswordsGo
<1>8. ASSUME NEW p, request' = [request EXCEPT ![r] = p], p.op = q.op, p.at = "queue",
             p.row = q.row, q.at \in {"find", "create"}, q.op \in {"resend", "sendReset"}
      PROVE  Passwords'
  <2>1. (Saves(p) => Saves(q)) /\ ~Changing(p)
    BY <1>8 DEF Saves, Changing
  <2>2. QED
    BY <1>1, <1>8, <2>1, PasswordsPass
<1>9. CASE FindActivity(r) /\ ~Finish(r) /\ ~Goto(r, "create")
  <2>1. PICK i \in Owned(q.op) :
          request' = [request EXCEPT ![r].at = "queue", ![r].id = i,
                        ![r].attempts = Attempts(acts[i]), ![r].last = clock]
    BY <1>9 DEF FindActivity
  <2> DEFINE n == Attempts(acts[i])
             p == [q EXCEPT !.at = "queue", !.id = i, !.attempts = n, !.last = clock]
  <2>2. request' = [request EXCEPT ![r] = p]
    BY <2>1 DEF Handlers
  <2>3. p.op = q.op /\ p.at = "queue" /\ p.row = q.row
    BY <1>2 DEF Fields
  <2>4. q.at = "find" /\ q.op \in {"resend", "sendReset"}
    BY <1>2, <1>9 DEF FindActivity, HoldsRow, Staged
  <2> HIDE DEF p
  <2>5. QED
    BY <1>8, <2>2, <2>3, <2>4
<1>10. CASE CreateActivity(r)
  <2> DEFINE n == Len(acts) + 1
             p == [q EXCEPT !.at = "queue", !.id = n, !.attempts = 1, !.last = clock, !.mine = TRUE]
  <2>1. request' = [request EXCEPT ![r] = p] /\ q.at = "create"
    BY <1>10 DEF CreateActivity, Handlers
  <2>2. p.op = q.op /\ p.at = "queue" /\ p.row = q.row
    BY <1>2 DEF Fields
  <2>3. q.op \in {"resend", "sendReset"}
    BY <1>2, <2>1 DEF HoldsRow, Staged
  <2> HIDE DEF p
  <2>4. QED
    BY <1>8, <2>1, <2>2, <2>3
<1>11. CASE ReadForChange(r) /\ ~Finish(r)
  <2> DEFINE u == [account EXCEPT !.password = q.secret, !.provider = "password"]
             p == [q EXCEPT !.at = "saveUser", !.secret = None, !.row = u]
  <2>1. q.at = "guarded" /\ q.op = "change" /\ account # NoUser
    BY <1>2, <1>11, HandlersAre DEF ReadForChange, HoldsRow, Staged, KnowsUser
  <2>2. request' = [request EXCEPT ![r] = p]
    BY <1>11 DEF ReadForChange, Handlers
  <2>3. u.password = q.secret
    BY <2>1, ReadHolds
  <2> HIDE DEF u
  <2>4. p.op = "change" /\ p.at = "saveUser" /\ p.row = u
    BY <1>2, <2>1 DEF Fields
  <2> HIDE DEF p
  <2>5. ~Saves(p) /\ Changing(q) /\ NewPassword(p) = NewPassword(q)
    BY <2>1, <2>3, <2>4 DEF Saves, Changing, NewPassword
  <2>6. QED
    BY <1>1, <2>2, <2>5, PasswordsPass
<1>12. CASE SaveActivity(r) \/ Sign(r) \/ Abort(r)
  BY <1>3, <1>12 DEF SaveActivity, Sign, Abort
<1>13. InsertUser(r) \/ CheckExpiry(r) => Finish(r) \/ (InsertUser(r) /\ Goto(r, "queue"))
                                          \/ (CheckExpiry(r) /\ Goto(r, "saveUser"))
  BY DEF InsertUser, CheckExpiry
<1>14. QED
  BY <1>3, <1>4, <1>5, <1>6, <1>7, <1>9, <1>10, <1>11, <1>12, <1>13

LEMMA PasswordsSave ==
  ASSUME Handlers, World, World', Passwords, NEW r \in Requests, SaveUser(r)
  PROVE  /\ Passwords'
         /\ \/ request[r].op \in {"reset", "change"} /\ account'.required = clock
            \/ /\ request[r].op \notin {"reset", "change"}
               /\ account'.password = request[r].row.password /\ account' \in Rows
<1> DEFINE q == request[r]
           at == AfterSave(q.op)
           u == [q.row EXCEPT !.required = Required(q.op, q.row)]
           p == [q EXCEPT !.at = at]
<1>1. /\ UNCHANGED <<mails, sessions, clock, started, fails, disturbed>>
      /\ account' = u /\ q.at = "saveUser"
      /\ IF at = "idle" THEN Finish(r) ELSE Goto(r, at)
  BY DEF SaveUser
<1>2. /\ HoldsRow(q) /\ q \in Request /\ Coded(q.row) /\ q.row \in User
      /\ q.op \in {"sendReset", "activate", "rename", "google", "reset", "change"}
  BY <1>1, HandlersAre DEF HoldsRow, Staged, Rowed, Coded
<1>3. u.password = q.row.password /\ u.required = Required(q.op, q.row)
  BY <1>2 DEF User
<1>4. ASSUME q.op \notin {"reset", "change"} PROVE u \in Rows
  <2>1. Saves(q) /\ Required(q.op, q.row) = q.row.required
    BY <1>1, <1>4 DEF Saves, Required
  <2>2. u = q.row
    BY <1>2, <2>1 DEF User
  <2>3. QED
    BY <2>1, <2>2, RowsAre
<1>5. ASSUME q.op \in {"reset", "change"} PROVE Releases(r, u) /\ u.required = clock
  BY <1>1, <1>3, <1>5 DEF Releases, Changing, NewPassword, Required
<1> HIDE DEF u
<1>6. \E z : request' = [request EXCEPT ![r] = z] /\ ~Saves(z) /\ ~Changing(z)
  <2>1. CASE at = "idle"
    BY <1>1, <2>1, BlankPasses DEF Finish
  <2>2. CASE at # "idle"
    <3>1. (q.op = "sendReset" /\ at = "count") \/ (q.op = "google" /\ at = "sign")
      BY <1>2, <2>2 DEF AfterSave
    <3>2. DOMAIN q = Fields
      BY <1>2 DEF Request, Fields
    <3>3. p.op = q.op /\ p.at = at
      BY <3>2 DEF Fields
    <3>4. request' = [request EXCEPT ![r] = p]
      BY <1>1, <2>2 DEF Goto
    <3> HIDE DEF p
    <3>5. QED
      BY <3>1, <3>3, <3>4 DEF Saves, Changing
  <2>3. QED
    BY <2>1, <2>2
<1>7. PICK z : request' = [request EXCEPT ![r] = z] /\ ~Saves(z) /\ ~Changing(z)
  BY <1>6
<1>8. Rows' \subseteq Rows \cup {u}
  BY <1>1, <1>7, RowsMove
<1>9. Copies(u) \/ Releases(r, u)
  BY <1>2, <1>4, <1>5 DEF Copies
<1>10. Passwords'
  BY <1>1, <1>7, <1>8, <1>9, PasswordsMove
<1>11. QED
  BY <1>1, <1>2, <1>3, <1>4, <1>5, <1>10

LEMMA PasswordsAppear ==
  ASSUME Handlers, World, World', Passwords, NEW r \in Requests, Commit(r) \/ GoogleSignUp(r)
  PROVE  Passwords' /\ (account = NoUser \/ UNCHANGED account)
<1> DEFINE q == request[r]
<1>1. UNCHANGED <<started>>
  BY DEF Commit, GoogleSignUp
<1>2. CASE Commit(r)
  <2>1. q.at = "commit" /\ account' = q.row /\ request' = [request EXCEPT ![r] = Blank]
    BY <1>2 DEF Commit, Finish
  <2>2. q.op = "register" /\ account = NoUser
    BY <2>1, HandlersAre DEF HoldsRow, Staged, KnowsUser, Inserting
  <2>3. q.row \in Rows
    BY <2>1, <2>2, RowsAre DEF Saves
  <2>4. Rows' \subseteq Rows \cup {q.row} /\ Copies(q.row)
    BY <2>1, <2>3, BlankPasses, RowsMove DEF Copies
  <2>5. QED
    BY <1>1, <2>1, <2>2, <2>4, BlankPasses, PasswordsMove
<1>3. CASE GoogleSignUp(r) /\ Finish(r) /\ UNCHANGED account
  BY <1>1, <1>3, PasswordsEnd
<1>4. CASE GoogleSignUp(r) /\ ~(Finish(r) /\ UNCHANGED account)
  <2> DEFINE p == [q EXCEPT !.at = "sign", !.row = GoogleUser]
  <2>1. account = NoUser /\ account' = GoogleUser /\ request' = [request EXCEPT ![r] = p]
        /\ q.at = "signUp"
    BY <1>4 DEF GoogleSignUp, Handlers
  <2>2. q.op = "google" /\ DOMAIN q = Fields
    BY <2>1, HandlersAre DEF HoldsRow, Staged, Request, Fields
  <2>3. p.op = "google" /\ p.at = "sign"
    BY <2>2 DEF Fields
  <2> HIDE DEF p
  <2>4. ~Saves(p) /\ ~Changing(p)
    BY <2>3 DEF Saves, Changing
  <2>5. Rows' \subseteq Rows \cup {GoogleUser} /\ Unset(GoogleUser)
    <3>1. Unset(GoogleUser)
      BY DEF Unset, GoogleUser
    <3>2. QED
      BY <2>1, <2>4, <3>1, RowsMove
  <2>6. QED
    BY <1>1, <2>1, <2>4, <2>5, PasswordsMove
<1>5. QED
  BY <1>2, <1>3, <1>4

Refusals == World /\ Handlers /\ Passwords /\ Past /\ OldSessionsAreRefused

\* Sessions of a user whose password stays are refused as before.
LEMMA SessionsStay ==
  ASSUME Past, OldSessionsAreRefused, UNCHANGED sessions,
         clock \in Nat, clock' \in Nat, clock <= clock', \A s \in sessions : s.iat \in Nat,
         "password" \notin undone' =>
           /\ "password" \notin undone
           /\ \/ UNCHANGED account
              \/ account # NoUser /\ account'.password = account.password
                 /\ account'.required = account.required
  PROVE  Past' /\ OldSessionsAreRefused'
BY DEF Past, OldSessionsAreRefused, Accepted

LEMMA RefusalsInductive == Refusals /\ World' /\ Handlers' /\ [Next]_vars => Refusals'
<1> SUFFICES ASSUME World, Handlers, Passwords, Past, OldSessionsAreRefused,
                    World', Handlers', [Next]_vars
             PROVE  Passwords' /\ Past' /\ OldSessionsAreRefused'
  BY DEF Refusals
<1>1. clock \in Nat /\ clock' \in Nat /\ \A s \in sessions : s.iat \in Nat
  BY ConstantsOK DEF World, Session
<1>2. CASE Tick \/ UNCHANGED vars
  <2>1. UNCHANGED <<account, sessions, request, started, undone>> /\ clock <= clock'
    BY <1>1, <1>2 DEF Tick, vars
  <2>2. Passwords'
    BY <2>1 DEF Passwords, Rows
  <2>3. QED
    BY <1>1, <2>1, <2>2, SessionsStay
<1>3. ASSUME NEW r \in Requests, Starts(r)
      PROVE  Passwords' /\ Past' /\ OldSessionsAreRefused'
  BY <1>1, <1>3, Starting, PasswordsStart, SessionsStay
<1>4. ASSUME NEW r \in Requests,
             \/ InsertUser(r) \/ FindActivity(r) \/ CreateActivity(r) \/ QueueMail(r)
             \/ SaveActivity(r) \/ CheckExpiry(r) \/ ReadForChange(r) \/ Abort(r)
      PROVE  Passwords' /\ Past' /\ OldSessionsAreRefused'
  <2>1. UNCHANGED <<account, sessions, clock, undone>>
    BY <1>4 DEF InsertUser, FindActivity, CreateActivity, QueueMail, SaveActivity, CheckExpiry,
       ReadForChange, Abort
  <2>2. QED
    BY <1>1, <1>4, <2>1, PasswordsWait, SessionsStay
<1>5. ASSUME NEW r \in Requests, Sign(r)
      PROVE  Passwords' /\ Past' /\ OldSessionsAreRefused'
  <2> DEFINE s == [iat |-> clock, password |-> request[r].row.password,
                   raced |-> request[r].raced \/ request[r].row.password # account.password]
  <2>1. UNCHANGED <<account, clock, undone>> /\ sessions' = sessions \cup {s}
    BY <1>5 DEF Sign
  <2>2. s.iat = clock /\ (s.password # account.password => s.raced)
    OBVIOUS
  <2> HIDE DEF s
  <2>3. Past'
    BY <1>1, <2>1, <2>2 DEF Past
  <2>4. OldSessionsAreRefused'
    BY <2>1, <2>2 DEF OldSessionsAreRefused, Accepted
  <2>5. QED
    BY <1>5, <2>3, <2>4, PasswordsWait
<1>6. ASSUME NEW r \in Requests, Commit(r) \/ GoogleSignUp(r)
      PROVE  Passwords' /\ Past' /\ OldSessionsAreRefused'
  <2>1. UNCHANGED <<sessions, clock, undone>>
    BY <1>6 DEF Commit, GoogleSignUp
  <2>2. CASE account = NoUser
    <3>1. sessions = {}
      BY <2>2 DEF World
    <3>2. QED
      BY <1>6, <2>1, <3>1, PasswordsAppear DEF Past, OldSessionsAreRefused
  <2>3. CASE UNCHANGED account
    BY <1>1, <1>6, <2>1, <2>3, PasswordsAppear, SessionsStay
  <2>4. QED
    BY <1>6, <2>2, <2>3, PasswordsAppear
<1>7. ASSUME NEW r \in Requests, SaveUser(r)
      PROVE  Passwords' /\ Past' /\ OldSessionsAreRefused'
  <2>1. UNCHANGED <<sessions, clock>> /\ request[r].at = "saveUser"
    BY <1>7 DEF SaveUser
  <2>2. account # NoUser /\ account \in Rows
    BY <2>1, HandlersAre, RowsAre DEF HoldsRow, Staged, KnowsUser
  <2>3. CASE request[r].op \in {"reset", "change"} /\ account'.required = clock
    <3>1. Past'
      BY <2>1 DEF Past
    <3>2. OldSessionsAreRefused'
      BY <1>1, <2>1, <2>3 DEF Past, OldSessionsAreRefused, Accepted
    <3>3. QED
      BY <1>7, <3>1, <3>2, PasswordsSave
  <2>4. CASE /\ request[r].op \notin {"reset", "change"}
             /\ account'.password = request[r].row.password /\ account' \in Rows
    <3>1. undone \subseteq undone'
          /\ (request[r].row.password # account.password => "password" \in undone')
      BY <1>7, <2>4 DEF SaveUser
    <3>2. account'.password = account.password => account'.required = account.required
      BY <2>2, <2>4 DEF Passwords
    <3>3. QED
      BY <1>1, <1>7, <2>1, <2>2, <2>4, <3>1, <3>2, PasswordsSave, SessionsStay
  <2>5. QED
    BY <1>7, <2>3, <2>4, PasswordsSave
<1>8. QED
  BY <1>2, <1>3, <1>4, <1>5, <1>6, <1>7 DEF Next, Quiet, Step, Starts

\* Whatever overlaps, also with saves of rows that were read long ago: once the
\* password has changed, no session of an earlier one is accepted any more, but
\* in the second of the change, or when a save has taken the change back.
THEOREM SessionsRefused == Spec => []OldSessionsAreRefused
<1>1. Init => Refusals
  <2> SUFFICES ASSUME Init PROVE Refusals
    OBVIOUS
  <2>1. World /\ Handlers
    BY HandlersBegin
  <2>2. Rows = {}
    BY BlankPasses DEF Init, Rows
  <2>3. Passwords
    BY <2>2, BlankPasses DEF Init, Passwords
  <2>4. Past /\ OldSessionsAreRefused
    BY DEF Init, Past, OldSessionsAreRefused
  <2>5. QED
    BY <2>1, <2>3, <2>4 DEF Refusals
<1>2. Refusals /\ [Next]_vars => Refusals'
  BY HandlersInductive, RefusalsInductive DEF Refusals
<1>3. Refusals => OldSessionsAreRefused
  BY DEF Refusals
<1>4. QED
  BY <1>1, <1>2, <1>3, PTL DEF Spec

-----------------------------------------------------------------------------
(* The limit of mails, while requests for mails do not overlap.            *)

\* The mail is queued, and its activity is not saved yet.
Charged(q) == q.op \in MailOps /\ q.at \in {"commit", "saveUser", "count"}

Sent(kind, day, box) == {k \in DOMAIN box : box[k].kind = kind /\ box[k].time \div Day = day}

\* The attempts and the time tell of every mail in the box; there is room for
\* one more.
Counted(kind, n, last, box) ==
  /\ \A k \in DOMAIN box : box[k].kind = kind => box[k].time <= last
  /\ Cardinality(Sent(kind, last \div Day, box)) <= n
Room(kind, n, last, box) ==
  /\ \A k \in DOMAIN box : box[k].kind = kind => box[k].time <= last - Gap
  /\ Cardinality(Sent(kind, last \div Day, box)) + 1 <= n

Spaced(box) ==
  \A i, j \in DOMAIN box : box[i].kind = box[j].kind /\ i < j => box[j].time - box[i].time >= Gap
Limited(box) ==
  \A i \in DOMAIN box : Cardinality(Sent(box[i].kind, box[i].time \div Day, box)) <= MaxPerDay

\* The activity that the request has created, orphaned, and not adopted yet.
Adopts(q, i) == q.op = "sendReset" /\ q.at = "count" /\ q.mine /\ q.id = i

\* What the cascade will write is what is there, but for the new activity.
Listed(q, as) ==
  IF q.at \in {"find", "create"} THEN q.listed = as
  ELSE q.at # "count" => \A i \in DOMAIN as :
         \/ i \in DOMAIN q.listed /\ as[i] = q.listed[i]
         \/ i \notin DOMAIN q.listed /\ q.mine /\ i = q.id

\* What the request knows of the activities and of the box.
Holder(q, as, box) ==
  /\ Charged(q) => Counted(Kind(q.op), q.attempts, q.last, box)
  /\ q.op \in MailOps /\ q.at = "queue" => Room(Kind(q.op), q.attempts, q.last, box)
  /\ q.op = "register" => q.attempts = 1
  /\ q.op \in {"resend", "sendReset"} /\ q.at \in {"queue", "saveUser", "count"} =>
       q.id \in DOMAIN as /\ as[q.id].kind = Kind(q.op)
  /\ q.op = "sendReset" /\ q.at = "create" => \A i \in DOMAIN as : as[i].kind # "reset"
  /\ q.op = "sendReset" => Listed(q, as)

\* One activity for each kind of mail tells of the mails, or else the request
\* that is about to save it.
Activities(q, as, box) ==
  /\ \A i, j \in DOMAIN as : as[i].kind = as[j].kind => i = j
  /\ \A i \in DOMAIN as :
       /\ as[i].owned \/ Adopts(q, i)
       /\ ~(Charged(q) /\ as[i].kind = Kind(q.op)) =>
            Counted(as[i].kind, as[i].attempts, as[i].last, box)
  /\ \A k \in DOMAIN box : \/ \E i \in DOMAIN as : as[i].kind = box[k].kind
                           \/ q.op = "register" /\ q.at = "commit" /\ box[k].kind = "verify"
Ledger(q, as, box, acc) ==
  /\ acc = NoUser => as = <<>>
  /\ Spaced(box) /\ Limited(box)
  /\ Activities(q, as, box) /\ Holder(q, as, box)

Mails(q) == q.op \in MailOps
Alone ==
  /\ \A r, s \in Requests : Mails(request[r]) /\ Mails(request[s]) => r = s
  /\ \A r \in Requests : Mails(request[r]) => Ledger(request[r], acts, mails, account)
  /\ (\A r \in Requests : ~Mails(request[r])) => Ledger(Blank, acts, mails, account)

LEMMA Days ==
  ASSUME NEW c \in Int, NEW t \in Int
  PROVE  /\ t < c - (c % Day) => t \div Day # c \div Day
         /\ c - (c % Day) <= t /\ t <= c => t \div Day = c \div Day
         /\ c % Day \in Int
<1>1. Day \in Nat \ {0}
  BY ConstantsOK
<1>2. QED
  BY <1>1

LEMMA MailIs ==
  ASSUME NEW box \in Seq(Mail), NEW k \in DOMAIN box
  PROVE  box[k] \in Mail /\ box[k].time \in Int /\ box[k].kind \in {"verify", "reset"}
<1>1. box[k] \in Mail
  OBVIOUS
<1>2. QED
  BY <1>1, ConstantsOK DEF Mail, Time

LEMMA SentIs ==
  ASSUME NEW box \in Seq(Mail), NEW kind, NEW day
  PROVE  /\ IsFiniteSet(Sent(kind, day, box)) /\ Cardinality(Sent(kind, day, box)) \in Nat
         /\ Sent(kind, day, box) = {} => Cardinality(Sent(kind, day, box)) = 0
<1>1. IsFiniteSet(1..Len(box)) /\ Sent(kind, day, box) \subseteq 1..Len(box)
  <2>1. Len(box) \in Nat /\ DOMAIN box = 1..Len(box)
    OBVIOUS
  <2>2. QED
    BY <2>1, FS_Interval DEF Sent
<1>2. IsFiniteSet(Sent(kind, day, box))
  BY <1>1, FS_Subset
<1>3. QED
  BY <1>2, FS_CardinalityType, FS_EmptySet

\* One more mail in the box.
LEMMA SentMore ==
  ASSUME NEW box \in Seq(Mail), NEW m \in Mail, NEW kind, NEW day
  PROVE  LET b == Append(box, m) IN
         Cardinality(Sent(kind, day, b)) =
           IF m.kind = kind /\ m.time \div Day = day THEN Cardinality(Sent(kind, day, box)) + 1
           ELSE Cardinality(Sent(kind, day, box))
<1> DEFINE b == Append(box, m)
           n == Len(box) + 1
<1>1. /\ b \in Seq(Mail) /\ Len(box) \in Nat /\ DOMAIN b = 1..n /\ DOMAIN box = 1..Len(box)
      /\ b[n] = m /\ \A k \in DOMAIN box : b[k] = box[k]
  OBVIOUS
<1>2. DOMAIN b = DOMAIN box \cup {n} /\ n \notin DOMAIN box
  BY <1>1
<1> HIDE DEF b, n
<1>3. CASE m.kind = kind /\ m.time \div Day = day
  <2>1. Sent(kind, day, b) = Sent(kind, day, box) \cup {n} /\ n \notin Sent(kind, day, box)
    BY <1>1, <1>2, <1>3 DEF Sent
  <2>2. Cardinality(Sent(kind, day, b)) = Cardinality(Sent(kind, day, box)) + 1
    BY <2>1, SentIs, FS_AddElement
  <2>3. QED
    BY <1>3, <2>2 DEF b
<1>4. CASE ~(m.kind = kind /\ m.time \div Day = day)
  <2>1. Sent(kind, day, b) = Sent(kind, day, box)
    BY <1>1, <1>2, <1>4 DEF Sent
  <2>2. QED
    BY <1>4, <2>1 DEF b
<1>5. QED
  BY <1>3, <1>4 DEF b

\* The box b with the mail, after which the activity is to say n.
Grown(box, m, n, b) ==
  /\ Spaced(b) /\ Limited(b) /\ Counted(m.kind, n, m.time, b)
  /\ \A kind, a, last : kind # m.kind /\ Counted(kind, a, last, box) => Counted(kind, a, last, b)
  /\ \A k \in DOMAIN b : (k \in DOMAIN box /\ b[k] = box[k]) \/ b[k] = m

LEMMA Queued ==
  ASSUME NEW box \in Seq(Mail), NEW m \in Mail, NEW n \in 0..MaxPerDay,
         Room(m.kind, n, m.time, box), Spaced(box), Limited(box),
         NEW b, b = Append(box, m)
  PROVE  Grown(box, m, n, b)
<1> DEFINE l == Len(box) + 1
<1>1. /\ Len(box) \in Nat /\ DOMAIN b = 1..l /\ DOMAIN box = 1..Len(box)
      /\ b[l] = m /\ \A k \in DOMAIN box : b[k] = box[k]
  OBVIOUS
<1>2. DOMAIN b = DOMAIN box \cup {l} /\ l \in Nat /\ \A k \in DOMAIN box : k \in Nat /\ k < l
  BY <1>1
<1> HIDE DEF l
<1>3. m.time \in Int /\ Gap \in Nat \ {0} /\ MaxPerDay \in Nat /\ Day \in Nat \ {0} /\ n \in Nat
  BY ConstantsOK DEF Mail, Time
<1>4. \A k \in DOMAIN box : box[k].time \in Int
  BY MailIs
<1>5. \A kind, day :
         Cardinality(Sent(kind, day, b)) =
           IF m.kind = kind /\ m.time \div Day = day THEN Cardinality(Sent(kind, day, box)) + 1
           ELSE Cardinality(Sent(kind, day, box))
  BY SentMore
<1>6. \A kind, day : Cardinality(Sent(kind, day, box)) \in Nat
  BY SentIs
<1>7. Cardinality(Sent(m.kind, m.time \div Day, b)) <= n
  BY <1>3, <1>5, <1>6 DEF Room
<1>8. \A k \in DOMAIN box : box[k].kind = m.kind => box[k].time <= m.time - Gap
  BY DEF Room
<1>9. Spaced(b)
  <2> SUFFICES ASSUME NEW i \in DOMAIN b, NEW j \in DOMAIN b, b[i].kind = b[j].kind, i < j
               PROVE  b[j].time - b[i].time >= Gap
    BY DEF Spaced
  <2>1. i \in DOMAIN box
    BY <1>2
  <2>2. CASE j \in DOMAIN box
    BY <1>1, <2>1, <2>2 DEF Spaced
  <2>3. CASE j = l
    BY <1>1, <1>3, <1>4, <1>8, <2>1, <2>3
  <2>4. QED
    BY <1>2, <2>2, <2>3
<1>10. Limited(b)
  <2> SUFFICES ASSUME NEW i \in DOMAIN b
               PROVE  Cardinality(Sent(b[i].kind, b[i].time \div Day, b)) <= MaxPerDay
    BY DEF Limited
  <2>1. CASE b[i].kind = m.kind /\ b[i].time \div Day = m.time \div Day
    BY <1>3, <1>6, <1>5, <1>7, <2>1
  <2>2. CASE ~(b[i].kind = m.kind /\ b[i].time \div Day = m.time \div Day)
    <3>1. i \in DOMAIN box /\ b[i] = box[i]
      BY <1>1, <1>2, <2>2
    <3>2. QED
      BY <1>5, <2>2, <3>1 DEF Limited
  <2>3. QED
    BY <2>1, <2>2
<1>11. Counted(m.kind, n, m.time, b)
  <2>1. \A k \in DOMAIN b : b[k].kind = m.kind => b[k].time <= m.time
    BY <1>1, <1>2, <1>3, <1>4, <1>8
  <2>2. QED
    BY <1>7, <2>1 DEF Counted
<1>12. ASSUME NEW kind, NEW a, NEW last, kind # m.kind, Counted(kind, a, last, box)
       PROVE  Counted(kind, a, last, b)
  BY <1>1, <1>2, <1>5, <1>12 DEF Counted
<1>13. QED
  BY <1>1, <1>2, <1>9, <1>10, <1>11, <1>12 DEF Grown

\* Steps of the only request for mails, and of the others.
LEMMA LedgerMoves ==
  ASSUME Handlers, NEW r \in Requests, \A s \in Requests \ {r} : ~Mails(request[s]),
         NEW p, request' = [request EXCEPT ![r] = p], Mails(p) \/ p = Blank,
         Ledger(p, acts', mails', account')
  PROVE  Alone'
<1>1. request'[r] = p /\ \A s \in Requests \ {r} : request'[s] = request[s]
  BY DEF Handlers
<1>2. \A s \in Requests : Mails(request'[s]) => s = r
  BY <1>1
<1>3. ~Mails(Blank)
  BY DEF Mails, MailOps, Blank
<1>4. (\A s \in Requests : ~Mails(request'[s])) => p = Blank
  BY <1>1
<1>5. \A s \in Requests : Mails(request'[s]) => Ledger(request'[s], acts', mails', account')
  BY <1>1, <1>2
<1>6. QED
  BY <1>2, <1>4, <1>5 DEF Alone

LEMMA LedgerStands ==
  ASSUME Handlers, Alone, NEW r \in Requests, NEW p, request' = [request EXCEPT ![r] = p],
         ~Mails(request[r]), ~Mails(p), UNCHANGED <<acts, mails>>, account' = NoUser => account = NoUser
  PROVE  Alone'
<1>1. request'[r] = p /\ \A s \in Requests \ {r} : request'[s] = request[s]
  BY DEF Handlers
<1>2. \A q : Ledger(q, acts, mails, account) => Ledger(q, acts', mails', account')
  BY DEF Ledger
<1>3. \A s \in Requests : Mails(request'[s]) => request'[s] = request[s]
  BY <1>1
<1>4. (\A s \in Requests : ~Mails(request'[s])) => \A s \in Requests : ~Mails(request[s])
  BY <1>1
<1>5. QED
  BY <1>2, <1>3, <1>4 DEF Alone

\* The request that mails, and the ledger it works on.
LEMMA Only ==
  ASSUME Handlers, World, Alone, NEW r \in Requests, Mails(request[r])
  PROVE  /\ \A s \in Requests \ {r} : ~Mails(request[s])
         /\ Ledger(request[r], acts, mails, account)
         /\ request[r] \in Request /\ DOMAIN request[r] = Fields
         /\ HoldsRow(request[r]) /\ SavesActivity(request[r], Len(acts))
         /\ KnowsUser(request[r], account, Stands)
BY HandlersAre DEF Alone, Request, Fields

LEMMA LedgerEnds ==
  ASSUME NEW q, NEW as, NEW box, NEW acc, Ledger(q, as, box, acc), q.at \notin {"commit", "saveUser", "count"}
  PROVE  Ledger(Blank, as, box, acc)
<1>1. Activities(Blank, as, box)
  BY DEF Ledger, Activities, Adopts, Charged
<1>2. Blank.op = "none" /\ "none" \notin MailOps
  BY DEF Blank, MailOps
<1>3. Holder(Blank, as, box)
  BY <1>2 DEF Holder, Charged
<1>4. QED
  BY <1>1, <1>3 DEF Ledger

LEMMA LedgerAborts ==
  ASSUME Handlers, World, Alone, NEW r \in Requests, Mails(request[r]), Finish(r),
         request[r].at \in {"insert", "find"}, UNCHANGED <<account, acts, mails>>
  PROVE  Alone'
<1>1. Ledger(Blank, acts, mails, account)
  BY Only, LedgerEnds
<1>2. Ledger(Blank, acts', mails', account')
  BY <1>1
<1>3. QED
  BY <1>2, Only, LedgerMoves DEF Finish

LEMMA NoneSent ==
  ASSUME NEW box \in Seq(Mail), NEW kind, \A k \in DOMAIN box : box[k].kind # kind,
         NEW n \in Nat, NEW last
  PROVE  Counted(kind, n, last, box) /\ (n >= 1 => Room(kind, n, last, box))
<1>1. Sent(kind, last \div Day, box) = {}
  BY DEF Sent
<1>2. Cardinality(Sent(kind, last \div Day, box)) = 0
  BY <1>1, SentIs
<1>3. QED
  BY <1>2 DEF Counted, Room

LEMMA InsertLedger ==
  ASSUME Handlers, World, Alone, NEW r \in Requests, InsertUser(r)
  PROVE  Alone'
<1> DEFINE q == request[r]
           p == [q EXCEPT !.at = "queue"]
<1>1. q.op = "register" /\ q.at = "insert" /\ UNCHANGED <<account, acts, mails>> /\ Mails(q)
  BY DEF InsertUser, Mails, MailOps
<1>2. CASE Finish(r)
  BY <1>1, <1>2, LedgerAborts
<1>3. CASE account = NoUser /\ request' = [request EXCEPT ![r] = p]
  <2>1. Ledger(q, acts, mails, account) /\ DOMAIN q = Fields
    BY <1>1, Only
  <2>2. p.op = q.op /\ p.at = "queue" /\ p.attempts = q.attempts /\ p.last = q.last
    BY <2>1 DEF Fields
  <2>3. acts = <<>> /\ DOMAIN acts = {}
    BY <1>3, <2>1 DEF Ledger
  <2>4. DOMAIN mails = {}
    BY <1>1, <2>1, <2>3 DEF Ledger, Activities
  <2>5. q.attempts = 1
    BY <1>1, <2>1 DEF Ledger, Holder
  <2>6. Room("verify", 1, q.last, mails)
    <3>1. mails \in Seq(Mail) /\ 1 \in Nat /\ \A k \in DOMAIN mails : mails[k].kind # "verify"
      BY <2>4 DEF World
    <3>2. QED
      BY <3>1, NoneSent
  <2> HIDE DEF p
  <2>7. Holder(p, acts, mails)
    BY <1>1, <2>2, <2>5, <2>6 DEF Holder, Charged, Kind
  <2>8. Activities(p, acts, mails)
    BY <2>3, <2>4 DEF Activities
  <2>9. Ledger(p, acts', mails', account')
    BY <1>1, <2>1, <2>7, <2>8 DEF Ledger
  <2>10. QED
    BY <1>1, <1>3, <2>2, <2>9, Only, LedgerMoves DEF Mails
<1>4. QED
  BY <1>2, <1>3 DEF InsertUser, Goto

LEMMA CommitLedger ==
  ASSUME Handlers, World, World', Alone, NEW r \in Requests, Commit(r)
  PROVE  Alone'
<1> DEFINE q == request[r]
           a == [kind |-> "verify", owned |-> TRUE, attempts |-> q.attempts, last |-> q.last]
<1>1. account' = q.row /\ acts' = Append(acts, a) /\ Finish(r) /\ q.at = "commit" /\ UNCHANGED mails
  BY DEF Commit
<1>2. q.op = "register" /\ account = NoUser /\ Mails(q) /\ Coded(q.row)
  BY <1>1, HandlersAre DEF HoldsRow, Staged, Rowed, KnowsUser, Inserting, Mails, MailOps
<1>3. Ledger(q, acts, mails, account)
  BY <1>2, Only
<1>4. acts = <<>>
  BY <1>2, <1>3 DEF Ledger
<1>5. DOMAIN acts' = {1} /\ acts'[1] = a
  BY <1>1, <1>4
<1>6. a.kind = "verify" /\ a.owned /\ a.attempts = q.attempts /\ a.last = q.last
  BY Zenon
<1> HIDE DEF a
<1>7. Counted("verify", q.attempts, q.last, mails)
  BY <1>1, <1>2, <1>3 DEF Ledger, Holder, Charged, Kind, Mails
<1>8. \A k \in DOMAIN mails : mails[k].kind = "verify"
  BY <1>3, <1>4 DEF Ledger, Activities
<1>9. Activities(Blank, acts', mails)
  BY <1>5, <1>6, <1>7, <1>8 DEF Activities
<1>10. account' # NoUser
  BY <1>1, <1>2, NoUserIsNoRow DEF Coded
<1>11. Holder(Blank, acts', mails)
  <2>1. Blank.op = "none" /\ "none" \notin MailOps
    BY DEF Blank, MailOps
  <2>2. QED
    BY <2>1 DEF Holder, Charged
<1>12. Ledger(Blank, acts', mails', account')
  BY <1>1, <1>3, <1>9, <1>10, <1>11 DEF Ledger
<1>13. QED
  BY <1>1, <1>2, <1>12, Only, LedgerMoves DEF Finish

LEMMA RoomLeft ==
  ASSUME World, NEW i \in DOMAIN acts, Allowed(acts[i]),
         Counted(acts[i].kind, acts[i].attempts, acts[i].last, mails)
  PROVE  Room(acts[i].kind, Attempts(acts[i]), clock, mails)
<1> DEFINE a == acts[i]
<1>1. /\ a.last \in Int /\ a.attempts \in Nat /\ clock \in Nat /\ Gap \in Nat /\ mails \in Seq(Mail)
      /\ clock % Day \in Int
  <2>1. a.last \in Time /\ a.attempts \in 0..MaxPerDay
    BY ActivityIs
  <2>2. clock \in 0..MaxClock /\ mails \in Seq(Mail)
    BY DEF World
  <2>3. clock % Day \in Int
    BY <2>2, ConstantsOK, Days
  <2>4. QED
    BY <2>1, <2>2, <2>3, ConstantsOK DEF Time
<1>2. a.last <= clock - Gap
  BY DEF Allowed
<1>3. \A k \in DOMAIN mails : /\ mails[k].time \in Int
                              /\ mails[k].kind = a.kind => mails[k].time <= a.last
  BY <1>1, MailIs DEF Counted
<1>4. \A k \in DOMAIN mails : mails[k].kind = a.kind => mails[k].time <= clock - Gap
  BY <1>1, <1>2, <1>3
<1> HIDE DEF a
<1>5. CASE a.last < Midnight
  <2>1. Attempts(a) = 1
    BY <1>5 DEF Attempts
  <2>2. ASSUME NEW k \in DOMAIN mails, mails[k].kind = a.kind
        PROVE  mails[k].time \div Day # clock \div Day
    <3>1. mails[k].time \in Int /\ mails[k].time < clock - (clock % Day)
      BY <1>1, <1>3, <1>5, <2>2 DEF Midnight
    <3>2. QED
      <4>1. clock \in Int /\ mails[k].time \in Int
        BY <1>1, <1>3, <2>2
      <4>2. QED
        BY <3>1, <4>1, Days
  <2>3. Sent(a.kind, clock \div Day, mails) = {}
    BY <2>2 DEF Sent
  <2>4. Cardinality(Sent(a.kind, clock \div Day, mails)) = 0
    BY <1>1, <2>3, SentIs
  <2>5. QED
    BY <1>4, <2>1, <2>4 DEF Room, a
<1>6. CASE ~(a.last < Midnight)
  <2>1. Attempts(a) = a.attempts + 1
    BY <1>6 DEF Attempts
  <2>2. a.last \div Day = clock \div Day
    <3>1. clock - (clock % Day) <= a.last /\ a.last <= clock
      BY <1>1, <1>2, <1>6 DEF Midnight
    <3>2. clock \in Int /\ a.last \in Int
      BY <1>1
    <3>3. QED
      BY <3>1, <3>2, Days
  <2>3. Cardinality(Sent(a.kind, clock \div Day, mails)) <= a.attempts
        /\ Cardinality(Sent(a.kind, clock \div Day, mails)) \in Nat
    BY <1>1, <2>2, SentIs DEF Counted, a
  <2>4. QED
    BY <1>1, <1>4, <2>1, <2>3 DEF Room, a
<1>7. QED
  BY <1>5, <1>6

LEMMA FindLedger ==
  ASSUME Handlers, World, Alone, NEW r \in Requests, FindActivity(r)
  PROVE  Alone'
<1> DEFINE q == request[r]
<1>1. q.at = "find" /\ q.op \in {"resend", "sendReset"} /\ UNCHANGED <<account, acts, mails>> /\ Mails(q)
  BY HandlersAre DEF FindActivity, HoldsRow, Staged, Mails, MailOps
<1>2. Ledger(q, acts, mails, account) /\ DOMAIN q = Fields
  BY <1>1, Only
<1>3. /\ Spaced(mails) /\ Limited(mails) /\ (account = NoUser => acts = <<>>)
      /\ \A i, j \in DOMAIN acts : acts[i].kind = acts[j].kind => i = j
      /\ \A i \in DOMAIN acts :
           acts[i].owned /\ Counted(acts[i].kind, acts[i].attempts, acts[i].last, mails)
      /\ \A k \in DOMAIN mails : \E i \in DOMAIN acts : acts[i].kind = mails[k].kind
      /\ q.op = "sendReset" => q.listed = acts
  BY <1>1, <1>2 DEF Ledger, Activities, Adopts, Charged, Holder, Listed
<1>4. ASSUME NEW p, p.at \in {"queue", "create"}
      PROVE  Activities(p, acts, mails)
  BY <1>3, <1>4 DEF Activities
<1>5. CASE Finish(r)
  BY <1>1, <1>5, LedgerAborts
<1>6. CASE q.op = "sendReset" /\ Owned(q.op) = {} /\ Goto(r, "create")
  <2> DEFINE p == [q EXCEPT !.at = "create"]
  <2>1. request' = [request EXCEPT ![r] = p]
    BY <1>6 DEF Goto
  <2>2. p.op = "sendReset" /\ p.at = "create" /\ p.listed = q.listed
    BY <1>2, <1>6 DEF Fields
  <2> HIDE DEF p
  <2>3. \A i \in DOMAIN acts : acts[i].kind # "reset"
    BY <1>3, <1>6 DEF Owned, Kind
  <2>4. Holder(p, acts, mails)
    BY <1>3, <1>6, <2>2, <2>3 DEF Holder, Charged, Listed
  <2>5. Ledger(p, acts', mails', account')
    BY <1>1, <1>3, <1>4, <2>2, <2>4 DEF Ledger
  <2>6. QED
    BY <1>1, <2>1, <2>2, <2>5, Only, LedgerMoves DEF Mails, MailOps
<1>7. ASSUME NEW i \in Owned(q.op), Allowed(acts[i]),
             request' = [request EXCEPT ![r].at = "queue", ![r].id = i,
                           ![r].attempts = Attempts(acts[i]), ![r].last = clock]
      PROVE  Alone'
  <2> DEFINE n == Attempts(acts[i])
             p == [q EXCEPT !.at = "queue", !.id = i, !.attempts = n, !.last = clock]
  <2>1. request' = [request EXCEPT ![r] = p]
    BY <1>7 DEF Handlers
  <2>2. i \in DOMAIN acts /\ acts[i].kind = Kind(q.op)
    BY DEF Owned
  <2> HIDE DEF n
  <2>3. /\ p.op = q.op /\ p.at = "queue" /\ p.id = i /\ p.attempts = n /\ p.last = clock
        /\ p.listed = q.listed
    BY <1>2 DEF Fields
  <2> HIDE DEF p
  <2>4. Room(Kind(q.op), n, clock, mails)
    BY <1>3, <1>7, <2>2, RoomLeft DEF n
  <2>5. Holder(p, acts, mails)
    BY <1>1, <1>3, <2>2, <2>3, <2>4 DEF Holder, Charged, Listed
  <2>6. Ledger(p, acts', mails', account')
    BY <1>1, <1>3, <1>4, <2>3, <2>5 DEF Ledger
  <2>7. QED
    BY <1>1, <2>1, <2>3, <2>6, Only, LedgerMoves DEF Mails
<1>8. QED
  BY <1>5, <1>6, <1>7 DEF FindActivity

LEMMA CreateLedger ==
  ASSUME Handlers, World, Alone, NEW r \in Requests, CreateActivity(r)
  PROVE  Alone'
<1> DEFINE q == request[r]
           a == [kind |-> "reset", owned |-> TRUE, attempts |-> 0, last |-> clock - Gap - 1]
           n == Len(acts) + 1
           p == [q EXCEPT !.at = "queue", !.id = n, !.attempts = 1, !.last = clock, !.mine = TRUE]
<1>1. /\ UNCHANGED <<account, mails>> /\ acts' = Append(acts, a)
      /\ request' = [request EXCEPT ![r] = p] /\ q.at = "create"
  BY DEF CreateActivity, Handlers
<1>2. q.op = "sendReset" /\ Mails(q) /\ account # NoUser
  BY <1>1, HandlersAre DEF HoldsRow, Staged, Mails, MailOps, KnowsUser
<1>3. Ledger(q, acts, mails, account) /\ DOMAIN q = Fields
  BY <1>2, Only
<1>4. /\ Spaced(mails) /\ Limited(mails) /\ q.listed = acts
      /\ \A i, j \in DOMAIN acts : acts[i].kind = acts[j].kind => i = j
      /\ \A i \in DOMAIN acts :
           /\ acts[i].owned /\ Counted(acts[i].kind, acts[i].attempts, acts[i].last, mails)
           /\ acts[i].kind # "reset"
      /\ \A k \in DOMAIN mails : \E i \in DOMAIN acts : acts[i].kind = mails[k].kind
  BY <1>1, <1>2, <1>3 DEF Ledger, Activities, Adopts, Charged, Holder, Listed
<1>5. \A k \in DOMAIN mails : mails[k].kind # "reset"
  BY <1>4
<1>6. mails \in Seq(Mail) /\ 0 \in Nat /\ 1 \in Nat
  BY DEF World
<1>7. a.kind = "reset" /\ a.owned = TRUE /\ a.attempts = 0
  OBVIOUS
<1> HIDE DEF a
<1>8. /\ DOMAIN acts' = DOMAIN acts \cup {n} /\ n \notin DOMAIN acts
      /\ acts'[n] = a /\ \A i \in DOMAIN acts : acts'[i] = acts[i]
  BY <1>1 DEF World
<1>9. Counted("reset", 0, a.last, mails) /\ Room("reset", 1, clock, mails)
  BY <1>5, <1>6, NoneSent
<1>10. p.op = "sendReset" /\ p.at = "queue" /\ p.id = n /\ p.attempts = 1 /\ p.last = clock
       /\ p.mine = TRUE /\ p.listed = q.listed
  BY <1>2, <1>3 DEF Fields
<1> HIDE DEF n, p
<1>11. Activities(p, acts', mails)
  <2>1. \A i, j \in DOMAIN acts' : acts'[i].kind = acts'[j].kind => i = j
    BY <1>4, <1>7, <1>8
  <2>2. \A i \in DOMAIN acts' :
          acts'[i].owned /\ Counted(acts'[i].kind, acts'[i].attempts, acts'[i].last, mails)
    BY <1>4, <1>7, <1>8, <1>9
  <2>3. \A k \in DOMAIN mails : \E i \in DOMAIN acts' : acts'[i].kind = mails[k].kind
    BY <1>4, <1>8
  <2>4. QED
    BY <2>1, <2>2, <2>3 DEF Activities
<1>12. Listed(p, acts')
  BY <1>4, <1>8, <1>10 DEF Listed
<1>13. Holder(p, acts', mails)
  BY <1>7, <1>8, <1>9, <1>10, <1>12 DEF Holder, Charged, Kind
<1>14. Ledger(p, acts', mails', account')
  BY <1>1, <1>2, <1>4, <1>11, <1>13 DEF Ledger
<1>15. QED
  BY <1>1, <1>2, <1>10, <1>14, Only, LedgerMoves DEF Mails, MailOps

LEMMA QueueLedger ==
  ASSUME Handlers, World, Alone, NEW r \in Requests, QueueMail(r)
  PROVE  Alone'
<1> DEFINE q == request[r]
           m == MailOf(q)
           at == AfterMail[q.op]
           p == [q EXCEPT !.at = at]
<1>1. /\ UNCHANGED <<account, acts>> /\ mails' = Append(mails, m) /\ q.at = "queue"
      /\ request' = [request EXCEPT ![r] = p]
  BY DEF QueueMail, Goto
<1>2. q.op \in {"register", "resend", "sendReset"} /\ Mails(q) /\ HoldsRow(q) /\ q \in Request
  BY <1>1, HandlersAre DEF HoldsRow, Staged, Mails, MailOps
<1>3. Ledger(q, acts, mails, account) /\ DOMAIN q = Fields
  BY <1>2, Only
<1>4. m \in Mail /\ m.kind = Kind(q.op) /\ m.time = q.last
  <2>1. q.last \in Time
    BY <1>2 DEF Request
  <2>2. CASE q.op = "sendReset"
    BY <1>1, <1>2, <2>1, <2>2 DEF MailOf, Mail, Kind, HoldsRow
  <2>3. CASE q.op # "sendReset"
    BY <1>1, <1>2, <2>1, <2>3 DEF MailOf, Mail, Kind, HoldsRow
  <2>4. QED
    BY <2>2, <2>3
<1>5. /\ q.op = "register" => at = "commit"
      /\ q.op = "resend" => at = "count"
      /\ q.op = "sendReset" => at = "saveUser"
  BY DEF AfterMail
<1>6. /\ p.op = q.op /\ p.at = at /\ p.id = q.id /\ p.attempts = q.attempts /\ p.last = q.last
      /\ p.mine = q.mine /\ p.listed = q.listed
  BY <1>3 DEF Fields
<1> HIDE DEF m, at, p
<1>7. /\ Spaced(mails) /\ Limited(mails) /\ (account = NoUser => acts = <<>>)
      /\ \A i, j \in DOMAIN acts : acts[i].kind = acts[j].kind => i = j
      /\ \A i \in DOMAIN acts :
           acts[i].owned /\ Counted(acts[i].kind, acts[i].attempts, acts[i].last, mails)
      /\ \A k \in DOMAIN mails : \E i \in DOMAIN acts : acts[i].kind = mails[k].kind
      /\ Room(m.kind, q.attempts, m.time, mails)
      /\ q.op = "register" => q.attempts = 1
      /\ q.op \in {"resend", "sendReset"} => q.id \in DOMAIN acts /\ acts[q.id].kind = Kind(q.op)
      /\ q.op = "sendReset" => Listed(q, acts)
  BY <1>1, <1>2, <1>3, <1>4 DEF Ledger, Activities, Adopts, Charged, Holder, Mails
<1>8. mails \in Seq(Mail) /\ q.attempts \in 0..MaxPerDay
  BY <1>2 DEF World, Request
<1>9. /\ Spaced(mails') /\ Limited(mails') /\ Counted(m.kind, q.attempts, m.time, mails')
      /\ \A kind, a, last : kind # m.kind /\ Counted(kind, a, last, mails)
                            => Counted(kind, a, last, mails')
      /\ \A k \in DOMAIN mails' : (k \in DOMAIN mails /\ mails'[k] = mails[k]) \/ mails'[k] = m
  <2>1. m \in Mail
    BY <1>4
  <2>2. PICK b : b = mails' /\ b = Append(mails, m)
    BY <1>1
  <2>3. mails \in Seq(Mail)
    BY <1>8
  <2>4. q.attempts \in 0..MaxPerDay
    BY <1>8
  <2>5. Room(m.kind, q.attempts, m.time, mails)
    BY <1>7
  <2>6. Spaced(mails) /\ Limited(mails)
    BY <1>7
  <2> HIDE DEF q
  <2>7. b = Append(mails, m)
    BY <2>2
  <2>8. Grown(mails, m, q.attempts, b)
    BY <2>1, <2>3, <2>4, <2>5, <2>6, <2>7, Queued
  <2>9. QED
    BY <2>2, <2>8 DEF Grown
<1>10. Activities(p, acts, mails')
  <2>1. ASSUME NEW i \in DOMAIN acts, ~(Charged(p) /\ acts[i].kind = Kind(p.op))
        PROVE  Counted(acts[i].kind, acts[i].attempts, acts[i].last, mails')
    <3>1. acts[i].kind # m.kind
      BY <1>2, <1>4, <1>5, <1>6, <2>1 DEF Charged, Mails
    <3>2. QED
      BY <1>7, <1>9, <3>1
  <2>2. ASSUME NEW k \in DOMAIN mails'
        PROVE  \/ \E i \in DOMAIN acts : acts[i].kind = mails'[k].kind
               \/ p.op = "register" /\ p.at = "commit" /\ mails'[k].kind = "verify"
    <3>1. CASE k \in DOMAIN mails /\ mails'[k] = mails[k]
      BY <1>7, <3>1
    <3>2. CASE mails'[k] = m
      BY <1>2, <1>4, <1>5, <1>6, <1>7, <3>2 DEF Kind
    <3>3. QED
      BY <1>9, <3>1, <3>2
  <2>3. QED
    BY <1>7, <2>1, <2>2 DEF Activities
<1>11. q.op = "sendReset" => Listed(p, acts)
  BY <1>1, <1>5, <1>6, <1>7 DEF Listed
<1>12. Holder(p, acts, mails')
  BY <1>2, <1>4, <1>5, <1>6, <1>7, <1>9, <1>11 DEF Holder
<1>13. Ledger(p, acts', mails', account')
  BY <1>1, <1>7, <1>9, <1>10, <1>12 DEF Ledger
<1>14. QED
  BY <1>1, <1>2, <1>6, <1>13, Only, LedgerMoves DEF Mails

LEMMA SaveActivityLedger ==
  ASSUME Handlers, World, Alone, NEW r \in Requests, SaveActivity(r)
  PROVE  Alone'
<1> DEFINE q == request[r]
           a == [acts[q.id] EXCEPT !.attempts = q.attempts, !.last = q.last,
                                   !.owned = acts[q.id].owned \/ q.mine]
<1>1. UNCHANGED <<account, mails>> /\ Finish(r) /\ acts' = [acts EXCEPT ![q.id] = a] /\ q.at = "count"
  BY DEF SaveActivity, World
<1>2. q.op \in {"resend", "sendReset"} /\ Mails(q)
  BY <1>1, HandlersAre DEF HoldsRow, Staged, Mails, MailOps
<1>3. Ledger(q, acts, mails, account) /\ q \in Request
  BY <1>2, Only
<1>4. /\ Spaced(mails) /\ Limited(mails) /\ (account = NoUser => acts = <<>>)
      /\ \A i, j \in DOMAIN acts : acts[i].kind = acts[j].kind => i = j
      /\ \A k \in DOMAIN mails : \E i \in DOMAIN acts : acts[i].kind = mails[k].kind
      /\ Counted(Kind(q.op), q.attempts, q.last, mails)
      /\ q.id \in DOMAIN acts /\ acts[q.id].kind = Kind(q.op)
  BY <1>1, <1>2, <1>3 DEF Ledger, Activities, Holder, Charged, Mails
<1>5. ASSUME NEW i \in DOMAIN acts, i # q.id
      PROVE  acts[i].owned /\ Counted(acts[i].kind, acts[i].attempts, acts[i].last, mails)
  <2>1. acts[i].kind # Kind(q.op)
    BY <1>4, <1>5
  <2>2. QED
    BY <1>3, <1>5, <2>1 DEF Ledger, Activities, Adopts
<1>6. acts[q.id].owned \/ q.mine
  BY <1>3, <1>4 DEF Ledger, Activities, Adopts
<1>7. acts[q.id] \in Activity
  BY <1>4, ActivityIs
<1>8. a.kind = Kind(q.op) /\ a.attempts = q.attempts /\ a.last = q.last
  BY <1>4, <1>7 DEF Activity
<1>9. a.owned
  BY <1>6, <1>7 DEF Activity
<1> HIDE DEF a
<1>10. /\ DOMAIN acts' = DOMAIN acts /\ acts'[q.id] = a
       /\ \A i \in DOMAIN acts : i # q.id => acts'[i] = acts[i]
  BY <1>1, <1>4 DEF World
<1>11. \A i \in DOMAIN acts : acts'[i].kind = acts[i].kind
  BY <1>4, <1>8, <1>10
<1>12. Activities(Blank, acts', mails)
  <2>1. \A i, j \in DOMAIN acts' : acts'[i].kind = acts'[j].kind => i = j
    BY <1>4, <1>10, <1>11
  <2>2. ASSUME NEW i \in DOMAIN acts'
        PROVE  acts'[i].owned /\ Counted(acts'[i].kind, acts'[i].attempts, acts'[i].last, mails)
    <3>1. CASE i = q.id
      BY <1>4, <1>8, <1>9, <1>10, <3>1
    <3>2. CASE i # q.id
      BY <1>5, <1>10, <3>2
    <3>3. QED
      BY <3>1, <3>2
  <2>3. \A k \in DOMAIN mails : \E i \in DOMAIN acts' : acts'[i].kind = mails[k].kind
    BY <1>4, <1>10, <1>11
  <2>4. QED
    BY <2>1, <2>2, <2>3 DEF Activities
<1>13. Holder(Blank, acts', mails)
  <2>1. Blank.op = "none" /\ "none" \notin MailOps
    BY DEF Blank, MailOps
  <2>2. QED
    BY <2>1 DEF Holder, Charged
<1>14. account' = NoUser => acts' = <<>>
  BY <1>1, <1>4
<1>15. Ledger(Blank, acts', mails', account')
  BY <1>1, <1>4, <1>12, <1>13, <1>14 DEF Ledger
<1>16. QED
  BY <1>1, <1>2, <1>15, Only, LedgerMoves DEF Finish

\* The cascade writes back what is there; only the activity that the request
\* has created loses its user, until the request saves it.
LEMMA CascadeLedger ==
  ASSUME Handlers, World, World', Alone, NEW r \in Requests, SaveUser(r), request[r].op = "sendReset"
  PROVE  Alone'
<1> DEFINE q == request[r]
           p == [q EXCEPT !.at = "count"]
<1>1. /\ UNCHANGED mails /\ acts' = Cascade(q.listed) /\ q.at = "saveUser" /\ q.op = "sendReset"
      /\ Goto(r, "count") /\ account' = [q.row EXCEPT !.required = Required(q.op, q.row)]
  BY DEF SaveUser, AfterSave
<1>2. request' = [request EXCEPT ![r] = p] /\ Mails(q)
  BY <1>1 DEF Goto, Mails, MailOps
<1>3. Ledger(q, acts, mails, account) /\ q \in Request /\ DOMAIN q = Fields /\ HoldsRow(q)
  BY <1>2, Only
<1>4. account' # NoUser
  <2>1. Coded(q.row) /\ Required(q.op, q.row) = q.row.required
    BY <1>1, <1>3 DEF HoldsRow, Rowed, Required
  <2>2. account' \in User
    BY <1>1, <2>1 DEF Coded, User
  <2>3. QED
    BY <2>2, NoUserIsNoRow
<1>5. /\ p.op = "sendReset" /\ p.at = "count" /\ p.id = q.id /\ p.attempts = q.attempts
      /\ p.last = q.last /\ p.mine = q.mine
  BY <1>1, <1>3 DEF Fields
<1> HIDE DEF p
<1>6. /\ Spaced(mails) /\ Limited(mails)
      /\ \A i, j \in DOMAIN acts : acts[i].kind = acts[j].kind => i = j
      /\ \A k \in DOMAIN mails : \E i \in DOMAIN acts : acts[i].kind = mails[k].kind
      /\ Counted("reset", q.attempts, q.last, mails)
      /\ q.id \in DOMAIN acts /\ acts[q.id].kind = "reset"
      /\ \A i \in DOMAIN acts : acts[i].owned
      /\ \A i \in DOMAIN acts : acts[i].kind # "reset" =>
           Counted(acts[i].kind, acts[i].attempts, acts[i].last, mails)
      /\ \A i \in DOMAIN acts : \/ i \in DOMAIN q.listed /\ acts[i] = q.listed[i]
                                \/ i \notin DOMAIN q.listed /\ q.mine /\ i = q.id
  BY <1>1, <1>2, <1>3 DEF Ledger, Activities, Adopts, Holder, Charged, Listed, Mails, Kind
<1>7. DOMAIN acts' = DOMAIN acts
  BY <1>1, <1>3, CascadeFits DEF Request
<1>8. ASSUME NEW i \in DOMAIN acts
      PROVE  /\ acts'[i].kind = acts[i].kind /\ acts'[i].attempts = acts[i].attempts
             /\ acts'[i].last = acts[i].last
             /\ acts'[i].owned \/ (q.mine /\ i = q.id)
  <2>1. acts[i] \in Activity
    BY ActivityIs
  <2>2. CASE i \in DOMAIN q.listed /\ acts[i] = q.listed[i]
    <3>1. q.listed[i].owned
      BY <1>6, <2>2
    <3>2. acts'[i] = q.listed[i]
      BY <1>1, <2>2, <3>1 DEF Cascade
    <3>3. QED
      BY <2>2, <3>1, <3>2
  <2>3. CASE i \notin DOMAIN q.listed /\ q.mine /\ i = q.id
    <3>1. acts'[i] = [acts[i] EXCEPT !.owned = FALSE]
      BY <1>1, <2>3 DEF Cascade
    <3>2. QED
      BY <2>1, <2>3, <3>1 DEF Activity
  <2>4. QED
    BY <1>6, <2>2, <2>3
<1>9. Activities(p, acts', mails)
  <2>1. \A i, j \in DOMAIN acts' : acts'[i].kind = acts'[j].kind => i = j
    BY <1>6, <1>7, <1>8
  <2>2. \A i \in DOMAIN acts' : acts'[i].owned \/ Adopts(p, i)
    BY <1>5, <1>7, <1>8 DEF Adopts
  <2>3. ASSUME NEW i \in DOMAIN acts', ~(Charged(p) /\ acts'[i].kind = Kind(p.op))
        PROVE  Counted(acts'[i].kind, acts'[i].attempts, acts'[i].last, mails)
    <3>1. acts[i].kind # "reset"
      BY <1>5, <1>7, <1>8, <2>3 DEF Charged, MailOps, Kind
    <3>2. QED
      BY <1>6, <1>7, <1>8, <3>1
  <2>4. \A k \in DOMAIN mails : \E i \in DOMAIN acts' : acts'[i].kind = mails[k].kind
    BY <1>6, <1>7, <1>8
  <2>5. QED
    BY <2>1, <2>2, <2>3, <2>4 DEF Activities
<1>10. Holder(p, acts', mails)
  BY <1>5, <1>6, <1>7, <1>8 DEF Holder, Kind, Listed
<1>11. Ledger(p, acts', mails', account')
  BY <1>1, <1>4, <1>6, <1>9, <1>10 DEF Ledger
<1>12. QED
  BY <1>2, <1>5, <1>11, Only, LedgerMoves DEF Mails, MailOps

LEMMA MailsBegin ==
  ASSUME Handlers, World, Alone, NEW r \in Requests, \A s \in Requests : ~Mails(request[s]),
         Register(r) \/ Resend(r) \/ SendReset(r)
  PROVE  Alone'
<1>1. Ledger(Blank, acts, mails, account) /\ UNCHANGED <<account, acts, mails>>
  BY Starting DEF Alone, Starts
<1>2. ASSUME NEW p, request' = [request EXCEPT ![r] = p], Mails(p), p.at \in {"insert", "find"},
             p.op = "register" => p.attempts = 1,
             p.op = "sendReset" => p.at = "find" /\ p.listed = acts
      PROVE  Alone'
  <2>1. Activities(p, acts, mails)
    <3>1. Blank.op = "none"
      BY DEF Blank
    <3>2. QED
      BY <1>1, <1>2, <3>1 DEF Ledger, Activities, Adopts, Charged, MailOps
  <2>2. Holder(p, acts, mails)
    BY <1>2 DEF Holder, Charged, Listed
  <2>3. Ledger(p, acts', mails', account')
    BY <1>1, <2>1, <2>2 DEF Ledger
  <2>4. QED
    BY <1>2, <2>3, LedgerMoves
<1>3. DOMAIN Blank = Fields
  BY DEF Blank, Fields
<1>4. CASE Register(r)
  <2> DEFINE p == [[Blank EXCEPT !.row = Registered(fresh), !.attempts = 1, !.last = clock]
                    EXCEPT !.op = "register", !.at = "insert"]
  <2>1. request' = [request EXCEPT ![r] = p]
    BY <1>4 DEF Register, Start
  <2>2. p.op = "register" /\ p.at = "insert" /\ p.attempts = 1
    BY <1>3 DEF Fields
  <2> HIDE DEF p
  <2>3. QED
    BY <1>2, <2>1, <2>2 DEF Mails, MailOps
<1>5. CASE Resend(r)
  <2> DEFINE p == [[Blank EXCEPT !.row = account] EXCEPT !.op = "resend", !.at = "find"]
  <2>1. request' = [request EXCEPT ![r] = p]
    BY <1>5 DEF Resend, Start, Read
  <2>2. p.op = "resend" /\ p.at = "find"
    BY <1>3 DEF Fields
  <2> HIDE DEF p
  <2>3. QED
    BY <1>2, <2>1, <2>2 DEF Mails, MailOps
<1>6. CASE SendReset(r)
  <2> DEFINE p == [[Read EXCEPT !.row.token = fresh, !.listed = acts]
                    EXCEPT !.op = "sendReset", !.at = "find"]
  <2>1. request' = [request EXCEPT ![r] = p]
    BY <1>6 DEF SendReset, Start
  <2>2. DOMAIN Read = Fields
    BY <1>3 DEF Read
  <2>3. p.op = "sendReset" /\ p.at = "find" /\ p.listed = acts
    BY <2>2 DEF Fields
  <2> HIDE DEF p
  <2>4. QED
    BY <1>2, <2>1, <2>3 DEF Mails, MailOps
<1>7. QED
  BY <1>4, <1>5, <1>6

\* A request for something else leaves the activities and the mails alone.
LEMMA OthersLedger ==
  ASSUME Handlers, World, Alone, NEW r \in Requests, ~Mails(request[r]),
         \/ Activate(r) \/ Reset(r) \/ ChangePassword(r) \/ Rename(r) \/ Login(r) \/ Refresh(r)
         \/ GoogleLogin(r) \/ CheckExpiry(r) \/ ReadForChange(r) \/ SaveUser(r)
         \/ GoogleSignUp(r) \/ Sign(r) \/ Abort(r)
  PROVE  Alone'
<1> DEFINE q == request[r]
<1>1. q \in Request /\ DOMAIN q = Fields /\ HoldsRow(q)
  BY HandlersAre DEF Request, Fields
<1>2. ~Mails(Blank) /\ DOMAIN Blank = Fields
  BY DEF Mails, MailOps, Blank, Fields
<1>3. ASSUME Finish(r), UNCHANGED <<account, acts, mails>>
      PROVE  Alone'
  BY <1>2, <1>3, LedgerStands DEF Finish
<1>4. ASSUME NEW at, Goto(r, at), UNCHANGED <<acts, mails>>, account' = NoUser => account = NoUser
      PROVE  Alone'
  <2> DEFINE p == [q EXCEPT !.at = at]
  <2>1. p.op = q.op
    BY <1>1 DEF Fields
  <2> HIDE DEF p
  <2>2. ~Mails(p)
    BY <2>1 DEF Mails
  <2>3. request' = [request EXCEPT ![r] = p]
    BY <1>4 DEF Goto, p
  <2>4. QED
    BY <1>4, <2>2, <2>3, LedgerStands
<1>5. ASSUME NEW op \in RowOps \cup {"login", "refresh"}, NEW at, NEW z, Start(r, op, at, z),
             DOMAIN z = Fields
      PROVE  Alone'
  <2> DEFINE p == [z EXCEPT !.op = op, !.at = at]
  <2>1. request' = [request EXCEPT ![r] = p] /\ UNCHANGED <<account, acts, mails>>
    BY <1>5 DEF Start
  <2>2. p.op = op
    BY <1>5 DEF Fields
  <2> HIDE DEF p
  <2>3. ~Mails(p)
    BY <2>2 DEF Mails, MailOps, RowOps
  <2>4. QED
    BY <2>1, <2>3, LedgerStands
<1>6. DOMAIN Read = Fields
  BY <1>2 DEF Read
<1>7. CASE Activate(r) \/ Rename(r) \/ Login(r)
  BY <1>5, <1>6, <1>7 DEF Activate, Rename, Login, RowOps
<1>8. CASE Reset(r)
  <2> DEFINE z == [Read EXCEPT !.row.password = fresh, !.row.token = None,
                               !.row.provider = "password"]
  <2>1. Start(r, "reset", "expiry", z)
    BY <1>8 DEF Reset
  <2>2. DOMAIN z = Fields
    BY <1>6
  <2> HIDE DEF z
  <2>3. QED
    BY <1>5, <2>1, <2>2 DEF RowOps
<1>9. CASE ChangePassword(r)
  BY <1>2, <1>5, <1>9 DEF ChangePassword, RowOps
<1>10. CASE Refresh(r)
  <2>1. PICK s \in sessions : Start(r, "refresh", "sign", [Read EXCEPT !.raced = s.raced])
    BY <1>10 DEF Refresh
  <2>2. DOMAIN [Read EXCEPT !.raced = s.raced] = Fields
    BY <1>6
  <2>3. QED
    BY <1>5, <2>1, <2>2
<1>11. CASE GoogleLogin(r)
  BY <1>2, <1>5, <1>6, <1>11 DEF GoogleLogin, RowOps
<1>12. CASE CheckExpiry(r)
  <2>1. UNCHANGED <<account, acts, mails>> /\ (Finish(r) \/ Goto(r, "saveUser"))
    BY <1>12 DEF CheckExpiry
  <2>2. QED
    BY <1>3, <1>4, <2>1
<1>13. CASE ReadForChange(r)
  <2> DEFINE u == [account EXCEPT !.password = q.secret, !.provider = "password"]
             p == [q EXCEPT !.at = "saveUser", !.secret = None, !.row = u]
  <2>1. UNCHANGED <<account, acts, mails>> /\ (Finish(r) \/ request' = [request EXCEPT ![r] = p])
    BY <1>13 DEF ReadForChange, Handlers
  <2> HIDE DEF u
  <2>2. p.op = q.op
    BY <1>1 DEF Fields
  <2> HIDE DEF p
  <2>3. ~Mails(p)
    BY <2>2 DEF Mails
  <2>4. QED
    BY <1>3, <2>1, <2>3, LedgerStands
<1>14. CASE SaveUser(r)
  <2>1. /\ account' = [q.row EXCEPT !.required = Required(q.op, q.row)] /\ UNCHANGED mails
        /\ acts' = IF q.op = "sendReset" THEN Cascade(q.listed) ELSE acts
        /\ IF AfterSave(q.op) = "idle" THEN Finish(r) ELSE Goto(r, AfterSave(q.op))
        /\ q.at = "saveUser"
    BY <1>14 DEF SaveUser
  <2>2. q.op # "sendReset" /\ Coded(q.row)
    BY <1>1, <2>1 DEF Mails, MailOps, HoldsRow, Rowed
  <2>3. Required(q.op, q.row) \in Time
    BY <2>2, Facts DEF Required, Coded, User
  <2>4. account' \in User
    BY <2>1, <2>2, <2>3, RowsMade DEF Coded
  <2>5. account' # NoUser /\ UNCHANGED acts
    BY <2>1, <2>2, <2>4, NoUserIsNoRow
  <2>6. CASE AfterSave(q.op) = "idle"
    BY <1>2, <2>1, <2>5, <2>6, LedgerStands DEF Finish
  <2>7. CASE AfterSave(q.op) # "idle"
    BY <1>4, <2>1, <2>5, <2>7
  <2>8. QED
    BY <2>6, <2>7
<1>15. CASE GoogleSignUp(r)
  <2> DEFINE p == [q EXCEPT !.at = "sign", !.row = GoogleUser]
  <2>1. UNCHANGED <<acts, mails>> /\ \/ Finish(r) /\ UNCHANGED account
                                     \/ account = NoUser /\ request' = [request EXCEPT ![r] = p]
    BY <1>15 DEF GoogleSignUp, Handlers
  <2>2. p.op = q.op
    BY <1>1 DEF Fields
  <2> HIDE DEF p
  <2>3. ~Mails(p)
    BY <2>2 DEF Mails
  <2>4. QED
    BY <1>3, <2>1, <2>3, LedgerStands
<1>16. CASE Sign(r) \/ Abort(r)
  BY <1>3, <1>16 DEF Sign, Abort
<1>17. QED
  BY <1>7, <1>8, <1>9, <1>10, <1>11, <1>12, <1>13, <1>14, <1>15, <1>16

AloneUndisturbed == ~disturbed => Alone

LEMMA AloneInductive ==
  World /\ Handlers /\ World' /\ Handlers' /\ AloneUndisturbed /\ [Next]_vars => AloneUndisturbed'
<1> SUFFICES ASSUME World, Handlers, World', Handlers', AloneUndisturbed, [Next]_vars, ~disturbed'
             PROVE  Alone'
  BY DEF AloneUndisturbed
<1>1. disturbed \in BOOLEAN
  BY DEF World
<1>2. CASE Tick \/ UNCHANGED vars
  <2>1. UNCHANGED <<account, acts, mails, request, disturbed>>
    BY <1>2 DEF Tick, vars
  <2>2. QED
    BY <2>1 DEF Alone, AloneUndisturbed
<1>3. ASSUME NEW r \in Requests, Step(r)
      PROVE  Alone'
  <2>1. CASE Register(r) \/ Resend(r) \/ SendReset(r)
    <3>1. (\A s \in Requests : ~Mails(request[s])) /\ ~disturbed
      BY <2>1 DEF Register, Resend, SendReset, Start, MailOps, Mails
    <3>2. QED
      BY <2>1, <3>1, MailsBegin DEF AloneUndisturbed
  <2>2. CASE InsertUser(r) \/ Commit(r) \/ FindActivity(r) \/ CreateActivity(r) \/ QueueMail(r)
             \/ SaveActivity(r)
    <3>1. UNCHANGED disturbed
      BY <2>2 DEF InsertUser, Commit, FindActivity, CreateActivity, QueueMail, SaveActivity
    <3>2. QED
      BY <2>2, <3>1, InsertLedger, CommitLedger, FindLedger, CreateLedger, QueueLedger,
         SaveActivityLedger DEF AloneUndisturbed
  <2>3. CASE SaveUser(r) /\ request[r].op = "sendReset"
    <3>1. UNCHANGED disturbed
      BY <2>3 DEF SaveUser
    <3>2. QED
      BY <2>3, <3>1, CascadeLedger DEF AloneUndisturbed
  <2>4. CASE Activate(r) \/ Reset(r) \/ ChangePassword(r) \/ Rename(r) \/ Login(r) \/ Refresh(r)
             \/ GoogleLogin(r) \/ CheckExpiry(r) \/ ReadForChange(r)
             \/ (SaveUser(r) /\ request[r].op # "sendReset")
             \/ GoogleSignUp(r) \/ Sign(r) \/ Abort(r)
    <3>1. ~disturbed
      BY <2>4 DEF Activate, Reset, ChangePassword, Rename, Login, Refresh, GoogleLogin, Start,
         CheckExpiry, ReadForChange, SaveUser, GoogleSignUp, Sign, Abort
    <3>2. ~Mails(request[r])
      <4>1. ASSUME Starts(r) PROVE request[r] = Blank
        BY <4>1 DEF Starts, Register, Activate, Resend, SendReset, Reset, ChangePassword, Rename,
           Login, Refresh, GoogleLogin, Start
      <4>2. ~Mails(Blank)
        BY DEF Mails, MailOps, Blank
      <4>3. CASE Abort(r)
        BY <4>3 DEF Abort, Mails
      <4>4. CASE CheckExpiry(r) \/ ReadForChange(r) \/ GoogleSignUp(r) \/ Sign(r)
                 \/ (SaveUser(r) /\ request[r].op # "sendReset")
        BY <4>4, HandlersAre DEF CheckExpiry, ReadForChange, GoogleSignUp, Sign, SaveUser, HoldsRow,
           Staged, Mails, MailOps
      <4>5. QED
        BY <2>4, <4>1, <4>2, <4>3, <4>4 DEF Starts
    <3>3. QED
      BY <2>4, <3>1, <3>2, OthersLedger DEF AloneUndisturbed
  <2>5. QED
    BY <1>3, <2>1, <2>2, <2>3, <2>4 DEF Step
<1>4. QED
  BY <1>2, <1>3 DEF Next, Quiet

\* As long as no two requests for mails of the account overlap and none dies,
\* two mails of a kind are five minutes apart and at most five go out in a day:
\* the only activity of the kind, or the request that is about to save it,
\* tells of all of them, over midnight, and while an activity has lost its user
\* in the cascade of the save.
THEOREM MailLimitKept == Spec => []MailLimitHoldsAlone
<1>1. Init => World /\ Handlers /\ AloneUndisturbed
  <2> SUFFICES ASSUME Init PROVE Alone
    BY HandlersBegin DEF AloneUndisturbed
  <2>1. Blank.op = "none" /\ ~Mails(Blank)
    BY DEF Blank, Mails, MailOps
  <2>2. Activities(Blank, <<>>, <<>>)
    BY DEF Activities
  <2>3. Holder(Blank, <<>>, <<>>)
    BY <2>1 DEF Holder, Charged, Mails
  <2>4. Ledger(Blank, <<>>, <<>>, NoUser)
    BY <2>2, <2>3 DEF Ledger, Spaced, Limited
  <2>5. QED
    BY <2>1, <2>4 DEF Alone, Init
<1>2. World /\ Handlers /\ AloneUndisturbed /\ [Next]_vars => World' /\ Handlers' /\ AloneUndisturbed'
  BY HandlersInductive, AloneInductive
<1>3. World /\ Handlers /\ AloneUndisturbed => MailLimitHoldsAlone
  <2> SUFFICES ASSUME World, Handlers, Alone PROVE MailLimitHolds
    BY DEF AloneUndisturbed, MailLimitHoldsAlone
  <2>1. Spaced(mails) /\ Limited(mails)
    BY DEF Alone, Ledger
  <2>2. ASSUME NEW i \in DOMAIN mails, NEW j \in DOMAIN mails, mails[i].kind = mails[j].kind
        PROVE  /\ i < j => mails[j].time - mails[i].time >= Gap
               /\ Cardinality({k \in DOMAIN mails : /\ mails[k].kind = mails[i].kind
                                                   /\ mails[k].time \div Day = mails[i].time \div Day})
                    <= MaxPerDay
    BY <2>1, <2>2 DEF Spaced, Limited, Sent
  <2>3. QED
    BY <2>2 DEF MailLimitHolds
<1>4. QED
  BY <1>1, <1>2, <1>3, PTL DEF Spec

=============================================================================
