------------------------------ MODULE Accounts ------------------------------
(***************************************************************************)
(* Accounts (routes/auth.js, account.js, recovery.js, webauthn.js,         *)
(* middleware/auth.js, lib/emailVerification.js): passwords and their      *)
(* generations, the lockout, sessions and sockets, the second factor, and  *)
(* the links that are mailed to attach an address or reset a password.     *)
(*                                                                         *)
(* A database statement is one step, together with what the handler does   *)
(* until the next one: Argon2 runs between two statements and changes      *)
(* nothing.  The statement of a transaction that precedes its COMMIT is    *)
(* one step with it.  A password is the number of the reset that set it;   *)
(* a link that expires is a link that nobody follows.                      *)
(***************************************************************************)
EXTENDS Naturals, FiniteSets

CONSTANTS
    Account,    \* usernames, and the accounts they name
    Address,    \* email addresses
    Token,      \* the links that may be mailed
    Request,    \* HTTP requests in flight at a time
    None,       \* NULL
    Registered, \* accounts that have a row when a behaviour starts
    Legacy,     \* those of them whose username_hash is the bare sha256
    Attached,   \* Attached[u]: the verified address of an account, or None, then
    MaxFailures,\* config.auth.maxFailures
    MaxPw,      \* bound on the password of an account
    MaxStarted, \* bound on the requests of a behaviour
    Routes,     \* bound: the entry points that are called, of AllRoutes
    Faults      \* bound: {"throw"} if handlers may throw half-way

AllRoutes == {"register", "login", "2fa", "factor", "email", "detach", "verify",
              "recovery", "reset"}

ASSUME ConstantsAssumption ==
    /\ IsFiniteSet(Request) /\ IsFiniteSet(Token)
    /\ None \notin Account \cup Address \cup Token
    /\ Registered \subseteq Account /\ Legacy \subseteq Registered
    /\ Attached \in [Account -> Address \cup {None}]
    /\ \A u, v \in Account :
        /\ Attached[u] # None => u \in Registered
        /\ Attached[u] # None /\ Attached[u] = Attached[v] => u = v
    /\ MaxFailures \in Nat \ {0} /\ MaxPw \in Nat \ {0} /\ MaxStarted \in Nat
    /\ Routes \subseteq AllRoutes /\ Faults \subseteq {"throw"}

VARIABLES
    \* users
    pw,         \* the password pw_hash verifies, 0 for no row
    epoch,      \* token_epoch
    legacy,     \* username_hash_legacy
    email,      \* the verified address
    \* login_attempts, webauthn_credentials, email_tokens
    failures,
    locked,     \* locked_until is in the future
    factor,     \* the account has an authenticator
    tok,
    \* the Node process
    req,        \* request handlers
    started,    \* how many were started
    \* what clients hold
    sessions,   \* tokens of signToken
    challenges, \* accounts with a challenge token of a login that waits for its second factor
    \* history, read by no action
    uses,       \* how often following a link had its effect
    misses      \* wrong passwords that were tried since the account was last open

users == <<pw, epoch, legacy, email>>
reqs  == <<req, started>>
held  == <<sessions, challenges>>
hist  == <<uses, misses>>
vars  == <<users, failures, locked, factor, tok, reqs, held, hist>>

Password == 0..MaxPw
TokenRow == [state : {"unused", "live", "used", "gone"}, user : Account \cup {None},
             purpose : {"verify", "reset"}, addr : Address \cup {None}]
NoToken == [state |-> "unused", user |-> None, purpose |-> "verify", addr |-> None]

Idle == [pc |-> "idle", user |-> None, pass |-> 0, read |-> 0, epoch |-> 0,
         old |-> FALSE, route |-> "login", addr |-> None, tok |-> None]

\* A session.  User and epoch are in the token; proof is the password it was given
\* for, 0 if it was given for a second factor.
Session(u, e, p) == [user |-> u, epoch |-> e, proof |-> p]

Init ==
    /\ pw = [u \in Account |-> IF u \in Registered THEN 1 ELSE 0]
    /\ epoch = [u \in Account |-> 0]
    /\ legacy = [u \in Account |-> u \in Legacy]
    /\ email = Attached
    /\ failures = [u \in Account |-> 0]
    /\ locked = [u \in Account |-> FALSE]
    /\ factor = [u \in Account |-> FALSE]
    /\ tok = [t \in Token |-> NoToken]
    /\ req = [r \in Request |-> Idle] /\ started = 0
    /\ sessions = {} /\ challenges = {}
    /\ uses = [t \in Token |-> 0]
    /\ misses = [u \in Account |-> 0]

---------------------------------------------------------------------------
Exists(u) == pw[u] # 0

Start(r, route, q) == /\ route \in Routes
                      /\ req[r] = Idle
                      /\ started < MaxStarted /\ started' = started + 1
                      /\ req' = [req EXCEPT ![r] = q]
\* A handler goes on with state q.
Continue(r, q) == req' = [req EXCEPT ![r] = q] /\ UNCHANGED started
Goto(r, pc) == Continue(r, [req[r] EXCEPT !.pc = pc])
End(r) == Continue(r, Idle)

Mint(s) == sessions' = sessions \cup {s}
\* The handler is over; that of a registration answers with a session.
Finish(r) ==
    /\ End(r)
    /\ IF req[r].route = "register"
       THEN Mint(Session(req[r].user, req[r].epoch, req[r].read))
       ELSE UNCHANGED sessions

---------------------------------------------------------------------------
(* findUser, of POST /register and POST /login                             *)

\* Mutant: the HMAC alone.
Generations_New == {FALSE}
\* The HMAC, and then the bare hash of a row that is not upgraded yet.
Generations == {FALSE, TRUE}

\* Where each route goes on without a row.
Absent(q) == IF q.route = "login" THEN "verify"
             ELSE IF q.addr # None THEN "address" ELSE "insert"

\* The row of a generation, with all that is read of it.  A registration ends at it.
Find(r, old) ==
    LET q == req[r]
        u == q.user
    IN  /\ q.pc = (IF old THEN "findLegacy" ELSE "find")
        /\ IF Exists(u) /\ legacy[u] = old
           THEN IF q.route = "register" THEN End(r)
                ELSE Continue(r, [q EXCEPT !.pc = "verify", !.read = pw[u],
                                           !.epoch = epoch[u], !.old = old])
           ELSE Goto(r, IF ~old /\ TRUE \in Generations THEN "findLegacy" ELSE Absent(q))
        /\ UNCHANGED <<users, failures, locked, factor, tok, held, hist>>

---------------------------------------------------------------------------
(* POST /register                                                          *)

StartRegister(r, u, a) ==
    /\ Start(r, "register", [Idle EXCEPT !.pc = "find", !.user = u, !.route = "register",
                                        !.addr = a])
    /\ UNCHANGED <<users, failures, locked, factor, tok, held, hist>>

CheckAddress(r) ==
    /\ req[r].pc = "address"
    /\ IF \E u \in Account : email[u] = req[r].addr THEN End(r) ELSE Goto(r, "insert")
    /\ UNCHANGED <<users, failures, locked, factor, tok, held, hist>>

\* ON CONFLICT (username_hash) DO NOTHING, and the row of the old generation has
\* another hash.
Conflict(u) == Exists(u) /\ ~legacy[u]

InsertUser(r) ==
    LET q == req[r] IN
    /\ q.pc = "insert"
    /\ IF Conflict(q.user)
       THEN End(r) /\ UNCHANGED <<pw, sessions>>
       ELSE /\ pw' = [pw EXCEPT ![q.user] = 1]
            /\ IF q.addr # None
               THEN /\ Continue(r, [q EXCEPT !.pc = "taken", !.read = 1])
                    /\ UNCHANGED sessions
               ELSE End(r) /\ Mint(Session(q.user, 0, 1))
    /\ UNCHANGED <<epoch, legacy, email, failures, locked, factor, tok, challenges, hist>>

---------------------------------------------------------------------------
(* POST /login                                                             *)

\* checkLockout.
Open(u) == ~locked[u]

\* Someone logs in as u with password p.
StartLogin(r, u, p) ==
    /\ Open(u)
    /\ Start(r, "login", [Idle EXCEPT !.pc = "find", !.user = u, !.pass = p])
    /\ UNCHANGED <<users, failures, locked, factor, tok, held, hist>>

\* Argon2 against the row that was read, or against the dummy.
Verifies(q) == q.read # 0 /\ q.pass = q.read

\* Mutant: the account is locked by the failure after the last.
Full_OffByOne(n) == n > MaxFailures
Full(n) == n >= MaxFailures

\* recordFailure.  Counts above MaxFailures are not told apart.
RecordFailure(r) ==
    LET u == req[r].user IN
    /\ req[r].pc = "verify" /\ ~Verifies(req[r])
    /\ failures' = [failures EXCEPT ![u] = IF @ > MaxFailures THEN @ ELSE @ + 1]
    /\ locked' = [locked EXCEPT ![u] = @ \/ Full(failures[u] + 1)]
    /\ misses' = [misses EXCEPT ![u] = @ + 1]
    /\ End(r)
    /\ UNCHANGED <<users, factor, tok, held, uses>>

\* clearFailures.
ClearFailures(r) ==
    LET u == req[r].user IN
    /\ req[r].pc = "verify" /\ Verifies(req[r])
    /\ failures' = [failures EXCEPT ![u] = 0]
    /\ locked' = [locked EXCEPT ![u] = FALSE]
    /\ misses' = [misses EXCEPT ![u] = 0]
    /\ Goto(r, IF req[r].old THEN "upgrade" ELSE "creds")
    /\ UNCHANGED <<users, factor, tok, held, uses>>

\* upgradeUsernameHash.
UpgradeHash(r) ==
    /\ req[r].pc = "upgrade"
    /\ legacy' = [legacy EXCEPT ![req[r].user] = FALSE]
    /\ Goto(r, "creds")
    /\ UNCHANGED <<pw, epoch, email, failures, locked, factor, tok, held, hist>>

\* Mutant: the token is signed for the epoch of the moment.
SignedEpoch_Now(q) == epoch[q.user]
\* The epoch that was read with the password hash.
SignedEpoch(q) == q.epoch

\* The credentials decide between a session and a challenge.
AnswerLogin(r) ==
    LET q == req[r] IN
    /\ q.pc = "creds"
    /\ IF factor[q.user]
       THEN /\ challenges' = challenges \cup {q.user}
            /\ UNCHANGED sessions
       ELSE /\ Mint(Session(q.user, SignedEpoch(q), q.read))
            /\ UNCHANGED challenges
    /\ End(r)
    /\ UNCHANGED <<users, failures, locked, factor, tok, hist>>

---------------------------------------------------------------------------
(* POST /login/2fa: the credential, its counter, and then the user.        *)

StartSecond(r, u) ==
    /\ u \in challenges /\ factor[u]
    /\ Start(r, "2fa", [Idle EXCEPT !.pc = "second", !.user = u, !.route = "2fa"])
    /\ UNCHANGED <<users, failures, locked, factor, tok, held, hist>>

AnswerSecond(r) ==
    LET q == req[r] IN
    /\ q.pc = "second"
    /\ Mint(Session(q.user, epoch[q.user], 0))
    /\ End(r)
    /\ UNCHANGED <<users, failures, locked, factor, tok, challenges, hist>>

---------------------------------------------------------------------------
(* requireAuth, and the routes behind it                                   *)

\* epochValid.
Admitted(s) == s \in sessions /\ s.epoch = epoch[s.user]

\* Enrolling or removing an authenticator.
StartFactor(r, s) ==
    /\ Admitted(s)
    /\ Start(r, "factor", [Idle EXCEPT !.pc = "factor", !.user = s.user, !.route = "factor"])
    /\ UNCHANGED <<users, failures, locked, factor, tok, held, hist>>

ChangeFactor(r) ==
    /\ req[r].pc = "factor"
    /\ \E has \in BOOLEAN : factor' = [factor EXCEPT ![req[r].user] = has]
    /\ End(r)
    /\ UNCHANGED <<users, failures, locked, tok, held, hist>>

\* POST and DELETE /email: the password is asked for again.
StartEmail(r, s, route, p, a) ==
    /\ Admitted(s)
    /\ route \in {"email", "detach"}
    /\ Start(r, route, [Idle EXCEPT !.pc = "prove", !.user = s.user, !.pass = p,
                                    !.route = route, !.addr = a])
    /\ UNCHANGED <<users, failures, locked, factor, tok, held, hist>>

ProvePassword(r) ==
    LET q == req[r] IN
    /\ q.pc = "prove"
    /\ IF q.pass # pw[q.user] THEN End(r)
       ELSE Goto(r, IF q.route = "email" THEN "taken" ELSE "detach")
    /\ UNCHANGED <<users, failures, locked, factor, tok, held, hist>>

---------------------------------------------------------------------------
(* startEmailVerification, and the same two statements of POST /request.   *)

CheckTaken(r) ==
    LET q == req[r] IN
    /\ q.pc = "taken"
    /\ IF \E v \in Account \ {q.user} : email[v] = q.addr
       THEN Finish(r)
       ELSE Goto(r, "supersede") /\ UNCHANGED sessions
    /\ UNCHANGED <<users, failures, locked, factor, tok, challenges, hist>>

Purpose(q) == IF q.route = "recovery" THEN "reset" ELSE "verify"
LiveLinks(u, purpose) ==
    {t \in Token : tok[t].state = "live" /\ tok[t].user = u /\ tok[t].purpose = purpose}
\* A transaction that has claimed a token holds its row until it ends.
Claimed(t) == \E r \in Request : req[r].tok = t

\* Mutant: the earlier links stay armed.
Superseded_None(u, purpose) == {}
\* DELETE ... WHERE consumed_at IS NULL.
Superseded(u, purpose) == LiveLinks(u, purpose)

\* It waits for the rows that are claimed.
Supersede(r) ==
    LET q == req[r]
        old == Superseded(q.user, Purpose(q))
    IN  /\ q.pc = "supersede"
        /\ \A t \in old : ~Claimed(t)
        /\ tok' = [t \in Token |-> IF t \in old THEN [tok[t] EXCEPT !.state = "gone"]
                                   ELSE tok[t]]
        /\ Goto(r, "issue")
        /\ UNCHANGED <<users, failures, locked, factor, held, hist>>

\* The INSERT, and the mail.
IssueLink(r) ==
    LET q == req[r] IN
    /\ q.pc = "issue"
    /\ \E t \in Token :
        /\ tok[t].state = "unused"
        /\ tok' = [tok EXCEPT ![t] = [state |-> "live", user |-> q.user,
                                      purpose |-> Purpose(q), addr |-> q.addr]]
    /\ Finish(r)
    /\ UNCHANGED <<users, failures, locked, factor, challenges, hist>>

\* POST /recovery/request, for an address that is attached.
StartRecovery(r, u) ==
    /\ email[u] # None
    /\ Start(r, "recovery", [Idle EXCEPT !.pc = "supersede", !.user = u, !.route = "recovery"])
    /\ UNCHANGED <<users, failures, locked, factor, tok, held, hist>>

---------------------------------------------------------------------------
(* Following a link: POST /email/verify and POST /recovery/reset.          *)

\* Mutant: a SELECT, and the token is marked later.
Free_Unlocked(t) == TRUE
\* The UPDATE ... RETURNING that claims it waits for another that has claimed it.
Free(t) == ~Claimed(t)

Claim(r, t, purpose) ==
    /\ tok[t].state = "live" /\ tok[t].purpose = purpose
    /\ Free(t)
    /\ Start(r, IF purpose = "verify" THEN "verify" ELSE "reset",
             [Idle EXCEPT !.pc = IF purpose = "verify" THEN "attach" ELSE "reset",
                          !.route = IF purpose = "verify" THEN "verify" ELSE "reset",
                          !.user = tok[t].user, !.addr = tok[t].addr, !.tok = t])
    /\ UNCHANGED <<users, failures, locked, factor, tok, held, hist>>

\* Mutant: the index on email_hash is not unique.
Attachable_ByAnyone(u, a) == TRUE
\* users_email_hash_idx.
Attachable(u, a) == \A v \in Account \ {u} : email[v] # a

\* The UPDATE of users, and COMMIT; a violation of the index rolls back the claim.
AttachEmail(r) ==
    LET q == req[r] IN
    /\ q.pc = "attach"
    /\ IF Attachable(q.user, q.addr)
       THEN /\ email' = [email EXCEPT ![q.user] = q.addr]
            /\ tok' = [tok EXCEPT ![q.tok].state = "used"]
            /\ uses' = [uses EXCEPT ![q.tok] = @ + 1]
       ELSE UNCHANGED <<email, tok, uses>>
    /\ End(r)
    /\ UNCHANGED <<pw, epoch, legacy, failures, locked, factor, held, misses>>

NextEpoch(u) == epoch[u] + 1

\* The new password, its epoch, and the end of the lockout; which is kept under the
\* HMAC of the name, and looked for under the hash of the row.
ResetPassword(r) ==
    LET q == req[r]
        u == q.user
    IN  /\ q.pc = "reset" /\ pw[u] < MaxPw
        /\ pw' = [pw EXCEPT ![u] = @ + 1]
        /\ epoch' = [epoch EXCEPT ![u] = NextEpoch(u)]
        /\ failures' = IF legacy[u] THEN failures ELSE [failures EXCEPT ![u] = 0]
        /\ locked' = IF legacy[u] THEN locked ELSE [locked EXCEPT ![u] = FALSE]
        /\ misses' = IF legacy[u] THEN misses ELSE [misses EXCEPT ![u] = 0]
        /\ tok' = [tok EXCEPT ![q.tok].state = "used"]
        /\ uses' = [uses EXCEPT ![q.tok] = @ + 1]
        /\ Continue(r, [q EXCEPT !.pc = "answer", !.read = pw[u] + 1,
                                 !.epoch = NextEpoch(u), !.tok = None])
        /\ UNCHANGED <<legacy, email, factor, held>>

\* The new session.
AnswerReset(r) ==
    LET q == req[r] IN
    /\ q.pc = "answer"
    /\ Mint(Session(q.user, q.epoch, q.read))
    /\ End(r)
    /\ UNCHANGED <<users, failures, locked, factor, tok, challenges, hist>>

---------------------------------------------------------------------------
(* DELETE /email                                                           *)

DetachEmail(r) ==
    /\ req[r].pc = "detach"
    /\ email' = [email EXCEPT ![req[r].user] = None]
    /\ Goto(r, "forget")
    /\ UNCHANGED <<pw, epoch, legacy, failures, locked, factor, tok, held, hist>>

\* Every token of the user goes, once the transactions that have claimed one are over.
ForgetLinks(r) ==
    LET all == {t \in Token : tok[t].user = req[r].user} IN
    /\ req[r].pc = "forget"
    /\ \A t \in all : ~Claimed(t)
    /\ tok' = [t \in Token |-> IF t \in all THEN [tok[t] EXCEPT !.state = "gone"] ELSE tok[t]]
    /\ End(r)
    /\ UNCHANGED <<users, failures, locked, factor, held, hist>>

---------------------------------------------------------------------------
(* Time and faults                                                         *)

\* locked_until passes.  The count of failures stays.
Unlock(u) ==
    /\ locked[u]
    /\ locked' = [locked EXCEPT ![u] = FALSE]
    /\ misses' = [misses EXCEPT ![u] = 0]
    /\ UNCHANGED <<users, failures, factor, tok, reqs, held, uses>>

\* A statement rejects: the transaction rolls back, and the answer is an error.  A
\* login goes on without the upgrade, a registration without the verification.
Throw(r) ==
    /\ "throw" \in Faults
    /\ req[r].pc \notin {"idle", "answer"}
    /\ CASE req[r].pc = "upgrade" -> Goto(r, "creds") /\ UNCHANGED sessions
         [] req[r].pc \in {"taken", "supersede", "issue"} -> Finish(r)
         [] OTHER -> End(r) /\ UNCHANGED sessions
    /\ UNCHANGED <<users, failures, locked, factor, tok, challenges, hist>>

Next ==
    \/ \E r \in Request, u \in Account, a \in Address \cup {None} : StartRegister(r, u, a)
    \/ \E r \in Request : InsertUser(r)
    \/ \E r \in Request, u \in Account, p \in 1..MaxPw : StartLogin(r, u, p)
    \/ \E r \in Request : Find(r, FALSE)
    \/ \E r \in Request : Find(r, TRUE)
    \/ \E r \in Request : CheckAddress(r)
    \/ \E r \in Request : RecordFailure(r)
    \/ \E r \in Request : ClearFailures(r)
    \/ \E r \in Request : UpgradeHash(r)
    \/ \E r \in Request : AnswerLogin(r)
    \/ \E r \in Request : \E u \in challenges : StartSecond(r, u)
    \/ \E r \in Request : AnswerSecond(r)
    \/ \E r \in Request : \E s \in sessions : StartFactor(r, s)
    \/ \E r \in Request : ChangeFactor(r)
    \/ \E r \in Request, p \in 1..MaxPw, a \in Address : \E s \in sessions :
            StartEmail(r, s, "email", p, a)
    \/ \E r \in Request, p \in 1..MaxPw : \E s \in sessions :
            StartEmail(r, s, "detach", p, None)
    \/ \E r \in Request : ProvePassword(r)
    \/ \E r \in Request : CheckTaken(r)
    \/ \E r \in Request : Supersede(r)
    \/ \E r \in Request : IssueLink(r)
    \/ \E r \in Request, u \in Account : StartRecovery(r, u)
    \/ \E r \in Request, t \in Token : Claim(r, t, "verify")
    \/ \E r \in Request, t \in Token : Claim(r, t, "reset")
    \/ \E r \in Request : AttachEmail(r)
    \/ \E r \in Request : ResetPassword(r)
    \/ \E r \in Request : AnswerReset(r)
    \/ \E r \in Request : DetachEmail(r)
    \/ \E r \in Request : ForgetLinks(r)
    \/ \E u \in Account : Unlock(u)
    \/ \E r \in Request : Throw(r)

Spec == Init /\ [][Next]_vars


---------------------------------------------------------------------------
(* Properties                                                              *)

Pc == {"idle", "find", "findLegacy", "address", "insert", "verify", "upgrade", "creds",
       "second", "factor", "prove", "taken", "supersede", "issue", "attach", "reset",
       "answer", "detach", "forget"}
Handler == [pc : Pc, user : Account \cup {None}, pass : Password, read : Password, epoch : Nat,
            old : BOOLEAN, route : AllRoutes, addr : Address \cup {None},
            tok : Token \cup {None}]

\* Every variable has its type.
TypeOK ==
    /\ pw \in [Account -> Password] /\ epoch \in [Account -> Nat]
    /\ legacy \in [Account -> BOOLEAN] /\ email \in [Account -> Address \cup {None}]
    /\ failures \in [Account -> 0..(MaxFailures + 1)] /\ locked \in [Account -> BOOLEAN]
    /\ factor \in [Account -> BOOLEAN]
    /\ tok \in [Token -> TokenRow]
    /\ \A t \in Token : tok[t].state = "live" => tok[t].user \in Account
    /\ req \in [Request -> Handler] /\ started \in Nat
    /\ \A r \in Request : req[r].pc # "idle" => req[r].user \in Account
    /\ sessions \subseteq [user : Account, epoch : Nat, proof : Password]
    /\ challenges \subseteq Account
    /\ uses \in [Token -> Nat] /\ misses \in [Account -> Nat]

\* A registration never inserts a second row for a name whose first row is still kept
\* under the old hash, which ON CONFLICT would not see: findUser and the upgrade of a
\* login may run between each other (POST /register, findUser, upgradeUsernameHash).
OneRowPerName ==
    \A r \in Request : req[r].pc = "insert" => ~(Exists(req[r].user) /\ legacy[req[r].user])

\* An address is attached to one account at most, however many accounts passed the
\* check and followed their links at once (startEmailVerification, POST /email/verify).
OneOwnerPerAddress ==
    \A u, v \in Account : email[u] # None /\ email[u] = email[v] => u = v

\* A link has its effect once, although two requests follow it at once, one of them
\* fails and is sent again, or another request deletes it (POST /email/verify, /reset).
LinkWorksOnce == \A t \in Token : uses[t] <= 1

\* A session of the present generation was given to someone who knew the present
\* password, or asked for a second factor: a login that was on its way when the
\* password was reset gets a session that requireAuth refuses (signToken, epochValid).
SessionMatchesPassword ==
    \A s \in sessions : s.epoch = epoch[s.user] => s.proof \in {0, pw[s.user]}

\* Between two openings of an account no more passwords are tried than maxFailures and
\* the requests that had passed checkLockout when the last of them was recorded,
\* whichever hash the row is kept under and whoever logs in or resets meanwhile.
LockoutHolds ==
    \A u \in Account : misses[u] <= MaxFailures - 1 + Cardinality(Request)

Issuing(u, purpose) ==
    {r \in Request : req[r].pc = "issue" /\ req[r].user = u /\ Purpose(req[r]) = purpose}

\* An account has no more links of a purpose that work than there are requests at a
\* time: a new link ends the earlier ones, except those that are being issued with it.
LinksAreFew ==
    \A u \in Account, purpose \in {"verify", "reset"} :
        Cardinality(LiveLinks(u, purpose)) + Cardinality(Issuing(u, purpose))
            <= Cardinality(Request)
=============================================================================
