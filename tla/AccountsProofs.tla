
--------------------------- MODULE AccountsProofs ---------------------------
(* Theorems about Accounts, for any accounts, addresses, links and requests. *)
EXTENDS Accounts, TLAPS, FiniteSetTheorems

---------------------------------------------------------------------------
(* Handlers                                                                *)

\* A handler that starts or goes on leaves the others alone.
LEMMA StartEffect ==
    ASSUME TypeOK, NEW r \in Request, NEW route, NEW q \in Handler, q.user \in Account,
           Start(r, route, q)
    PROVE  /\ req[r] = Idle /\ req'[r] = q
           /\ \A x \in Request \ {r} : req'[x] = req[x]
           /\ req' \in [Request -> Handler] /\ started' \in Nat
           /\ \A x \in Request : req'[x].pc # "idle" => req'[x].user \in Account
BY DEF Start, TypeOK

LEMMA ContinueEffect ==
    ASSUME TypeOK, NEW r \in Request, NEW q \in Handler,
           q.pc # "idle" => q.user \in Account, Continue(r, q)
    PROVE  /\ req'[r] = q
           /\ \A x \in Request \ {r} : req'[x] = req[x]
           /\ req' \in [Request -> Handler] /\ started' \in Nat
           /\ \A x \in Request : req'[x].pc # "idle" => req'[x].user \in Account
BY DEF Continue, TypeOK

LEMMA IdleType == Idle \in Handler /\ Idle.pc = "idle"
BY ConstantsAssumption DEF Idle, Handler, Pc, Password, AllRoutes

LEMMA GotoEffect ==
    ASSUME TypeOK, NEW r \in Request, req[r].pc # "idle", NEW pc \in Pc, Goto(r, pc)
    PROVE  /\ req'[r] = [req[r] EXCEPT !.pc = pc]
           /\ \A x \in Request \ {r} : req'[x] = req[x]
           /\ req' \in [Request -> Handler] /\ started' \in Nat
           /\ \A x \in Request : req'[x].pc # "idle" => req'[x].user \in Account
<1>1. [req[r] EXCEPT !.pc = pc] \in Handler /\ req[r].user \in Account
    BY SMTT(30) DEF TypeOK, Handler
<1>2. [req[r] EXCEPT !.pc = pc].user = req[r].user
    BY DEF TypeOK, Handler
<1>3. QED
    BY <1>1, <1>2, ContinueEffect DEF Goto

LEMMA EndEffect ==
    ASSUME TypeOK, NEW r \in Request, End(r)
    PROVE  /\ req'[r] = Idle
           /\ \A x \in Request \ {r} : req'[x] = req[x]
           /\ req' \in [Request -> Handler] /\ started' \in Nat
           /\ \A x \in Request : req'[x].pc # "idle" => req'[x].user \in Account
BY IdleType, ContinueEffect DEF End

\* The sessions that handlers answer with are sessions.
LEMMA FinishEffect ==
    ASSUME TypeOK, NEW r \in Request, req[r].pc # "idle", Finish(r)
    PROVE  sessions' \subseteq [user : Account, epoch : Nat, proof : Password]
BY DEF Finish, Mint, Session, TypeOK, Handler

\* A link that changes its state is a link, and so are the others.
LEMMA LinkTypes ==
    ASSUME TypeOK, NEW T, NEW f,
           f = [t \in Token |-> IF t \in T THEN [tok[t] EXCEPT !.state = "gone"] ELSE tok[t]]
    PROVE  /\ f \in [Token -> TokenRow]
           /\ \A t \in Token : f[t].state = "live" => f[t].user \in Account
<1>1. ASSUME NEW t \in Token
      PROVE  /\ tok[t] \in TokenRow
             /\ [tok[t] EXCEPT !.state = "gone"] \in TokenRow
             /\ [tok[t] EXCEPT !.state = "gone"].state = "gone"
    BY DEF TypeOK, TokenRow
<1>2. QED
    BY <1>1 DEF TypeOK

LEMMA UseTypes ==
    ASSUME TypeOK, NEW x, NEW f, f = [tok EXCEPT ![x].state = "used"]
    PROVE  /\ f \in [Token -> TokenRow]
           /\ \A t \in Token : f[t].state = "live" => f[t].user \in Account
<1>1. ASSUME NEW t \in Token
      PROVE  /\ tok[t] \in TokenRow
             /\ [tok[t] EXCEPT !.state = "used"] \in TokenRow
             /\ [tok[t] EXCEPT !.state = "used"].state = "used"
    BY DEF TypeOK, TokenRow
<1>2. QED
    BY <1>1 DEF TypeOK

---------------------------------------------------------------------------
(* Type correctness                                                        *)

LEMMA TypeInit == Init => TypeOK
BY ConstantsAssumption, IdleType DEF Init, TypeOK, Password, NoToken, TokenRow

\* Every step keeps the types.
LEMMA TypeNext == TypeOK /\ [Next]_vars => TypeOK'
<1> SUFFICES ASSUME TypeOK, [Next]_vars PROVE TypeOK'
    OBVIOUS
<1>1. ASSUME NEW r \in Request, NEW u \in Account, NEW a \in Address \cup {None},
             StartRegister(r, u, a)
      PROVE  TypeOK'
    <2> DEFINE q == [Idle EXCEPT !.pc = "find", !.user = u, !.route = "register", !.addr = a]
    <2>1. q \in Handler /\ q.user \in Account
        BY IdleType DEF Handler, Pc, AllRoutes, Idle
    <2>2. QED
        BY <1>1, <2>1, StartEffect DEF StartRegister, TypeOK, users, held, hist
<1>2. ASSUME NEW r \in Request, InsertUser(r) PROVE TypeOK'
    <2> DEFINE q == [req[r] EXCEPT !.pc = "taken", !.read = 1]
    <2>1. 1 \in Password
        BY ConstantsAssumption DEF Password
    <2>2. req[r] \in Handler /\ req[r].user \in Account
        BY <1>2 DEF InsertUser, TypeOK
    <2>3. q \in Handler /\ req[r].user \in Account /\ q.user = req[r].user
        BY <2>1, <2>2 DEF Handler, Pc
    <2>4. pw' \in [Account -> Password]
        BY <1>2, <2>1, <2>3 DEF InsertUser, TypeOK
    <2>5. /\ req' \in [Request -> Handler] /\ started' \in Nat
          /\ \A x \in Request : req'[x].pc # "idle" => req'[x].user \in Account
        BY <1>2, <2>3, ContinueEffect, EndEffect DEF InsertUser
    <2>6. sessions' \subseteq [user : Account, epoch : Nat, proof : Password]
        BY <1>2, <2>1, <2>3 DEF InsertUser, Mint, Session, TypeOK
    <2>7. QED
        BY <1>2, <2>4, <2>5, <2>6 DEF InsertUser, TypeOK, hist
<1>3. ASSUME NEW r \in Request, NEW u \in Account, NEW p \in 1..MaxPw, StartLogin(r, u, p)
      PROVE  TypeOK'
    <2> DEFINE q == [Idle EXCEPT !.pc = "find", !.user = u, !.pass = p]
    <2>1. p \in Password
        BY ConstantsAssumption DEF Password
    <2>2. q \in Handler /\ q.user \in Account
        BY <2>1, IdleType DEF Handler, Pc, Idle
    <2>3. QED
        BY <1>3, <2>2, StartEffect DEF StartLogin, TypeOK, users, held, hist
<1>4. ASSUME NEW r \in Request, NEW old \in BOOLEAN, Find(r, old) PROVE TypeOK'
    <2> DEFINE u == req[r].user
               q == [req[r] EXCEPT !.pc = "verify", !.read = pw[u], !.epoch = epoch[u],
                                   !.old = old]
               n == IF ~old /\ TRUE \in Generations THEN "findLegacy" ELSE Absent(req[r])
    <2>1. req[r].pc # "idle" /\ u \in Account /\ req[r] \in Handler
        BY <1>4 DEF Find, TypeOK
    <2>2. q \in Handler /\ q.user = u /\ n \in Pc
        BY <2>1 DEF Handler, Pc, TypeOK, Absent
    <2>3. End(r) \/ Continue(r, q) \/ Goto(r, n)
        BY <1>4 DEF Find
    <2>4. /\ req' \in [Request -> Handler] /\ started' \in Nat
          /\ \A x \in Request : req'[x].pc # "idle" => req'[x].user \in Account
        BY <2>1, <2>2, <2>3, EndEffect, ContinueEffect, GotoEffect
    <2>5. QED
        BY <1>4, <2>4 DEF Find, TypeOK, users, held, hist
<1>5. ASSUME NEW r \in Request, CheckAddress(r) PROVE TypeOK'
    <2>1. "insert" \in Pc /\ req[r].pc # "idle"
        BY <1>5 DEF Pc, CheckAddress
    <2>2. QED
        BY <1>5, <2>1, EndEffect, GotoEffect DEF CheckAddress, TypeOK, users, held, hist
<1>6. ASSUME NEW r \in Request, RecordFailure(r) PROVE TypeOK'
    <2>1. req[r].user \in Account
        BY <1>6 DEF RecordFailure, TypeOK
    <2>2. failures' \in [Account -> 0..(MaxFailures + 1)] /\ misses' \in [Account -> Nat]
        BY <1>6, <2>1, ConstantsAssumption DEF RecordFailure, TypeOK
    <2>3. locked' \in [Account -> BOOLEAN]
        BY <1>6, <2>1 DEF RecordFailure, TypeOK, Full
    <2>4. QED
        BY <1>6, <2>2, <2>3, EndEffect DEF RecordFailure, TypeOK, users, held
<1>7. ASSUME NEW r \in Request, ClearFailures(r) PROVE TypeOK'
    <2>1. "upgrade" \in Pc /\ "creds" \in Pc /\ req[r].pc # "idle"
        BY <1>7 DEF Pc, ClearFailures
    <2>2. /\ req' \in [Request -> Handler] /\ started' \in Nat
          /\ \A x \in Request : req'[x].pc # "idle" => req'[x].user \in Account
        BY <1>7, <2>1, GotoEffect DEF ClearFailures
    <2>3. QED
        BY <1>7, <2>2, ConstantsAssumption DEF ClearFailures, TypeOK, users, held
<1>8. ASSUME NEW r \in Request, UpgradeHash(r) PROVE TypeOK'
    <2>1. "creds" \in Pc /\ req[r].pc # "idle"
        BY <1>8 DEF Pc, UpgradeHash
    <2>2. QED
        BY <1>8, <2>1, GotoEffect DEF UpgradeHash, TypeOK, held, hist
<1>9. ASSUME NEW r \in Request, AnswerLogin(r) PROVE TypeOK'
    <2>1. req[r] \in Handler /\ req[r].user \in Account
        BY <1>9 DEF AnswerLogin, TypeOK
    <2>2. /\ sessions' \subseteq [user : Account, epoch : Nat, proof : Password]
          /\ challenges' \subseteq Account
        BY <1>9, <2>1 DEF AnswerLogin, Mint, Session, SignedEpoch, TypeOK, Handler
    <2>3. QED
        BY <1>9, <2>2, EndEffect DEF AnswerLogin, TypeOK, users, hist
<1>10. ASSUME NEW r \in Request, NEW u \in challenges, StartSecond(r, u) PROVE TypeOK'
    <2> DEFINE q == [Idle EXCEPT !.pc = "second", !.user = u, !.route = "2fa"]
    <2>1. q \in Handler /\ q.user \in Account
        BY IdleType DEF Handler, Pc, AllRoutes, Idle, TypeOK
    <2>2. QED
        BY <1>10, <2>1, StartEffect DEF StartSecond, TypeOK, users, held, hist
<1>11. ASSUME NEW r \in Request, AnswerSecond(r) PROVE TypeOK'
    <2>1. req[r].user \in Account /\ 0 \in Password
        BY <1>11, ConstantsAssumption DEF AnswerSecond, TypeOK, Password
    <2>2. sessions' \subseteq [user : Account, epoch : Nat, proof : Password]
        BY <1>11, <2>1 DEF AnswerSecond, Mint, Session, TypeOK
    <2>3. QED
        BY <1>11, <2>2, EndEffect DEF AnswerSecond, TypeOK, users, hist
<1>12. ASSUME NEW r \in Request, NEW s \in sessions, StartFactor(r, s) PROVE TypeOK'
    <2> DEFINE q == [Idle EXCEPT !.pc = "factor", !.user = s.user, !.route = "factor"]
    <2>1. q \in Handler /\ q.user \in Account
        BY IdleType DEF Handler, Pc, AllRoutes, Idle, TypeOK
    <2>2. QED
        BY <1>12, <2>1, StartEffect DEF StartFactor, TypeOK, users, held, hist
<1>13. ASSUME NEW r \in Request, ChangeFactor(r) PROVE TypeOK'
    <2>1. factor' \in [Account -> BOOLEAN]
        BY <1>13 DEF ChangeFactor, TypeOK
    <2>2. QED
        BY <1>13, <2>1, EndEffect DEF ChangeFactor, TypeOK, users, held, hist
<1>14. ASSUME NEW r \in Request, NEW s \in sessions, NEW route, NEW p \in 1..MaxPw,
              NEW a \in Address \cup {None}, StartEmail(r, s, route, p, a)
       PROVE  TypeOK'
    <2> DEFINE q == [Idle EXCEPT !.pc = "prove", !.user = s.user, !.pass = p,
                                 !.route = route, !.addr = a]
    <2>1. p \in Password /\ route \in AllRoutes
        BY <1>14, ConstantsAssumption DEF StartEmail, Password, AllRoutes
    <2>2. q \in Handler /\ q.user \in Account
        BY <2>1, IdleType DEF Handler, Pc, Idle, TypeOK
    <2>3. QED
        BY <1>14, <2>2, StartEffect DEF StartEmail, TypeOK, users, held, hist
<1>15. ASSUME NEW r \in Request, ProvePassword(r) PROVE TypeOK'
    <2>1. "taken" \in Pc /\ "detach" \in Pc /\ req[r].pc # "idle"
        BY <1>15 DEF Pc, ProvePassword
    <2>2. QED
        BY <1>15, <2>1, EndEffect, GotoEffect DEF ProvePassword, TypeOK, users, held, hist
<1>16. ASSUME NEW r \in Request, CheckTaken(r) PROVE TypeOK'
    <2>1. "supersede" \in Pc /\ req[r].pc # "idle"
        BY <1>16 DEF Pc, CheckTaken
    <2>2. /\ req' \in [Request -> Handler] /\ started' \in Nat
          /\ \A x \in Request : req'[x].pc # "idle" => req'[x].user \in Account
        BY <1>16, <2>1, EndEffect, GotoEffect DEF CheckTaken, Finish
    <2>3. sessions' \subseteq [user : Account, epoch : Nat, proof : Password]
        BY <1>16, <2>1, FinishEffect DEF CheckTaken, TypeOK
    <2>4. QED
        BY <1>16, <2>2, <2>3 DEF CheckTaken, TypeOK, users, hist
<1>17. ASSUME NEW r \in Request, Supersede(r) PROVE TypeOK'
    <2>1. "issue" \in Pc /\ req[r].pc # "idle"
        BY <1>17 DEF Pc, Supersede
    <2>2. /\ tok' \in [Token -> TokenRow]
          /\ \A t \in Token : tok'[t].state = "live" => tok'[t].user \in Account
        BY <1>17, LinkTypes DEF Supersede
    <2>3. QED
        BY <1>17, <2>1, <2>2, GotoEffect DEF Supersede, TypeOK, users, held, hist
<1>18. ASSUME NEW r \in Request, IssueLink(r) PROVE TypeOK'
    <2>1. req[r].pc # "idle" /\ req[r] \in Handler /\ req[r].user \in Account
        BY <1>18 DEF IssueLink, TypeOK
    <2>2. /\ tok' \in [Token -> TokenRow]
          /\ \A t \in Token : tok'[t].state = "live" => tok'[t].user \in Account
        BY <1>18, <2>1 DEF IssueLink, TypeOK, TokenRow, Purpose, Handler
    <2>3. sessions' \subseteq [user : Account, epoch : Nat, proof : Password]
        BY <1>18, <2>1, FinishEffect DEF IssueLink
    <2>4. QED
        BY <1>18, <2>2, <2>3, EndEffect DEF IssueLink, Finish, TypeOK, users, hist
<1>19. ASSUME NEW r \in Request, NEW u \in Account, StartRecovery(r, u) PROVE TypeOK'
    <2> DEFINE q == [Idle EXCEPT !.pc = "supersede", !.user = u, !.route = "recovery"]
    <2>1. q \in Handler /\ q.user \in Account
        BY IdleType DEF Handler, Pc, AllRoutes, Idle
    <2>2. QED
        BY <1>19, <2>1, StartEffect DEF StartRecovery, TypeOK, users, held, hist
<1>20. ASSUME NEW r \in Request, NEW t \in Token, NEW purpose \in {"verify", "reset"},
              Claim(r, t, purpose)
       PROVE  TypeOK'
    <2> DEFINE route == IF purpose = "verify" THEN "verify" ELSE "reset"
               q == [Idle EXCEPT !.pc = IF purpose = "verify" THEN "attach" ELSE "reset",
                                 !.route = route, !.user = tok[t].user,
                                 !.addr = tok[t].addr, !.tok = t]
    <2>1. tok[t].user \in Account
        BY <1>20 DEF Claim, TypeOK
    <2>2. q \in Handler /\ q.user \in Account
        BY <2>1, IdleType, ZenonT(60) DEF Handler, Pc, AllRoutes, Idle, TypeOK, TokenRow
    <2>3. QED
        BY <1>20, <2>2, StartEffect DEF Claim, TypeOK, users, held, hist
<1>21. ASSUME NEW r \in Request, AttachEmail(r) PROVE TypeOK'
    <2>1. req[r].user \in Account /\ req[r] \in Handler
        BY <1>21 DEF AttachEmail, TypeOK
    <2>2. email' \in [Account -> Address \cup {None}] /\ uses' \in [Token -> Nat]
        BY <1>21, <2>1 DEF AttachEmail, TypeOK, Handler
    <2>3. tok' \in [Token -> TokenRow]
        BY <1>21, UseTypes DEF AttachEmail, TypeOK
    <2>4. \A t \in Token : tok'[t].state = "live" => tok'[t].user \in Account
        BY <1>21, UseTypes DEF AttachEmail, TypeOK
    <2>5. QED
        BY <1>21, <2>2, <2>4, <2>3, EndEffect DEF AttachEmail, TypeOK, held
<1>22. ASSUME NEW r \in Request, ResetPassword(r) PROVE TypeOK'
    <2> DEFINE u == req[r].user
               q == [req[r] EXCEPT !.pc = "answer", !.read = pw[u] + 1,
                                   !.epoch = NextEpoch(u), !.tok = None]
    <2>1. u \in Account /\ req[r] \in Handler
        BY <1>22 DEF ResetPassword, TypeOK
    <2>2. pw[u] + 1 \in Password /\ NextEpoch(u) \in Nat
        BY <1>22, <2>1, ConstantsAssumption DEF ResetPassword, TypeOK, Password, NextEpoch
    <2>3. q \in Handler /\ q.user = u
        BY <2>1, <2>2 DEF Handler, Pc
    <2>4. /\ pw' \in [Account -> Password] /\ epoch' \in [Account -> Nat]
        BY <1>22, <2>1, <2>2 DEF ResetPassword, TypeOK
    <2>5. /\ failures' \in [Account -> 0..(MaxFailures + 1)] /\ misses' \in [Account -> Nat]
          /\ locked' \in [Account -> BOOLEAN]
        BY <1>22, ConstantsAssumption DEF ResetPassword, TypeOK
    <2>6. tok' \in [Token -> TokenRow]
        BY <1>22, UseTypes DEF ResetPassword
    <2>7. uses' \in [Token -> Nat]
        <3>1. uses' = [uses EXCEPT ![req[r].tok] = @ + 1] /\ uses \in [Token -> Nat]
            BY <1>22 DEF ResetPassword, TypeOK
        <3>2. ASSUME NEW t \in Token PROVE uses'[t] \in Nat
            <4>1. CASE t = req[r].tok
                BY <3>1, <4>1
            <4>2. CASE t # req[r].tok
                BY <3>1, <4>2
            <4>3. QED
                BY <4>1, <4>2
        <3>3. DOMAIN uses' = Token
            BY <3>1
        <3>4. QED
            BY <3>1, <3>2, <3>3
    <2>8. \A t \in Token : tok'[t].state = "live" => tok'[t].user \in Account
        BY <1>22, UseTypes DEF ResetPassword
    <2>9. Continue(r, q)
        BY <1>22 DEF ResetPassword
    <2>10. QED
        BY <1>22, <2>1, <2>3, <2>4, <2>5, <2>6, <2>8, <2>9, <2>7, ContinueEffect
           DEF ResetPassword, TypeOK, held
<1>23. ASSUME NEW r \in Request, AnswerReset(r) PROVE TypeOK'
    <2>1. req[r].user \in Account /\ req[r] \in Handler
        BY <1>23 DEF AnswerReset, TypeOK
    <2>2. sessions' \subseteq [user : Account, epoch : Nat, proof : Password]
        BY <1>23, <2>1 DEF AnswerReset, Mint, Session, TypeOK, Handler
    <2>3. QED
        BY <1>23, <2>2, EndEffect DEF AnswerReset, TypeOK, users, hist
<1>24. ASSUME NEW r \in Request, DetachEmail(r) PROVE TypeOK'
    <2>1. "forget" \in Pc /\ req[r].pc # "idle"
        BY <1>24 DEF Pc, DetachEmail
    <2>2. email' \in [Account -> Address \cup {None}]
        BY <1>24 DEF DetachEmail, TypeOK
    <2>3. QED
        BY <1>24, <2>1, <2>2, GotoEffect DEF DetachEmail, TypeOK, held, hist
<1>25. ASSUME NEW r \in Request, ForgetLinks(r) PROVE TypeOK'
    <2>1. tok' \in [Token -> TokenRow]
        BY <1>25, LinkTypes DEF ForgetLinks
    <2>2. \A t \in Token : tok'[t].state = "live" => tok'[t].user \in Account
        BY <1>25, LinkTypes DEF ForgetLinks
    <2>3. QED
        BY <1>25, <2>1, <2>2, EndEffect DEF ForgetLinks, TypeOK, users, held, hist
<1>26. ASSUME NEW u \in Account, Unlock(u) PROVE TypeOK'
    BY <1>26 DEF Unlock, TypeOK, users, reqs, held
<1>27. ASSUME NEW r \in Request, Throw(r) PROVE TypeOK'
    <2>1. "creds" \in Pc /\ req[r].pc # "idle"
        BY <1>27 DEF Pc, Throw
    <2>2. Goto(r, "creds") \/ Finish(r) \/ End(r)
        BY <1>27 DEF Throw
    <2>3. /\ req' \in [Request -> Handler] /\ started' \in Nat
          /\ \A x \in Request : req'[x].pc # "idle" => req'[x].user \in Account
        BY <2>1, <2>2, EndEffect, GotoEffect DEF Finish
    <2>4. sessions' \subseteq [user : Account, epoch : Nat, proof : Password]
        BY <1>27, <2>1, FinishEffect DEF Throw, TypeOK
    <2>5. QED
        BY <1>27, <2>3, <2>4 DEF Throw, TypeOK, users, hist
<1>28. CASE UNCHANGED vars
    BY <1>28 DEF vars, users, reqs, held, hist, TypeOK
<1>29. QED
    BY <1>1, <1>2, <1>3, <1>4, <1>5, <1>6, <1>7, <1>8, <1>9, <1>10, <1>11, <1>12, <1>13,
       <1>14, <1>15, <1>16, <1>17, <1>18, <1>19, <1>20, <1>21, <1>22, <1>23, <1>24, <1>25,
       <1>26, <1>27, <1>28 DEF Next

\* Every variable has its type.
THEOREM TypeCorrect == Spec => []TypeOK
BY TypeInit, TypeNext, PTL DEF Spec

---------------------------------------------------------------------------
(* The inductive invariant                                                 *)

\* A row of the old generation is a row, and a generation of passwords starts with it.
Rows == \A u \in Account : /\ legacy[u] => Exists(u)
                           /\ ~Exists(u) => epoch[u] = 0

\* What a handler has read of a row is what the row still holds, or the row has gone
\* on to a later generation.
Current(u, e, p) == Exists(u) /\ e <= epoch[u] /\ (e = epoch[u] => p = pw[u])

ReadOK(q) ==
    /\ q.read # 0 => Current(q.user, q.epoch, q.read) /\ q.pc # "idle"
    /\ q.read = 0 => q.epoch = 0 /\ q.pc \notin {"upgrade", "creds", "answer"}
    /\ q.pc \in {"find", "findLegacy"} => q.route \in {"login", "register"} /\ q.read = 0
    /\ q.pc \in {"verify", "upgrade", "creds"} => q.route = "login"
    /\ q.pc \in {"address", "insert"} =>
        q.route = "register" /\ q.read = 0 /\ ~legacy[q.user]
    /\ q.pc \in {"taken", "supersede", "issue"} /\ q.route = "register" => q.read # 0
Reads == \A r \in Request : ReadOK(req[r])

\* The same of sessions, but those for a second factor.
Granted == \A s \in sessions : s.proof # 0 => Current(s.user, s.epoch, s.proof)

\* A transaction holds a link that is live, alone; a link that had its effect is not
\* live.
Links ==
    /\ \A t \in Token : /\ uses[t] \in {0, 1}
                        /\ tok[t].state \in {"unused", "live"} => uses[t] = 0
    /\ \A r \in Request :
        /\ req[r].tok # None => tok[req[r].tok].state = "live"
        /\ req[r].tok # None <=> req[r].pc \in {"attach", "reset"}
    /\ \A r, x \in Request : req[r].tok # None /\ req[r].tok = req[x].tok => r = x

\* The requests that try a password for u.
Trying(u) == {r \in Request : /\ req[r].route = "login" /\ req[r].user = u
                              /\ req[r].pc \in {"find", "findLegacy", "verify"}}

\* An open account has been tried less often than it takes to lock it; a locked one, as
\* often and by the requests that were there.
Lockout ==
    \A u \in Account :
        /\ ~locked[u] => misses[u] <= failures[u] /\ misses[u] < MaxFailures
        /\ locked[u] => misses[u] + Cardinality(Trying(u))
                            <= MaxFailures - 1 + Cardinality(Request)

AccountsInv == TypeOK /\ Rows /\ Reads /\ Granted /\ Links /\ OneOwnerPerAddress /\ Lockout

\* Rows keep their generation.
LEMMA RowsNext ==
    ASSUME TypeOK, Rows, [Next]_vars
    PROVE  Rows'
<1>1. ASSUME NEW r \in Request, NEW u \in Account, NEW a \in Address \cup {None},
             StartRegister(r, u, a)
      PROVE  Rows'
    BY <1>1 DEF StartRegister, Exists, NextEpoch, Rows, TypeOK, users, Password
<1>2. ASSUME NEW r \in Request, InsertUser(r) PROVE Rows'
    BY <1>2 DEF InsertUser, Exists, NextEpoch, Rows, TypeOK, users, Password
<1>3. ASSUME NEW r \in Request, NEW u \in Account, NEW p \in 1..MaxPw,
             StartLogin(r, u, p)
      PROVE  Rows'
    BY <1>3 DEF StartLogin, Exists, NextEpoch, Rows, TypeOK, users, Password
<1>4. ASSUME NEW r \in Request, NEW old \in BOOLEAN, Find(r, old) PROVE Rows'
    BY <1>4 DEF Find, Exists, NextEpoch, Rows, TypeOK, users, Password
<1>5. ASSUME NEW r \in Request, CheckAddress(r) PROVE Rows'
    BY <1>5 DEF CheckAddress, Exists, NextEpoch, Rows, TypeOK, users, Password
<1>6. ASSUME NEW r \in Request, RecordFailure(r) PROVE Rows'
    BY <1>6 DEF RecordFailure, Exists, NextEpoch, Rows, TypeOK, users, Password
<1>7. ASSUME NEW r \in Request, ClearFailures(r) PROVE Rows'
    BY <1>7 DEF ClearFailures, Exists, NextEpoch, Rows, TypeOK, users, Password
<1>8. ASSUME NEW r \in Request, UpgradeHash(r) PROVE Rows'
    BY <1>8 DEF UpgradeHash, Exists, NextEpoch, Rows, TypeOK, users, Password
<1>9. ASSUME NEW r \in Request, AnswerLogin(r) PROVE Rows'
    BY <1>9 DEF AnswerLogin, Exists, NextEpoch, Rows, TypeOK, users, Password
<1>10. ASSUME NEW r \in Request, NEW u \in challenges, StartSecond(r, u) PROVE Rows'
    BY <1>10 DEF StartSecond, Exists, NextEpoch, Rows, TypeOK, users, Password
<1>11. ASSUME NEW r \in Request, AnswerSecond(r) PROVE Rows'
    BY <1>11 DEF AnswerSecond, Exists, NextEpoch, Rows, TypeOK, users, Password
<1>12. ASSUME NEW r \in Request, NEW s \in sessions, StartFactor(r, s) PROVE Rows'
    BY <1>12 DEF StartFactor, Exists, NextEpoch, Rows, TypeOK, users, Password
<1>13. ASSUME NEW r \in Request, ChangeFactor(r) PROVE Rows'
    BY <1>13 DEF ChangeFactor, Exists, NextEpoch, Rows, TypeOK, users, Password
<1>14. ASSUME NEW r \in Request, NEW s \in sessions, NEW route, NEW p \in 1..MaxPw,
              NEW a \in Address \cup {None},
              StartEmail(r, s, route, p, a)
       PROVE  Rows'
    BY <1>14 DEF StartEmail, Exists, NextEpoch, Rows, TypeOK, users, Password
<1>15. ASSUME NEW r \in Request, ProvePassword(r) PROVE Rows'
    BY <1>15 DEF ProvePassword, Exists, NextEpoch, Rows, TypeOK, users, Password
<1>16. ASSUME NEW r \in Request, CheckTaken(r) PROVE Rows'
    BY <1>16 DEF CheckTaken, Exists, NextEpoch, Rows, TypeOK, users, Password
<1>17. ASSUME NEW r \in Request, Supersede(r) PROVE Rows'
    BY <1>17 DEF Supersede, Exists, NextEpoch, Rows, TypeOK, users, Password
<1>18. ASSUME NEW r \in Request, IssueLink(r) PROVE Rows'
    BY <1>18 DEF IssueLink, Exists, NextEpoch, Rows, TypeOK, users, Password
<1>19. ASSUME NEW r \in Request, NEW u \in Account, StartRecovery(r, u) PROVE Rows'
    BY <1>19 DEF StartRecovery, Exists, NextEpoch, Rows, TypeOK, users, Password
<1>20. ASSUME NEW r \in Request, NEW t \in Token, NEW purpose \in {"verify", "reset"},
              Claim(r, t, purpose)
       PROVE  Rows'
    BY <1>20 DEF Claim, Exists, NextEpoch, Rows, TypeOK, users, Password
<1>21. ASSUME NEW r \in Request, AttachEmail(r) PROVE Rows'
    BY <1>21 DEF AttachEmail, Exists, NextEpoch, Rows, TypeOK, users, Password
<1>22. ASSUME NEW r \in Request, ResetPassword(r) PROVE Rows'
    BY <1>22 DEF ResetPassword, Exists, NextEpoch, Rows, TypeOK, users, Password
<1>23. ASSUME NEW r \in Request, AnswerReset(r) PROVE Rows'
    BY <1>23 DEF AnswerReset, Exists, NextEpoch, Rows, TypeOK, users, Password
<1>24. ASSUME NEW r \in Request, DetachEmail(r) PROVE Rows'
    BY <1>24 DEF DetachEmail, Exists, NextEpoch, Rows, TypeOK, users, Password
<1>25. ASSUME NEW r \in Request, ForgetLinks(r) PROVE Rows'
    BY <1>25 DEF ForgetLinks, Exists, NextEpoch, Rows, TypeOK, users, Password
<1>26. ASSUME NEW u \in Account, Unlock(u) PROVE Rows'
    BY <1>26 DEF Unlock, Exists, NextEpoch, Rows, TypeOK, users, Password
<1>27. ASSUME NEW r \in Request, Throw(r) PROVE Rows'
    BY <1>27 DEF Throw, Exists, NextEpoch, Rows, TypeOK, users, Password
<1>28. CASE UNCHANGED vars
    BY <1>28 DEF vars, users, reqs, held, hist, Exists, NextEpoch, Rows, TypeOK, users,
       Password
<1>29. QED
    BY <1>1, <1>2, <1>3, <1>4, <1>5, <1>6, <1>7, <1>8, <1>9, <1>10, <1>11, <1>12, <1>13,
       <1>14, <1>15, <1>16, <1>17, <1>18, <1>19, <1>20, <1>21, <1>22, <1>23, <1>24,
       <1>25, <1>26, <1>27, <1>28 DEF Next

LEMMA ReadsStay ==
    ASSUME TypeOK, Reads, NEW r \in Request, NEW q, ReadOK(q), UNCHANGED users,
           req' = [req EXCEPT ![r] = q]
    PROVE  Reads'
<1>1. ASSUME NEW x \in Request PROVE ReadOK(req'[x])
    BY DEF Reads, TypeOK
<1>2. QED
    BY <1>1 DEF Reads, ReadOK, Current, Exists, users

\* What was read stays true or grows old.
LEMMA ReadsNext ==
    ASSUME TypeOK, Rows, Reads, [Next]_vars
    PROVE  Reads'
<1>1. ASSUME NEW r \in Request, NEW u \in Account, NEW a \in Address \cup {None},
             StartRegister(r, u, a)
      PROVE  Reads'
    BY <1>1 DEF StartRegister, Start, Continue, Goto, End, Finish, Idle,
       Exists, Current, ReadOK, Reads, Rows, TypeOK, Handler, users, Password
<1>2. ASSUME NEW r \in Request, InsertUser(r) PROVE Reads'
    <2> DEFINE u == req[r].user
               q == [req[r] EXCEPT !.pc = "taken", !.read = 1]
    <2>1. ReadOK(req[r]) /\ req[r] \in Handler /\ u \in Account /\ req[r].pc = "insert"
        BY <1>2 DEF InsertUser, Reads, TypeOK
    <2>2. CASE Conflict(u)
        BY <1>2, <2>1, <2>2 DEF InsertUser, Continue, End, Idle, ReadOK, Reads, Current,
           Exists, TypeOK
    <2>3. CASE ~Conflict(u)
        <3>1. ~Exists(u) /\ epoch[u] = 0 /\ ~legacy[u]
            BY <2>1, <2>3 DEF Conflict, ReadOK, Rows
        <3>2. pw' = [pw EXCEPT ![u] = 1] /\ epoch' = epoch /\ legacy' = legacy
            BY <1>2, <2>3 DEF InsertUser
        <3>3. req' = [req EXCEPT ![r] = q] \/ req' = [req EXCEPT ![r] = Idle]
            BY <1>2, <2>3 DEF InsertUser, Continue, End
        <3>4. ASSUME NEW x \in Request PROVE ReadOK(req[x])'
            <4>1. ReadOK(req[x]) /\ req[x] \in Handler
                BY DEF Reads, TypeOK
            <4>2. CASE req'[x] = req[x]
                BY <3>1, <3>2, <4>1, <4>2 DEF ReadOK, Current, Exists, TypeOK
            <4>3. CASE req'[x] = q
                <5>1. q.read = 1 /\ q.pc = "taken" /\ q.epoch = 0 /\ q.user = u
                    BY <2>1 DEF ReadOK, Handler
                <5>2. pw'[u] = 1 /\ epoch'[u] = 0
                    BY <2>1, <3>1, <3>2 DEF TypeOK
                <5>3. QED
                    BY <4>3, <5>1, <5>2 DEF ReadOK, Current, Exists
            <4>4. CASE req'[x] = Idle
                BY <4>4 DEF ReadOK, Idle
            <4>5. QED
                BY <3>3, <4>2, <4>3, <4>4 DEF TypeOK
        <3>5. QED
            BY <3>4 DEF Reads
    <2>4. QED
        BY <2>2, <2>3
<1>3. ASSUME NEW r \in Request, NEW u \in Account, NEW p \in 1..MaxPw,
             StartLogin(r, u, p)
      PROVE  Reads'
    BY <1>3 DEF StartLogin, Start, Continue, Goto, End, Finish, Idle,
       Exists, Current, ReadOK, Reads, Rows, TypeOK, Handler, users, Password
<1>4. ASSUME NEW r \in Request, NEW old \in BOOLEAN, Find(r, old) PROVE Reads'
    <2> DEFINE u == req[r].user
               q == [req[r] EXCEPT !.pc = "verify", !.read = pw[u], !.epoch = epoch[u],
                                   !.old = old]
               n == IF ~old /\ TRUE \in Generations THEN "findLegacy" ELSE Absent(req[r])
               w == [req[r] EXCEPT !.pc = n]
    <2>1. /\ ReadOK(req[r]) /\ req[r] \in Handler /\ u \in Account
          /\ req[r].pc \in {"find", "findLegacy"}
        BY <1>4 DEF Find, Reads, TypeOK
    <2>2. UNCHANGED users
        BY <1>4 DEF Find
    <2>3. CASE Exists(u) /\ legacy[u] = old
        <3>1. \/ req' = [req EXCEPT ![r] = Idle]
              \/ req' = [req EXCEPT ![r] = q] /\ req[r].route # "register"
            BY <1>4, <2>3 DEF Find, Continue, End
        <3>2. req[r].route # "register" => ReadOK(q)
            BY <2>1, <2>3 DEF ReadOK, Current, Exists, Handler, TypeOK, Password
        <3>3. ReadOK(Idle)
            BY DEF ReadOK, Idle
        <3>4. QED
            BY <2>2, <3>1, <3>2, <3>3, ReadsStay
    <2>4. CASE ~(Exists(u) /\ legacy[u] = old)
        <3>1. req' = [req EXCEPT ![r] = w]
            BY <1>4, <2>4 DEF Find, Goto, Continue
        <3>2. ~old => n = "findLegacy"
            BY DEF Generations
        <3>3. old => n = Absent(req[r]) /\ ~legacy[u]
            BY <2>1, <2>4 DEF Rows, TypeOK
        <3>4. ReadOK(w)
            BY <2>1, <3>2, <3>3 DEF ReadOK, Absent, Handler
        <3>5. QED
            BY <2>2, <3>1, <3>4, ReadsStay
    <2>5. QED
        BY <2>3, <2>4
<1>5. ASSUME NEW r \in Request, CheckAddress(r) PROVE Reads'
    BY <1>5 DEF CheckAddress, Start, Continue, Goto, End, Finish, Idle,
       Exists, Current, ReadOK, Reads, Rows, TypeOK, Handler, users, Password
<1>6. ASSUME NEW r \in Request, RecordFailure(r) PROVE Reads'
    BY <1>6 DEF RecordFailure, Start, Continue, Goto, End, Finish, Idle,
       Exists, Current, ReadOK, Reads, Rows, TypeOK, Handler, users, Password
<1>7. ASSUME NEW r \in Request, ClearFailures(r) PROVE Reads'
    <2>1. ReadOK(req[r]) /\ req[r] \in Handler
        BY <1>7 DEF ClearFailures, Reads, TypeOK
    <2>2. UNCHANGED users
        BY <1>7 DEF ClearFailures, users
    <2>3. PICK q \in {Idle} \cup {[req[r] EXCEPT !.pc = pc] : pc \in {"upgrade", "creds"}} :
            req' = [req EXCEPT ![r] = q]
        BY <1>7 DEF ClearFailures, Goto, End, Continue
    <2>4. ReadOK(q)
        BY <1>7, <2>1, <2>3 DEF ClearFailures, ReadOK, Verifies, Handler, Idle
    <2>5. QED
        BY <2>2, <2>3, <2>4, ReadsStay
<1>8. ASSUME NEW r \in Request, UpgradeHash(r) PROVE Reads'
    BY <1>8 DEF UpgradeHash, Start, Continue, Goto, End, Finish, Idle,
       Exists, Current, ReadOK, Reads, Rows, TypeOK, Handler, users, Password
<1>9. ASSUME NEW r \in Request, AnswerLogin(r) PROVE Reads'
    BY <1>9 DEF AnswerLogin, Start, Continue, Goto, End, Finish, Idle,
       Exists, Current, ReadOK, Reads, Rows, TypeOK, Handler, users, Password
<1>10. ASSUME NEW r \in Request, NEW u \in challenges, StartSecond(r, u) PROVE Reads'
    BY <1>10 DEF StartSecond, Start, Continue, Goto, End, Finish, Idle,
       Exists, Current, ReadOK, Reads, Rows, TypeOK, Handler, users, Password
<1>11. ASSUME NEW r \in Request, AnswerSecond(r) PROVE Reads'
    BY <1>11 DEF AnswerSecond, Start, Continue, Goto, End, Finish, Idle,
       Exists, Current, ReadOK, Reads, Rows, TypeOK, Handler, users, Password
<1>12. ASSUME NEW r \in Request, NEW s \in sessions, StartFactor(r, s) PROVE Reads'
    BY <1>12 DEF StartFactor, Start, Continue, Goto, End, Finish, Idle,
       Exists, Current, ReadOK, Reads, Rows, TypeOK, Handler, users, Password
<1>13. ASSUME NEW r \in Request, ChangeFactor(r) PROVE Reads'
    BY <1>13 DEF ChangeFactor, Start, Continue, Goto, End, Finish, Idle,
       Exists, Current, ReadOK, Reads, Rows, TypeOK, Handler, users, Password
<1>14. ASSUME NEW r \in Request, NEW s \in sessions, NEW route, NEW p \in 1..MaxPw,
              NEW a \in Address \cup {None},
              StartEmail(r, s, route, p, a)
       PROVE  Reads'
    BY <1>14 DEF StartEmail, Start, Continue, Goto, End, Finish, Idle,
       Exists, Current, ReadOK, Reads, Rows, TypeOK, Handler, users, Password
<1>15. ASSUME NEW r \in Request, ProvePassword(r) PROVE Reads'
    <2>1. ReadOK(req[r]) /\ req[r] \in Handler /\ req[r].pc = "prove" /\ UNCHANGED users
        BY <1>15 DEF ProvePassword, Reads, TypeOK
    <2>2. PICK q \in {Idle} \cup {[req[r] EXCEPT !.pc = pc] : pc \in {"taken", "detach"}} :
            /\ req' = [req EXCEPT ![r] = q]
            /\ q # Idle => q.pc = IF req[r].route = "email" THEN "taken" ELSE "detach"
        BY <1>15, <2>1 DEF ProvePassword, Goto, End, Continue, Handler
    <2>3. ReadOK(q)
        BY <2>1, <2>2 DEF ReadOK, Handler, Idle
    <2>4. QED
        BY <2>1, <2>2, <2>3 DEF Reads, ReadOK, Current, Exists, users, TypeOK
<1>16. ASSUME NEW r \in Request, CheckTaken(r) PROVE Reads'
    <2>1. ReadOK(req[r]) /\ req[r] \in Handler /\ req[r].pc = "taken" /\ UNCHANGED users
        BY <1>16 DEF CheckTaken, Reads, TypeOK
    <2>2. PICK q \in {Idle, [req[r] EXCEPT !.pc = "supersede"]} : req' = [req EXCEPT ![r] = q]
        BY <1>16 DEF CheckTaken, Goto, Finish, End, Continue
    <2>3. ReadOK(q)
        BY <2>1, <2>2 DEF ReadOK, Handler, Idle
    <2>4. QED
        BY <2>1, <2>2, <2>3, ReadsStay
<1>17. ASSUME NEW r \in Request, Supersede(r) PROVE Reads'
    BY <1>17 DEF Supersede, Start, Continue, Goto, End, Finish, Idle,
       Exists, Current, ReadOK, Reads, Rows, TypeOK, Handler, users, Password
<1>18. ASSUME NEW r \in Request, IssueLink(r) PROVE Reads'
    BY <1>18 DEF IssueLink, Start, Continue, Goto, End, Finish, Idle,
       Exists, Current, ReadOK, Reads, Rows, TypeOK, Handler, users, Password
<1>19. ASSUME NEW r \in Request, NEW u \in Account, StartRecovery(r, u) PROVE Reads'
    BY <1>19 DEF StartRecovery, Start, Continue, Goto, End, Finish, Idle,
       Exists, Current, ReadOK, Reads, Rows, TypeOK, Handler, users, Password
<1>20. ASSUME NEW r \in Request, NEW t \in Token, NEW purpose \in {"verify", "reset"},
              Claim(r, t, purpose)
       PROVE  Reads'
    BY <1>20 DEF Claim, Start, Continue, Goto, End, Finish, Idle,
       Exists, Current, ReadOK, Reads, Rows, TypeOK, Handler, users, Password
<1>21. ASSUME NEW r \in Request, AttachEmail(r) PROVE Reads'
    BY <1>21 DEF AttachEmail, Start, Continue, Goto, End, Finish, Idle,
       Exists, Current, ReadOK, Reads, Rows, TypeOK, Handler, users, Password
<1>22. ASSUME NEW r \in Request, ResetPassword(r) PROVE Reads'
    <2> DEFINE u == req[r].user
               q == [req[r] EXCEPT !.pc = "answer", !.read = pw[u] + 1,
                                   !.epoch = NextEpoch(u), !.tok = None]
    <2>1. /\ ReadOK(req[r]) /\ req[r] \in Handler /\ u \in Account
          /\ pw[u] \in Nat /\ epoch[u] \in Nat
        BY <1>22 DEF ResetPassword, Reads, TypeOK, Password
    <2>2. /\ pw' = [pw EXCEPT ![u] = @ + 1] /\ epoch' = [epoch EXCEPT ![u] = @ + 1]
          /\ legacy' = legacy /\ req' = [req EXCEPT ![r] = q]
        BY <1>22 DEF ResetPassword, Continue, NextEpoch
    <2>3. /\ pw'[u] = pw[u] + 1 /\ epoch'[u] = epoch[u] + 1
          /\ \A v \in Account \ {u} : pw'[v] = pw[v] /\ epoch'[v] = epoch[v]
        BY <2>1, <2>2 DEF TypeOK
    <2>4. ASSUME NEW x \in Request PROVE ReadOK(req[x])'
        <3>1. CASE x = r
            <4>1. /\ q.pc = "answer" /\ q.read = pw[u] + 1 /\ q.epoch = epoch[u] + 1
                  /\ q.user = u /\ req'[x] = q
                BY <2>1, <2>2, <3>1 DEF Handler, NextEpoch, TypeOK
            <4>2. QED
                BY <2>1, <2>3, <4>1 DEF ReadOK, Current, Exists
        <3>2. CASE x # r
            <4>1. req'[x] = req[x] /\ ReadOK(req[x]) /\ req[x] \in Handler
                BY <2>2, <3>2 DEF Reads, TypeOK
            <4>2. CASE req[x].read # 0
                <5>1. req[x].user \in Account
                    BY <4>1, <4>2 DEF TypeOK, ReadOK
                <5>2. /\ req[x].epoch \in Nat /\ req[x].epoch <= epoch[req[x].user]
                      /\ pw[req[x].user] # 0
                      /\ req[x].epoch = epoch[req[x].user] => req[x].read = pw[req[x].user]
                    BY <4>1, <4>2 DEF ReadOK, Current, Exists, Handler
                <5>3. CASE req[x].user = u
                    <6>1. pw'[u] # 0 /\ req[x].epoch <= epoch'[u] /\ req[x].epoch # epoch'[u]
                        BY <2>1, <2>3, <5>2, <5>3
                    <6>2. QED
                        BY <2>2, <4>1, <4>2, <5>3, <6>1 DEF ReadOK, Current, Exists
                <5>4. CASE req[x].user # u
                    BY <2>2, <2>3, <4>1, <4>2, <5>1, <5>4 DEF ReadOK, Current, Exists
                <5>5. QED
                    BY <5>3, <5>4
            <4>3. CASE req[x].read = 0
                BY <2>2, <4>1, <4>3 DEF ReadOK
            <4>4. QED
                BY <4>2, <4>3
        <3>3. QED
            BY <3>1, <3>2
    <2>5. QED
        BY <2>4 DEF Reads
<1>23. ASSUME NEW r \in Request, AnswerReset(r) PROVE Reads'
    BY <1>23 DEF AnswerReset, Start, Continue, Goto, End, Finish, Idle,
       Exists, Current, ReadOK, Reads, Rows, TypeOK, Handler, users, Password
<1>24. ASSUME NEW r \in Request, DetachEmail(r) PROVE Reads'
    BY <1>24 DEF DetachEmail, Start, Continue, Goto, End, Finish, Idle,
       Exists, Current, ReadOK, Reads, Rows, TypeOK, Handler, users, Password
<1>25. ASSUME NEW r \in Request, ForgetLinks(r) PROVE Reads'
    BY <1>25 DEF ForgetLinks, Start, Continue, Goto, End, Finish, Idle,
       Exists, Current, ReadOK, Reads, Rows, TypeOK, Handler, users, Password
<1>26. ASSUME NEW u \in Account, Unlock(u) PROVE Reads'
    BY <1>26 DEF Unlock, Exists, Current, ReadOK, Reads, TypeOK, users, reqs
<1>27. ASSUME NEW r \in Request, Throw(r) PROVE Reads'
    BY <1>27 DEF Throw, Start, Continue, Goto, End, Finish, Idle,
       Exists, Current, ReadOK, Reads, Rows, TypeOK, Handler, users, Password
<1>28. CASE UNCHANGED vars
    BY <1>28 DEF vars, users, reqs, held, hist, Start, Continue, Goto, End, Finish, Idle,
       Exists, Current, ReadOK, Reads, Rows, TypeOK, Handler, users, Password
<1>29. QED
    BY <1>1, <1>2, <1>3, <1>4, <1>5, <1>6, <1>7, <1>8, <1>9, <1>10, <1>11, <1>12, <1>13,
       <1>14, <1>15, <1>16, <1>17, <1>18, <1>19, <1>20, <1>21, <1>22, <1>23, <1>24,
       <1>25, <1>26, <1>27, <1>28 DEF Next

\* A session that is given for what a handler has read.
LEMMA GrantedStay ==
    ASSUME Granted, UNCHANGED users, NEW u, NEW e, NEW p, p # 0 => Current(u, e, p),
           sessions' \subseteq sessions \cup {Session(u, e, p)}
    PROVE  Granted'
BY DEF Granted, Current, Exists, Session, users

\* Sessions are given for what was read, and grow old with it.
LEMMA GrantedNext ==
    ASSUME TypeOK, Rows, Reads, Granted, [Next]_vars
    PROVE  Granted'
<1>1. ASSUME NEW r \in Request, NEW u \in Account, NEW a \in Address \cup {None},
             StartRegister(r, u, a)
      PROVE  Granted'
    BY <1>1 DEF StartRegister, Granted, Current, Exists, TypeOK, users, held, Mint, Session,
       SignedEpoch
<1>2. ASSUME NEW r \in Request, InsertUser(r) PROVE Granted'
    <2> DEFINE u == req[r].user
    <2>1. u \in Account /\ req[r].pc = "insert" /\ req[r] \in Handler /\ ReadOK(req[r])
        BY <1>2 DEF InsertUser, Reads, TypeOK
    <2>2. CASE Conflict(u)
        BY <1>2, <2>2 DEF InsertUser, Granted, Current, Exists
    <2>3. CASE ~Conflict(u)
        <3>1. ~Exists(u) /\ epoch[u] = 0
            BY <2>1, <2>3 DEF Conflict, ReadOK, Rows
        <3>2. pw' = [pw EXCEPT ![u] = 1] /\ epoch' = epoch
            BY <1>2, <2>3 DEF InsertUser
        <3>3. pw'[u] = 1 /\ \A v \in Account \ {u} : pw'[v] = pw[v]
            BY <2>1, <3>2 DEF TypeOK
        <3>4. ASSUME NEW s \in sessions, s.proof # 0 PROVE Current(s.user, s.epoch, s.proof)'
            <4>1. Current(s.user, s.epoch, s.proof) /\ s.user \in Account /\ s.user # u
                BY <3>1, <3>4 DEF Granted, Current, TypeOK
            <4>2. QED
                BY <3>2, <3>3, <4>1 DEF Current, Exists
        <3>5. pw'[u] = 1 /\ epoch'[u] = 0 /\ epoch[u] = 0
            BY <3>1, <3>2, <3>3
        <3>6. sessions' \subseteq sessions \cup {Session(u, 0, 1)}
            BY <1>2, <2>3 DEF InsertUser, Mint
        <3>7. QED
            BY <3>4, <3>5, <3>6 DEF Granted, Session, Current, Exists
    <2>4. QED
        BY <2>2, <2>3
<1>3. ASSUME NEW r \in Request, NEW u \in Account, NEW p \in 1..MaxPw,
             StartLogin(r, u, p)
      PROVE  Granted'
    BY <1>3 DEF StartLogin, Granted, Current, Exists, TypeOK, users, held, Mint, Session,
       SignedEpoch
<1>4. ASSUME NEW r \in Request, NEW old \in BOOLEAN, Find(r, old) PROVE Granted'
    BY <1>4 DEF Find, Granted, Current, Exists, TypeOK, users, held, Mint, Session,
       SignedEpoch
<1>5. ASSUME NEW r \in Request, CheckAddress(r) PROVE Granted'
    BY <1>5 DEF CheckAddress, Granted, Current, Exists, TypeOK, users, held, Mint, Session,
       SignedEpoch
<1>6. ASSUME NEW r \in Request, RecordFailure(r) PROVE Granted'
    BY <1>6 DEF RecordFailure, Granted, Current, Exists, TypeOK, users, held, Mint, Session,
       SignedEpoch
<1>7. ASSUME NEW r \in Request, ClearFailures(r) PROVE Granted'
    BY <1>7 DEF ClearFailures, Granted, Current, Exists, TypeOK, users, held, Mint, Session,
       SignedEpoch
<1>8. ASSUME NEW r \in Request, UpgradeHash(r) PROVE Granted'
    BY <1>8 DEF UpgradeHash, Granted, Current, Exists, TypeOK, users, held, Mint, Session,
       SignedEpoch
<1>9. ASSUME NEW r \in Request, AnswerLogin(r) PROVE Granted'
    <2>1. ReadOK(req[r]) /\ req[r].pc # "idle" /\ UNCHANGED users
        BY <1>9 DEF AnswerLogin, Reads
    <2>2. sessions' \subseteq sessions \cup {Session(req[r].user, req[r].epoch, req[r].read)}
        BY <1>9 DEF AnswerLogin, Finish, Mint, SignedEpoch
    <2>3. QED
        BY <2>1, <2>2, GrantedStay DEF ReadOK
<1>10. ASSUME NEW r \in Request, NEW u \in challenges, StartSecond(r, u) PROVE Granted'
    BY <1>10 DEF StartSecond, Granted, Current, Exists, TypeOK, users, held, Mint, Session,
       SignedEpoch
<1>11. ASSUME NEW r \in Request, AnswerSecond(r) PROVE Granted'
    BY <1>11 DEF AnswerSecond, Granted, Current, Exists, TypeOK, users, held, Mint, Session,
       SignedEpoch
<1>12. ASSUME NEW r \in Request, NEW s \in sessions, StartFactor(r, s) PROVE Granted'
    BY <1>12 DEF StartFactor, Granted, Current, Exists, TypeOK, users, held, Mint, Session,
       SignedEpoch
<1>13. ASSUME NEW r \in Request, ChangeFactor(r) PROVE Granted'
    BY <1>13 DEF ChangeFactor, Granted, Current, Exists, TypeOK, users, held, Mint, Session,
       SignedEpoch
<1>14. ASSUME NEW r \in Request, NEW s \in sessions, NEW route, NEW p \in 1..MaxPw,
              NEW a \in Address \cup {None},
              StartEmail(r, s, route, p, a)
       PROVE  Granted'
    BY <1>14 DEF StartEmail, Granted, Current, Exists, TypeOK, users, held, Mint, Session,
       SignedEpoch
<1>15. ASSUME NEW r \in Request, ProvePassword(r) PROVE Granted'
    BY <1>15 DEF ProvePassword, Granted, Current, Exists, TypeOK, users, held, Mint, Session,
       SignedEpoch
<1>16. ASSUME NEW r \in Request, CheckTaken(r) PROVE Granted'
    <2>1. ReadOK(req[r]) /\ req[r].pc # "idle" /\ UNCHANGED users
        BY <1>16 DEF CheckTaken, Reads
    <2>2. sessions' \subseteq sessions \cup {Session(req[r].user, req[r].epoch, req[r].read)}
        BY <1>16 DEF CheckTaken, Finish, Mint, SignedEpoch
    <2>3. QED
        BY <2>1, <2>2, GrantedStay DEF ReadOK
<1>17. ASSUME NEW r \in Request, Supersede(r) PROVE Granted'
    BY <1>17 DEF Supersede, Granted, Current, Exists, TypeOK, users, held, Mint, Session,
       SignedEpoch
<1>18. ASSUME NEW r \in Request, IssueLink(r) PROVE Granted'
    <2>1. ReadOK(req[r]) /\ req[r].pc # "idle" /\ UNCHANGED users
        BY <1>18 DEF IssueLink, Reads
    <2>2. sessions' \subseteq sessions \cup {Session(req[r].user, req[r].epoch, req[r].read)}
        BY <1>18 DEF IssueLink, Finish, Mint, SignedEpoch
    <2>3. QED
        BY <2>1, <2>2, GrantedStay DEF ReadOK
<1>19. ASSUME NEW r \in Request, NEW u \in Account, StartRecovery(r, u) PROVE Granted'
    BY <1>19 DEF StartRecovery, Granted, Current, Exists, TypeOK, users, held, Mint, Session,
       SignedEpoch
<1>20. ASSUME NEW r \in Request, NEW t \in Token, NEW purpose \in {"verify", "reset"},
              Claim(r, t, purpose)
       PROVE  Granted'
    BY <1>20 DEF Claim, Granted, Current, Exists, TypeOK, users, held, Mint, Session,
       SignedEpoch
<1>21. ASSUME NEW r \in Request, AttachEmail(r) PROVE Granted'
    BY <1>21 DEF AttachEmail, Granted, Current, Exists, TypeOK, users, held, Mint, Session,
       SignedEpoch
<1>22. ASSUME NEW r \in Request, ResetPassword(r) PROVE Granted'
    <2> DEFINE u == req[r].user
    <2>1. u \in Account /\ pw[u] \in Nat /\ epoch[u] \in Nat
        BY <1>22 DEF ResetPassword, TypeOK, Password
    <2>2. /\ pw'[u] = pw[u] + 1 /\ epoch'[u] = epoch[u] + 1 /\ sessions' = sessions
          /\ \A v \in Account \ {u} : pw'[v] = pw[v] /\ epoch'[v] = epoch[v]
        BY <1>22, <2>1 DEF ResetPassword, NextEpoch, TypeOK, held
    <2>3. ASSUME NEW s \in sessions, s.proof # 0 PROVE Current(s.user, s.epoch, s.proof)'
        <3>1. Current(s.user, s.epoch, s.proof) /\ s.user \in Account /\ s.epoch \in Nat
            BY <2>3 DEF Granted, TypeOK
        <3>2. CASE s.user = u
            <4>1. pw'[u] # 0 /\ s.epoch <= epoch'[u] /\ s.epoch # epoch'[u]
                BY <2>1, <2>2, <3>1, <3>2 DEF Current
            <4>2. QED
                BY <3>2, <4>1 DEF Current, Exists
        <3>3. CASE s.user # u
            BY <2>2, <3>1, <3>3 DEF Current, Exists
        <3>4. QED
            BY <3>2, <3>3
    <2>4. QED
        BY <2>2, <2>3 DEF Granted
<1>23. ASSUME NEW r \in Request, AnswerReset(r) PROVE Granted'
    <2>1. ReadOK(req[r]) /\ req[r].pc # "idle" /\ UNCHANGED users
        BY <1>23 DEF AnswerReset, Reads
    <2>2. sessions' \subseteq sessions \cup {Session(req[r].user, req[r].epoch, req[r].read)}
        BY <1>23 DEF AnswerReset, Finish, Mint, SignedEpoch
    <2>3. QED
        BY <2>1, <2>2, GrantedStay DEF ReadOK
<1>24. ASSUME NEW r \in Request, DetachEmail(r) PROVE Granted'
    BY <1>24 DEF DetachEmail, Granted, Current, Exists, TypeOK, users, held, Mint, Session,
       SignedEpoch
<1>25. ASSUME NEW r \in Request, ForgetLinks(r) PROVE Granted'
    BY <1>25 DEF ForgetLinks, Granted, Current, Exists, TypeOK, users, held, Mint, Session,
       SignedEpoch
<1>26. ASSUME NEW u \in Account, Unlock(u) PROVE Granted'
    BY <1>26 DEF Unlock, Granted, Current, Exists, TypeOK, users, held, Mint, Session,
       SignedEpoch
<1>27. ASSUME NEW r \in Request, Throw(r) PROVE Granted'
    <2>1. ReadOK(req[r]) /\ req[r].pc # "idle" /\ UNCHANGED users
        BY <1>27 DEF Throw, Reads
    <2>2. sessions' \subseteq sessions \cup {Session(req[r].user, req[r].epoch, req[r].read)}
        BY <1>27 DEF Throw, Finish, Mint, SignedEpoch
    <2>3. QED
        BY <2>1, <2>2, GrantedStay DEF ReadOK
<1>28. CASE UNCHANGED vars
    BY <1>28 DEF vars, users, reqs, held, hist, Granted, Current, Exists, TypeOK, users, held,
       Mint, Session, SignedEpoch
<1>29. QED
    BY <1>1, <1>2, <1>3, <1>4, <1>5, <1>6, <1>7, <1>8, <1>9, <1>10, <1>11, <1>12, <1>13,
       <1>14, <1>15, <1>16, <1>17, <1>18, <1>19, <1>20, <1>21, <1>22, <1>23, <1>24,
       <1>25, <1>26, <1>27, <1>28 DEF Next

\* A handler that holds no link when it goes on, and links that others hold.
LEMMA LinksGo ==
    ASSUME TypeOK, Links, NEW r \in Request, NEW q, req' = [req EXCEPT ![r] = q],
           q.tok = None, q.pc \notin {"attach", "reset"},
           \A t \in Token : /\ uses'[t] \in {0, 1}
                            /\ tok'[t].state \in {"unused", "live"} => uses'[t] = 0,
           \A x \in Request \ {r} : req[x].tok # None => tok'[req[x].tok].state = "live"
    PROVE  Links'
<1>1. req'[r] = q /\ \A x \in Request \ {r} : req'[x] = req[x]
    BY DEF TypeOK
<1>2. QED
    BY <1>1 DEF Links

LEMMA LinksStay ==
    ASSUME TypeOK, Links, NEW r \in Request, NEW q, req' = [req EXCEPT ![r] = q],
           q.tok = None, q.pc \notin {"attach", "reset"}, tok' = tok, uses' = uses
    PROVE  Links'
BY LinksGo DEF Links

\* A link is held by one transaction and has its effect once.
LEMMA LinksNext ==
    ASSUME TypeOK, Links, [Next]_vars
    PROVE  Links'
<1>1. ASSUME NEW r \in Request, NEW u \in Account, NEW a \in Address \cup {None},
             StartRegister(r, u, a)
      PROVE  Links'
    BY <1>1 DEF StartRegister, Start, Continue, Goto, End, Finish, Idle,
       Links, TypeOK, Handler, held, hist
<1>2. ASSUME NEW r \in Request, InsertUser(r) PROVE Links'
    <2> DEFINE w == [req[r] EXCEPT !.pc = "taken", !.read = 1]
    <2>1. req[r] \in Handler /\ req[r].tok = None
        BY <1>2 DEF InsertUser, Links, TypeOK
    <2>2. w.tok = None /\ w.pc = "taken" /\ Idle.tok = None /\ Idle.pc = "idle"
        BY <2>1 DEF Handler, Idle
    <2>3. req' = [req EXCEPT ![r] = Idle] \/ req' = [req EXCEPT ![r] = w]
        BY <1>2 DEF InsertUser, End, Continue
    <2>4. QED
        BY <1>2, <2>2, <2>3, LinksStay DEF InsertUser, hist
<1>3. ASSUME NEW r \in Request, NEW u \in Account, NEW p \in 1..MaxPw,
             StartLogin(r, u, p)
      PROVE  Links'
    BY <1>3 DEF StartLogin, Start, Continue, Goto, End, Finish, Idle,
       Links, TypeOK, Handler, held, hist
<1>4. ASSUME NEW r \in Request, NEW old \in BOOLEAN, Find(r, old) PROVE Links'
    <2> DEFINE u == req[r].user
               n == IF ~old /\ TRUE \in Generations THEN "findLegacy" ELSE Absent(req[r])
               v == [req[r] EXCEPT !.pc = "verify", !.read = pw[u], !.epoch = epoch[u],
                                   !.old = old]
               w == [req[r] EXCEPT !.pc = n]
    <2>1. req[r] \in Handler /\ req[r].tok = None
        BY <1>4 DEF Find, Links, TypeOK
    <2>2. n \in {"findLegacy", "verify", "address", "insert"}
        BY DEF Absent
    <2>3. /\ v.tok = None /\ v.pc = "verify" /\ w.tok = None /\ w.pc = n
          /\ Idle.tok = None /\ Idle.pc = "idle"
        BY <2>1 DEF Handler, Idle
    <2>4. \/ req' = [req EXCEPT ![r] = Idle] \/ req' = [req EXCEPT ![r] = v]
          \/ req' = [req EXCEPT ![r] = w]
        BY <1>4 DEF Find, Goto, End, Continue
    <2>5. QED
        BY <1>4, <2>2, <2>3, <2>4, LinksStay, ZenonT(60) DEF Find, hist
<1>5. ASSUME NEW r \in Request, CheckAddress(r) PROVE Links'
    BY <1>5 DEF CheckAddress, Start, Continue, Goto, End, Finish, Idle,
       Links, TypeOK, Handler, held, hist
<1>6. ASSUME NEW r \in Request, RecordFailure(r) PROVE Links'
    BY <1>6 DEF RecordFailure, Start, Continue, Goto, End, Finish, Idle,
       Links, TypeOK, Handler, held, hist
<1>7. ASSUME NEW r \in Request, ClearFailures(r) PROVE Links'
    BY <1>7 DEF ClearFailures, Start, Continue, Goto, End, Finish, Idle,
       Links, TypeOK, Handler, held, hist
<1>8. ASSUME NEW r \in Request, UpgradeHash(r) PROVE Links'
    BY <1>8 DEF UpgradeHash, Start, Continue, Goto, End, Finish, Idle,
       Links, TypeOK, Handler, held, hist
<1>9. ASSUME NEW r \in Request, AnswerLogin(r) PROVE Links'
    BY <1>9 DEF AnswerLogin, Start, Continue, Goto, End, Finish, Idle,
       Links, TypeOK, Handler, held, hist
<1>10. ASSUME NEW r \in Request, NEW u \in challenges, StartSecond(r, u) PROVE Links'
    BY <1>10 DEF StartSecond, Start, Continue, Goto, End, Finish, Idle,
       Links, TypeOK, Handler, held, hist
<1>11. ASSUME NEW r \in Request, AnswerSecond(r) PROVE Links'
    BY <1>11 DEF AnswerSecond, Start, Continue, Goto, End, Finish, Idle,
       Links, TypeOK, Handler, held, hist
<1>12. ASSUME NEW r \in Request, NEW s \in sessions, StartFactor(r, s) PROVE Links'
    BY <1>12 DEF StartFactor, Start, Continue, Goto, End, Finish, Idle,
       Links, TypeOK, Handler, held, hist
<1>13. ASSUME NEW r \in Request, ChangeFactor(r) PROVE Links'
    BY <1>13 DEF ChangeFactor, Start, Continue, Goto, End, Finish, Idle,
       Links, TypeOK, Handler, held, hist
<1>14. ASSUME NEW r \in Request, NEW s \in sessions, NEW route, NEW p \in 1..MaxPw,
              NEW a \in Address \cup {None},
              StartEmail(r, s, route, p, a)
       PROVE  Links'
    BY <1>14 DEF StartEmail, Start, Continue, Goto, End, Finish, Idle,
       Links, TypeOK, Handler, held, hist
<1>15. ASSUME NEW r \in Request, ProvePassword(r) PROVE Links'
    BY <1>15 DEF ProvePassword, Start, Continue, Goto, End, Finish, Idle,
       Links, TypeOK, Handler, held, hist
<1>16. ASSUME NEW r \in Request, CheckTaken(r) PROVE Links'
    <2>1. req[r] \in Handler /\ req[r].pc \notin {"attach", "reset"} /\ req[r].tok = None
        BY <1>16 DEF CheckTaken, Links, TypeOK
    <2>2. PICK q \in {Idle, [req[r] EXCEPT !.pc = "supersede"]} : req' = [req EXCEPT ![r] = q]
        BY <1>16 DEF CheckTaken, Goto, Finish, End, Continue
    <2>3. q.tok = None /\ q.pc \notin {"attach", "reset"}
        BY <2>1, <2>2 DEF Handler, Idle
    <2>4. QED
        BY <1>16, <2>2, <2>3, LinksStay DEF CheckTaken, hist
<1>17. ASSUME NEW r \in Request, Supersede(r) PROVE Links'
    <2>1. req[r] \in Handler /\ req[r].pc \notin {"attach", "reset"} /\ req[r].tok = None
        BY <1>17 DEF Supersede, Links, TypeOK
    <2>2. PICK q \in {[req[r] EXCEPT !.pc = "issue"]} : req' = [req EXCEPT ![r] = q]
        BY <1>17 DEF Supersede, Goto, Finish, End, Continue
    <2>3. q.tok = None /\ q.pc \notin {"attach", "reset"}
        BY <2>1, <2>2 DEF Handler, Idle
    <2>4. \A t \in Token : /\ tok'[t] = tok[t] \/ tok'[t].state = "gone"
                           /\ Claimed(t) => tok'[t] = tok[t]
        BY <1>17 DEF Supersede, TypeOK, TokenRow
    <2>5. uses' = uses
        BY <1>17 DEF Supersede, hist
    <2>6. \A x \in Request \ {r} : req[x].tok # None => tok'[req[x].tok].state = "live"
        <3>1. SUFFICES ASSUME NEW x \in Request, req[x].tok # None
                       PROVE  tok'[req[x].tok].state = "live"
            OBVIOUS
        <3>2. req[x].tok \in Token /\ tok[req[x].tok].state = "live" /\ Claimed(req[x].tok)
            BY <3>1 DEF TypeOK, Handler, Links, Claimed
        <3>3. QED
            BY <2>4, <3>2
    <2>7. \A t \in Token : /\ uses'[t] \in {0, 1}
                           /\ tok'[t].state \in {"unused", "live"} => uses'[t] = 0
        BY <2>4, <2>5 DEF Links
    <2>8. QED
        BY <2>2, <2>3, <2>6, <2>7, LinksGo
<1>18. ASSUME NEW r \in Request, IssueLink(r) PROVE Links'
    BY <1>18 DEF IssueLink, Start, Continue, Goto, End, Finish, Idle,
       Links, TypeOK, Handler, held, hist
<1>19. ASSUME NEW r \in Request, NEW u \in Account, StartRecovery(r, u) PROVE Links'
    BY <1>19 DEF StartRecovery, Start, Continue, Goto, End, Finish, Idle,
       Links, TypeOK, Handler, held, hist
<1>20. ASSUME NEW r \in Request, NEW t \in Token, NEW purpose \in {"verify", "reset"},
              Claim(r, t, purpose)
       PROVE  Links'
    <2> DEFINE route == IF purpose = "verify" THEN "verify" ELSE "reset"
               q == [Idle EXCEPT !.pc = IF purpose = "verify" THEN "attach" ELSE "reset",
                                 !.route = route, !.user = tok[t].user,
                                 !.addr = tok[t].addr, !.tok = t]
    <2>1. /\ req' = [req EXCEPT ![r] = q] /\ tok' = tok /\ uses' = uses
          /\ tok[t].state = "live" /\ \A x \in Request : req[x].tok # t
        BY <1>20 DEF Claim, Start, Free, Claimed, hist
    <2>2. q.tok = t /\ q.pc \in {"attach", "reset"}
        BY DEF Idle
    <2>3. req'[r] = q /\ \A x \in Request \ {r} : req'[x] = req[x]
        BY <2>1 DEF TypeOK
    <2>4. t # None
        BY ConstantsAssumption
    <2>5. QED
        BY <2>1, <2>2, <2>3, <2>4 DEF Links
<1>21. ASSUME NEW r \in Request, AttachEmail(r) PROVE Links'
    <2> DEFINE l == req[r].tok
    <2>1. l \in Token /\ tok[l].state = "live" /\ uses[l] = 0
        BY <1>21 DEF AttachEmail, Links, TypeOK, Handler
    <2>2. req' = [req EXCEPT ![r] = Idle] /\ Idle.tok = None /\ Idle.pc = "idle"
        BY <1>21 DEF AttachEmail, End, Continue, Idle
    <2>3. \A t \in Token \ {l} : tok'[t] = tok[t] /\ uses'[t] = uses[t]
        BY <1>21, <2>1 DEF AttachEmail, TypeOK
    <2>4. \/ tok'[l] = tok[l] /\ uses'[l] = 0
          \/ tok'[l].state = "used" /\ uses'[l] = 1
        BY <1>21, <2>1 DEF AttachEmail, TypeOK, TokenRow
    <2>5. \A x \in Request \ {r} : req[x].tok # l
        BY <1>21, <2>1, ConstantsAssumption DEF AttachEmail, Links
    <2>6. QED
        BY <2>1, <2>2, <2>3, <2>4, <2>5, LinksGo DEF Links, TypeOK, Handler
<1>22. ASSUME NEW r \in Request, ResetPassword(r) PROVE Links'
    <2> DEFINE l == req[r].tok
               u == req[r].user
               q == [req[r] EXCEPT !.pc = "answer", !.read = pw[u] + 1,
                                   !.epoch = NextEpoch(u), !.tok = None]
    <2>1. l \in Token /\ tok[l].state = "live" /\ uses[l] = 0 /\ req[r] \in Handler
        BY <1>22 DEF ResetPassword, Links, TypeOK, Handler
    <2>2. req' = [req EXCEPT ![r] = q] /\ q.tok = None /\ q.pc = "answer"
        BY <1>22, <2>1 DEF ResetPassword, Continue, Handler
    <2>3. \A t \in Token \ {l} : tok'[t] = tok[t] /\ uses'[t] = uses[t]
        BY <1>22, <2>1 DEF ResetPassword, TypeOK
    <2>4. tok'[l].state = "used" /\ uses'[l] = 1
        BY <1>22, <2>1 DEF ResetPassword, TypeOK, TokenRow
    <2>5. \A x \in Request \ {r} : req[x].tok # l
        BY <1>22, <2>1, ConstantsAssumption DEF ResetPassword, Links
    <2>6. QED
        BY <2>1, <2>2, <2>3, <2>4, <2>5, LinksGo, SMTT(30) DEF Links, TypeOK, Handler
<1>23. ASSUME NEW r \in Request, AnswerReset(r) PROVE Links'
    BY <1>23 DEF AnswerReset, Start, Continue, Goto, End, Finish, Idle,
       Links, TypeOK, Handler, held, hist
<1>24. ASSUME NEW r \in Request, DetachEmail(r) PROVE Links'
    BY <1>24 DEF DetachEmail, Start, Continue, Goto, End, Finish, Idle,
       Links, TypeOK, Handler, held, hist
<1>25. ASSUME NEW r \in Request, ForgetLinks(r) PROVE Links'
    <2>1. req[r] \in Handler /\ req[r].pc \notin {"attach", "reset"} /\ req[r].tok = None
        BY <1>25 DEF ForgetLinks, Links, TypeOK
    <2>2. PICK q \in {Idle} : req' = [req EXCEPT ![r] = q]
        BY <1>25 DEF ForgetLinks, Goto, Finish, End, Continue
    <2>3. q.tok = None /\ q.pc \notin {"attach", "reset"}
        BY <2>1, <2>2 DEF Handler, Idle
    <2>4. \A t \in Token : /\ tok'[t] = tok[t] \/ tok'[t].state = "gone"
                           /\ Claimed(t) => tok'[t] = tok[t]
        BY <1>25 DEF ForgetLinks, TypeOK, TokenRow
    <2>5. uses' = uses
        BY <1>25 DEF ForgetLinks, hist
    <2>6. \A x \in Request \ {r} : req[x].tok # None => tok'[req[x].tok].state = "live"
        <3>1. SUFFICES ASSUME NEW x \in Request, req[x].tok # None
                       PROVE  tok'[req[x].tok].state = "live"
            OBVIOUS
        <3>2. req[x].tok \in Token /\ tok[req[x].tok].state = "live" /\ Claimed(req[x].tok)
            BY <3>1 DEF TypeOK, Handler, Links, Claimed
        <3>3. QED
            BY <2>4, <3>2
    <2>7. \A t \in Token : /\ uses'[t] \in {0, 1}
                           /\ tok'[t].state \in {"unused", "live"} => uses'[t] = 0
        BY <2>4, <2>5 DEF Links
    <2>8. QED
        BY <2>2, <2>3, <2>6, <2>7, LinksGo
<1>26. ASSUME NEW u \in Account, Unlock(u) PROVE Links'
    BY <1>26 DEF Unlock, Links, reqs
<1>27. ASSUME NEW r \in Request, Throw(r) PROVE Links'
    <2>1. req[r] \in Handler
        BY DEF TypeOK
    <2>2. PICK q \in {Idle, [req[r] EXCEPT !.pc = "creds"]} :
            req' = [req EXCEPT ![r] = q] /\ (q # Idle => req[r].pc = "upgrade")
        BY <1>27 DEF Throw, Goto, Finish, End, Continue
    <2>3. q.tok = None /\ q.pc \notin {"attach", "reset"}
        BY <2>1, <2>2 DEF Handler, Idle, Links
    <2>4. QED
        BY <1>27, <2>2, <2>3, LinksStay DEF Throw, hist
<1>28. CASE UNCHANGED vars
    BY <1>28 DEF vars, users, reqs, held, hist, Start, Continue, Goto, End, Finish, Idle,
       Links, TypeOK, Handler, held, hist
<1>29. QED
    BY <1>1, <1>2, <1>3, <1>4, <1>5, <1>6, <1>7, <1>8, <1>9, <1>10, <1>11, <1>12, <1>13,
       <1>14, <1>15, <1>16, <1>17, <1>18, <1>19, <1>20, <1>21, <1>22, <1>23, <1>24,
       <1>25, <1>26, <1>27, <1>28 DEF Next

\* An address that is attached stays one account's.
LEMMA OwnerNext ==
    ASSUME TypeOK, OneOwnerPerAddress, [Next]_vars
    PROVE  OneOwnerPerAddress'
<1>1. ASSUME NEW r \in Request, NEW u \in Account, NEW a \in Address \cup {None},
             StartRegister(r, u, a)
      PROVE  OneOwnerPerAddress'
    BY <1>1 DEF StartRegister, OneOwnerPerAddress, Attachable, TypeOK, users
<1>2. ASSUME NEW r \in Request, InsertUser(r) PROVE OneOwnerPerAddress'
    BY <1>2 DEF InsertUser, OneOwnerPerAddress, Attachable, TypeOK, users
<1>3. ASSUME NEW r \in Request, NEW u \in Account, NEW p \in 1..MaxPw,
             StartLogin(r, u, p)
      PROVE  OneOwnerPerAddress'
    BY <1>3 DEF StartLogin, OneOwnerPerAddress, Attachable, TypeOK, users
<1>4. ASSUME NEW r \in Request, NEW old \in BOOLEAN, Find(r, old) PROVE OneOwnerPerAddress'
    BY <1>4 DEF Find, OneOwnerPerAddress, Attachable, TypeOK, users
<1>5. ASSUME NEW r \in Request, CheckAddress(r) PROVE OneOwnerPerAddress'
    BY <1>5 DEF CheckAddress, OneOwnerPerAddress, Attachable, TypeOK, users
<1>6. ASSUME NEW r \in Request, RecordFailure(r) PROVE OneOwnerPerAddress'
    BY <1>6 DEF RecordFailure, OneOwnerPerAddress, Attachable, TypeOK, users
<1>7. ASSUME NEW r \in Request, ClearFailures(r) PROVE OneOwnerPerAddress'
    BY <1>7 DEF ClearFailures, OneOwnerPerAddress, Attachable, TypeOK, users
<1>8. ASSUME NEW r \in Request, UpgradeHash(r) PROVE OneOwnerPerAddress'
    BY <1>8 DEF UpgradeHash, OneOwnerPerAddress, Attachable, TypeOK, users
<1>9. ASSUME NEW r \in Request, AnswerLogin(r) PROVE OneOwnerPerAddress'
    BY <1>9 DEF AnswerLogin, OneOwnerPerAddress, Attachable, TypeOK, users
<1>10. ASSUME NEW r \in Request, NEW u \in challenges,
              StartSecond(r, u)
       PROVE  OneOwnerPerAddress'
    BY <1>10 DEF StartSecond, OneOwnerPerAddress, Attachable, TypeOK, users
<1>11. ASSUME NEW r \in Request, AnswerSecond(r) PROVE OneOwnerPerAddress'
    BY <1>11 DEF AnswerSecond, OneOwnerPerAddress, Attachable, TypeOK, users
<1>12. ASSUME NEW r \in Request, NEW s \in sessions,
              StartFactor(r, s)
       PROVE  OneOwnerPerAddress'
    BY <1>12 DEF StartFactor, OneOwnerPerAddress, Attachable, TypeOK, users
<1>13. ASSUME NEW r \in Request, ChangeFactor(r) PROVE OneOwnerPerAddress'
    BY <1>13 DEF ChangeFactor, OneOwnerPerAddress, Attachable, TypeOK, users
<1>14. ASSUME NEW r \in Request, NEW s \in sessions, NEW route, NEW p \in 1..MaxPw,
              NEW a \in Address \cup {None},
              StartEmail(r, s, route, p, a)
       PROVE  OneOwnerPerAddress'
    BY <1>14 DEF StartEmail, OneOwnerPerAddress, Attachable, TypeOK, users
<1>15. ASSUME NEW r \in Request, ProvePassword(r) PROVE OneOwnerPerAddress'
    BY <1>15 DEF ProvePassword, OneOwnerPerAddress, Attachable, TypeOK, users
<1>16. ASSUME NEW r \in Request, CheckTaken(r) PROVE OneOwnerPerAddress'
    BY <1>16 DEF CheckTaken, OneOwnerPerAddress, Attachable, TypeOK, users
<1>17. ASSUME NEW r \in Request, Supersede(r) PROVE OneOwnerPerAddress'
    BY <1>17 DEF Supersede, OneOwnerPerAddress, Attachable, TypeOK, users
<1>18. ASSUME NEW r \in Request, IssueLink(r) PROVE OneOwnerPerAddress'
    BY <1>18 DEF IssueLink, OneOwnerPerAddress, Attachable, TypeOK, users
<1>19. ASSUME NEW r \in Request, NEW u \in Account,
              StartRecovery(r, u)
       PROVE  OneOwnerPerAddress'
    BY <1>19 DEF StartRecovery, OneOwnerPerAddress, Attachable, TypeOK, users
<1>20. ASSUME NEW r \in Request, NEW t \in Token, NEW purpose \in {"verify", "reset"},
              Claim(r, t, purpose)
       PROVE  OneOwnerPerAddress'
    BY <1>20 DEF Claim, OneOwnerPerAddress, Attachable, TypeOK, users
<1>21. ASSUME NEW r \in Request, AttachEmail(r) PROVE OneOwnerPerAddress'
    BY <1>21 DEF AttachEmail, OneOwnerPerAddress, Attachable, TypeOK, users
<1>22. ASSUME NEW r \in Request, ResetPassword(r) PROVE OneOwnerPerAddress'
    BY <1>22 DEF ResetPassword, OneOwnerPerAddress, Attachable, TypeOK, users
<1>23. ASSUME NEW r \in Request, AnswerReset(r) PROVE OneOwnerPerAddress'
    BY <1>23 DEF AnswerReset, OneOwnerPerAddress, Attachable, TypeOK, users
<1>24. ASSUME NEW r \in Request, DetachEmail(r) PROVE OneOwnerPerAddress'
    BY <1>24 DEF DetachEmail, OneOwnerPerAddress, Attachable, TypeOK, users
<1>25. ASSUME NEW r \in Request, ForgetLinks(r) PROVE OneOwnerPerAddress'
    BY <1>25 DEF ForgetLinks, OneOwnerPerAddress, Attachable, TypeOK, users
<1>26. ASSUME NEW u \in Account, Unlock(u) PROVE OneOwnerPerAddress'
    BY <1>26 DEF Unlock, OneOwnerPerAddress, Attachable, TypeOK, users
<1>27. ASSUME NEW r \in Request, Throw(r) PROVE OneOwnerPerAddress'
    BY <1>27 DEF Throw, OneOwnerPerAddress, Attachable, TypeOK, users
<1>28. CASE UNCHANGED vars
    BY <1>28 DEF vars, users, reqs, held, hist, OneOwnerPerAddress, Attachable, TypeOK, users
<1>29. QED
    BY <1>1, <1>2, <1>3, <1>4, <1>5, <1>6, <1>7, <1>8, <1>9, <1>10, <1>11, <1>12, <1>13,
       <1>14, <1>15, <1>16, <1>17, <1>18, <1>19, <1>20, <1>21, <1>22, <1>23, <1>24,
       <1>25, <1>26, <1>27, <1>28 DEF Next

---------------------------------------------------------------------------
(* The lockout                                                             *)

\* Whether a handler state tries a password.
Tries(q) == q.route = "login" /\ q.pc \in {"find", "findLegacy", "verify"}

\* There are no more of them than requests.
LEMMA TryingCount ==
    \A T \in SUBSET Request :
        /\ IsFiniteSet(T) /\ Cardinality(T) \in Nat /\ Cardinality(Request) \in Nat
        /\ Cardinality(T) <= Cardinality(Request)
        /\ \A S \in SUBSET T : Cardinality(S) <= Cardinality(T)
        /\ \A r \in T : Cardinality(T \ {r}) = Cardinality(T) - 1
        /\ \A r \in Request \ T : Cardinality(T) <= Cardinality(Request) - 1
<1> SUFFICES ASSUME NEW T \in SUBSET Request
             PROVE  /\ IsFiniteSet(T) /\ Cardinality(T) \in Nat /\ Cardinality(Request) \in Nat
                    /\ Cardinality(T) <= Cardinality(Request)
                    /\ \A S \in SUBSET T : Cardinality(S) <= Cardinality(T)
                    /\ \A r \in T : Cardinality(T \ {r}) = Cardinality(T) - 1
                    /\ \A r \in Request \ T : Cardinality(T) <= Cardinality(Request) - 1
    OBVIOUS
<1>1. IsFiniteSet(Request) /\ IsFiniteSet(T)
    BY ConstantsAssumption, FS_Subset
<1>2. Cardinality(T) \in Nat /\ Cardinality(Request) \in Nat
    BY <1>1, FS_CardinalityType
<1>3. Cardinality(T) <= Cardinality(Request) /\ \A S \in SUBSET T : Cardinality(S) <= Cardinality(T)
    BY <1>1, FS_Subset
<1>4. ASSUME NEW r \in T PROVE Cardinality(T \ {r}) = Cardinality(T) - 1
    BY <1>1, FS_RemoveElement
<1>5. ASSUME NEW r \in Request \ T PROVE Cardinality(T) <= Cardinality(Request) - 1
    <2>1. Cardinality(Request \ {r}) = Cardinality(Request) - 1 /\ IsFiniteSet(Request \ {r})
        BY <1>1, FS_RemoveElement
    <2>2. T \subseteq Request \ {r}
        OBVIOUS
    <2>3. Cardinality(T) <= Cardinality(Request \ {r})
        BY <2>1, <2>2, FS_Subset
    <2>4. QED
        BY <2>1, <2>3
<1>6. QED
    BY <1>1, <1>2, <1>3, <1>4, <1>5

\* A handler that goes on does not begin to try a password.
LEMMA TryingFewer ==
    ASSUME TypeOK, NEW r \in Request, NEW q, req' = [req EXCEPT ![r] = q],
           Tries(q) => Tries(req[r]) /\ q.user = req[r].user
    PROVE  \A u \in Account : Trying(u)' \subseteq Trying(u)
<1>1. req'[r] = q /\ \A x \in Request \ {r} : req'[x] = req[x]
    BY DEF TypeOK
<1>2. QED
    BY <1>1 DEF Trying, Tries

\* The lockout is not touched.
LEMMA LockoutStay ==
    ASSUME TypeOK, Lockout, NEW r \in Request, NEW q, req' = [req EXCEPT ![r] = q],
           Tries(q) => Tries(req[r]) /\ q.user = req[r].user,
           failures' = failures, locked' = locked, misses' = misses
    PROVE  Lockout'
<1>1. ASSUME NEW u \in Account, locked[u]
      PROVE  misses[u] + Cardinality(Trying(u)') <= MaxFailures - 1 + Cardinality(Request)
    <2>1. Trying(u)' \subseteq Trying(u) /\ Trying(u) \in SUBSET Request
        BY TryingFewer DEF Trying
    <2>2. /\ Cardinality(Trying(u)') <= Cardinality(Trying(u))
          /\ Cardinality(Trying(u)') \in Nat /\ Cardinality(Trying(u)) \in Nat
          /\ Cardinality(Request) \in Nat
        BY <2>1, TryingCount
    <2>3. misses[u] + Cardinality(Trying(u)) <= MaxFailures - 1 + Cardinality(Request)
        BY <1>1 DEF Lockout
    <2>4. misses[u] \in Nat /\ MaxFailures \in Nat
        BY ConstantsAssumption DEF TypeOK
    <2>5. QED
        BY <2>2, <2>3, <2>4
<1>2. QED
    BY <1>1 DEF Lockout

\* An account that is opened has not been tried.
LEMMA LockoutOpened ==
    ASSUME TypeOK, Lockout, NEW r \in Request, NEW q, req' = [req EXCEPT ![r] = q],
           Tries(q) => Tries(req[r]) /\ q.user = req[r].user, NEW u \in Account,
           failures' = [failures EXCEPT ![u] = 0], locked' = [locked EXCEPT ![u] = FALSE],
           misses' = [misses EXCEPT ![u] = 0]
    PROVE  Lockout'
<1>1. ASSUME NEW v \in Account \ {u}, locked[v]
      PROVE  misses[v] + Cardinality(Trying(v)') <= MaxFailures - 1 + Cardinality(Request)
    <2>1. Trying(v)' \subseteq Trying(v) /\ Trying(v) \in SUBSET Request
        BY TryingFewer DEF Trying
    <2>2. /\ Cardinality(Trying(v)') <= Cardinality(Trying(v))
          /\ Cardinality(Trying(v)') \in Nat /\ Cardinality(Trying(v)) \in Nat
          /\ Cardinality(Request) \in Nat
        BY <2>1, TryingCount
    <2>3. misses[v] + Cardinality(Trying(v)) <= MaxFailures - 1 + Cardinality(Request)
        BY <1>1 DEF Lockout
    <2>4. misses[v] \in Nat /\ MaxFailures \in Nat
        BY ConstantsAssumption DEF TypeOK
    <2>5. QED
        BY <2>2, <2>3, <2>4
<1>2. /\ ~locked'[u] /\ misses'[u] = 0 /\ failures'[u] = 0
      /\ \A v \in Account \ {u} :
            locked'[v] = locked[v] /\ misses'[v] = misses[v] /\ failures'[v] = failures[v]
    BY DEF TypeOK
<1>3. 0 < MaxFailures
    BY ConstantsAssumption
<1>4. QED
    BY <1>1, <1>2, <1>3 DEF Lockout

LEMMA IdleTriesNot == ~Tries(Idle) /\ Idle.pc = "idle"
BY DEF Tries, Idle

\* Every step keeps the count of the tries.
LEMMA LockoutNext ==
    ASSUME TypeOK, Reads, Lockout, [Next]_vars
    PROVE  Lockout'
<1>1. ASSUME NEW r \in Request, NEW u \in Account, NEW a \in Address \cup {None},
             StartRegister(r, u, a)
      PROVE  Lockout'
    <2> DEFINE q == [Idle EXCEPT !.pc = "find", !.user = u, !.route = "register", !.addr = a]
    <2>1. req' = [req EXCEPT ![r] = q] /\ failures' = failures /\ locked' = locked /\ misses' = misses
        BY <1>1 DEF StartRegister, Start, hist
    <2>2. ~Tries(q)
        BY <1>1 DEF Tries, Idle
    <2>3. QED
        BY <2>1, <2>2, LockoutStay
<1>2. ASSUME NEW r \in Request, InsertUser(r) PROVE Lockout'
    <2> DEFINE w == [req[r] EXCEPT !.pc = "taken", !.read = 1]
    <2>1. failures' = failures /\ locked' = locked /\ misses' = misses
        BY <1>2 DEF InsertUser, hist
    <2>2. req[r] \in Handler /\ w.pc = "taken"
        BY DEF TypeOK, Handler
    <2>3. req' = [req EXCEPT ![r] = Idle] \/ req' = [req EXCEPT ![r] = w]
        BY <1>2 DEF InsertUser, Goto, Finish, End, Continue
    <2>4. QED
        BY <2>1, <2>2, <2>3, IdleTriesNot, LockoutStay DEF Tries
<1>3. ASSUME NEW r \in Request, NEW u \in Account, NEW p \in 1..MaxPw,
             StartLogin(r, u, p)
      PROVE  Lockout'
    <2> DEFINE q == [Idle EXCEPT !.pc = "find", !.user = u, !.pass = p]
    <2>1. req' = [req EXCEPT ![r] = q] /\ failures' = failures /\ locked' = locked
          /\ misses' = misses /\ ~locked[u] /\ req[r] = Idle
        BY <1>3 DEF StartLogin, Start, Open, hist
    <2>2. req'[r] = q /\ q.user = u /\ \A x \in Request \ {r} : req'[x] = req[x]
        BY <2>1 DEF TypeOK, Idle
    <2>3. \A v \in Account \ {u} : Trying(v)' = Trying(v)
        BY <2>1, <2>2, IdleTriesNot DEF Trying, Tries
    <2>4. QED
        BY <2>1, <2>3 DEF Lockout
<1>4. ASSUME NEW r \in Request, NEW old \in BOOLEAN, Find(r, old) PROVE Lockout'
    <2> DEFINE u == req[r].user
               n == IF ~old /\ TRUE \in Generations THEN "findLegacy" ELSE Absent(req[r])
               v == [req[r] EXCEPT !.pc = "verify", !.read = pw[u], !.epoch = epoch[u],
                                   !.old = old]
               w == [req[r] EXCEPT !.pc = n]
    <2>1. failures' = failures /\ locked' = locked /\ misses' = misses
        BY <1>4 DEF Find, hist
    <2>2. req[r] \in Handler /\ req[r].pc \in {"find", "findLegacy"}
        BY <1>4 DEF Find, TypeOK
    <2>3. /\ v.route = req[r].route /\ v.user = u
          /\ w.route = req[r].route /\ w.user = u
        BY <2>2 DEF Handler
    <2>4. \/ req' = [req EXCEPT ![r] = Idle] \/ req' = [req EXCEPT ![r] = v]
          \/ req' = [req EXCEPT ![r] = w]
        BY <1>4 DEF Find, Goto, End, Continue
    <2>5. (Tries(v) => Tries(req[r])) /\ (Tries(w) => Tries(req[r]))
        BY <2>2, <2>3 DEF Tries
    <2>6. QED
        BY <2>1, <2>3, <2>4, <2>5, IdleTriesNot, LockoutStay
<1>5. ASSUME NEW r \in Request, CheckAddress(r) PROVE Lockout'
    <2> DEFINE w == [req[r] EXCEPT !.pc = "insert"]
    <2>1. failures' = failures /\ locked' = locked /\ misses' = misses
        BY <1>5 DEF CheckAddress, hist
    <2>2. req[r] \in Handler /\ w.pc = "insert"
        BY DEF TypeOK, Handler
    <2>3. req' = [req EXCEPT ![r] = Idle] \/ req' = [req EXCEPT ![r] = w]
        BY <1>5 DEF CheckAddress, Goto, Finish, End, Continue
    <2>4. QED
        BY <2>1, <2>2, <2>3, IdleTriesNot, LockoutStay DEF Tries
<1>6. ASSUME NEW r \in Request, RecordFailure(r) PROVE Lockout'
    <2>1. req[r].user \in Account /\ req[r].pc = "verify" /\ req[r].route = "login"
        BY <1>6 DEF RecordFailure, TypeOK, Reads, ReadOK
    <2>2. PICK u \in Account : u = req[r].user
        BY <2>1
    <2> DEFINE m == Cardinality(Trying(u))
               n == Cardinality(Trying(u)')
    <2>3. req' = [req EXCEPT ![r] = Idle]
        BY <1>6 DEF RecordFailure, End, Continue
    <2>4. req'[r] = Idle /\ \A x \in Request \ {r} : req'[x] = req[x]
        BY <2>3 DEF TypeOK
    <2>5. /\ Trying(u)' = Trying(u) \ {r} /\ r \in Trying(u) /\ Trying(u) \in SUBSET Request
          /\ \A v \in Account \ {u} : Trying(v)' = Trying(v)
        <3>1. ~Tries(req'[r]) /\ Tries(req[r])
            BY <2>1, <2>4, IdleTriesNot DEF Tries
        <3>2. QED
            BY <2>2, <2>4, <3>1 DEF Trying, Tries
    <2>6. /\ m \in Nat /\ n \in Nat /\ n = m - 1 /\ Cardinality(Request) \in Nat
          /\ m <= Cardinality(Request)
        BY <2>5, TryingCount
    <2>7. /\ misses'[u] = misses[u] + 1
          /\ failures'[u] = IF failures[u] > MaxFailures THEN failures[u] ELSE failures[u] + 1
          /\ locked'[u] = (locked[u] \/ Full(failures[u] + 1))
          /\ \A v \in Account \ {u} : /\ misses'[v] = misses[v] /\ failures'[v] = failures[v]
                                       /\ locked'[v] = locked[v]
        BY <1>6, <2>2 DEF RecordFailure, TypeOK
    <2>8. /\ misses[u] \in Nat /\ failures[u] \in Nat /\ MaxFailures \in Nat
          /\ locked[u] \in BOOLEAN
        BY <2>2, ConstantsAssumption DEF TypeOK
    <2>9. locked'[u] => misses'[u] + n <= MaxFailures - 1 + Cardinality(Request)
        <3>1. CASE locked[u]
            <4>1. misses[u] + m <= MaxFailures - 1 + Cardinality(Request)
                BY <2>2, <3>1 DEF Lockout
            <4>2. QED
                BY <2>6, <2>7, <2>8, <4>1
        <3>2. CASE ~locked[u]
            <4>1. misses[u] < MaxFailures
                BY <2>2, <3>2 DEF Lockout
            <4>2. QED
                BY <2>6, <2>7, <2>8, <4>1
        <3>3. QED
            BY <3>1, <3>2
    <2>10. ~locked'[u] => misses'[u] <= failures'[u] /\ misses'[u] < MaxFailures
        <3>1. SUFFICES ASSUME ~locked'[u]
                       PROVE  misses'[u] <= failures'[u] /\ misses'[u] < MaxFailures
            OBVIOUS
        <3>2. ~locked[u] /\ ~(failures[u] + 1 >= MaxFailures)
            BY <2>7, <3>1 DEF Full
        <3>3. misses[u] <= failures[u]
            BY <2>2, <3>2 DEF Lockout
        <3>4. QED
            BY <2>7, <2>8, <3>2, <3>3
    <2>11. ASSUME NEW v \in Account \ {u}
           PROVE  /\ ~locked'[v] => misses'[v] <= failures'[v] /\ misses'[v] < MaxFailures
                  /\ locked'[v] => misses'[v] + Cardinality(Trying(v)')
                                       <= MaxFailures - 1 + Cardinality(Request)
        BY <2>5, <2>7 DEF Lockout
    <2>12. \A v \in Account :
            /\ ~locked'[v] => misses'[v] <= failures'[v] /\ misses'[v] < MaxFailures
            /\ locked'[v] => misses'[v] + Cardinality(Trying(v)')
                                 <= MaxFailures - 1 + Cardinality(Request)
        BY <2>9, <2>10, <2>11
    <2>13. QED
        BY <2>12 DEF Lockout
<1>7. ASSUME NEW r \in Request, ClearFailures(r) PROVE Lockout'
    <2> DEFINE u == req[r].user
               n == IF req[r].old THEN "upgrade" ELSE "creds"
               w == [req[r] EXCEPT !.pc = n]
    <2>1. u \in Account /\ req[r] \in Handler
        BY <1>7 DEF ClearFailures, TypeOK
    <2>2. /\ failures' = [failures EXCEPT ![u] = 0] /\ locked' = [locked EXCEPT ![u] = FALSE]
          /\ misses' = [misses EXCEPT ![u] = 0] /\ req' = [req EXCEPT ![r] = w]
        BY <1>7 DEF ClearFailures, Goto, Continue
    <2>3. ~Tries(w)
        BY <2>1 DEF Tries, Handler
    <2>4. QED
        BY <2>1, <2>2, <2>3, LockoutOpened
<1>8. ASSUME NEW r \in Request, UpgradeHash(r) PROVE Lockout'
    <2> DEFINE w == [req[r] EXCEPT !.pc = "creds"]
    <2>1. failures' = failures /\ locked' = locked /\ misses' = misses
        BY <1>8 DEF UpgradeHash, hist
    <2>2. req[r] \in Handler /\ w.pc = "creds"
        BY DEF TypeOK, Handler
    <2>3. req' = [req EXCEPT ![r] = Idle] \/ req' = [req EXCEPT ![r] = w]
        BY <1>8 DEF UpgradeHash, Goto, Finish, End, Continue
    <2>4. QED
        BY <2>1, <2>2, <2>3, IdleTriesNot, LockoutStay DEF Tries
<1>9. ASSUME NEW r \in Request, AnswerLogin(r) PROVE Lockout'
    <2>1. req' = [req EXCEPT ![r] = Idle] /\ failures' = failures /\ locked' = locked /\ misses' = misses
        BY <1>9 DEF AnswerLogin, End, Continue, hist
    <2>2. QED
        BY <2>1, IdleTriesNot, LockoutStay
<1>10. ASSUME NEW r \in Request, NEW u \in challenges, StartSecond(r, u) PROVE Lockout'
    <2> DEFINE q == [Idle EXCEPT !.pc = "second", !.user = u, !.route = "2fa"]
    <2>1. req' = [req EXCEPT ![r] = q] /\ failures' = failures /\ locked' = locked /\ misses' = misses
        BY <1>10 DEF StartSecond, Start, hist
    <2>2. ~Tries(q)
        BY <1>10 DEF Tries, Idle
    <2>3. QED
        BY <2>1, <2>2, LockoutStay
<1>11. ASSUME NEW r \in Request, AnswerSecond(r) PROVE Lockout'
    <2>1. req' = [req EXCEPT ![r] = Idle] /\ failures' = failures /\ locked' = locked /\ misses' = misses
        BY <1>11 DEF AnswerSecond, End, Continue, hist
    <2>2. QED
        BY <2>1, IdleTriesNot, LockoutStay
<1>12. ASSUME NEW r \in Request, NEW s \in sessions, StartFactor(r, s) PROVE Lockout'
    <2> DEFINE q == [Idle EXCEPT !.pc = "factor", !.user = s.user, !.route = "factor"]
    <2>1. req' = [req EXCEPT ![r] = q] /\ failures' = failures /\ locked' = locked /\ misses' = misses
        BY <1>12 DEF StartFactor, Start, hist
    <2>2. ~Tries(q)
        BY <1>12 DEF Tries, Idle
    <2>3. QED
        BY <2>1, <2>2, LockoutStay
<1>13. ASSUME NEW r \in Request, ChangeFactor(r) PROVE Lockout'
    <2>1. req' = [req EXCEPT ![r] = Idle] /\ failures' = failures /\ locked' = locked /\ misses' = misses
        BY <1>13 DEF ChangeFactor, End, Continue, hist
    <2>2. QED
        BY <2>1, IdleTriesNot, LockoutStay
<1>14. ASSUME NEW r \in Request, NEW s \in sessions, NEW route, NEW p \in 1..MaxPw,
              NEW a \in Address \cup {None},
              StartEmail(r, s, route, p, a)
       PROVE  Lockout'
    <2> DEFINE q == [Idle EXCEPT !.pc = "prove", !.user = s.user, !.pass = p,
                                 !.route = route, !.addr = a]
    <2>1. req' = [req EXCEPT ![r] = q] /\ failures' = failures /\ locked' = locked /\ misses' = misses
        BY <1>14 DEF StartEmail, Start, hist
    <2>2. ~Tries(q)
        BY <1>14 DEF Tries, Idle, StartEmail
    <2>3. QED
        BY <2>1, <2>2, LockoutStay
<1>15. ASSUME NEW r \in Request, ProvePassword(r) PROVE Lockout'
    <2> DEFINE n == IF req[r].route = "email" THEN "taken" ELSE "detach"
               w == [req[r] EXCEPT !.pc = n]
    <2>1. failures' = failures /\ locked' = locked /\ misses' = misses
        BY <1>15 DEF ProvePassword, hist
    <2>2. req[r] \in Handler /\ w.pc = n /\ n \in {"taken", "detach"}
        BY DEF TypeOK, Handler
    <2>3. req' = [req EXCEPT ![r] = Idle] \/ req' = [req EXCEPT ![r] = w]
        BY <1>15 DEF ProvePassword, Goto, End, Continue
    <2>4. QED
        BY <2>1, <2>2, <2>3, IdleTriesNot, LockoutStay DEF Tries
<1>16. ASSUME NEW r \in Request, CheckTaken(r) PROVE Lockout'
    <2> DEFINE w == [req[r] EXCEPT !.pc = "supersede"]
    <2>1. failures' = failures /\ locked' = locked /\ misses' = misses
        BY <1>16 DEF CheckTaken, hist
    <2>2. req[r] \in Handler /\ w.pc = "supersede"
        BY DEF TypeOK, Handler
    <2>3. req' = [req EXCEPT ![r] = Idle] \/ req' = [req EXCEPT ![r] = w]
        BY <1>16 DEF CheckTaken, Goto, Finish, End, Continue
    <2>4. QED
        BY <2>1, <2>2, <2>3, IdleTriesNot, LockoutStay DEF Tries
<1>17. ASSUME NEW r \in Request, Supersede(r) PROVE Lockout'
    <2> DEFINE w == [req[r] EXCEPT !.pc = "issue"]
    <2>1. failures' = failures /\ locked' = locked /\ misses' = misses
        BY <1>17 DEF Supersede, hist
    <2>2. req[r] \in Handler /\ w.pc = "issue"
        BY DEF TypeOK, Handler
    <2>3. req' = [req EXCEPT ![r] = Idle] \/ req' = [req EXCEPT ![r] = w]
        BY <1>17 DEF Supersede, Goto, Finish, End, Continue
    <2>4. QED
        BY <2>1, <2>2, <2>3, IdleTriesNot, LockoutStay DEF Tries
<1>18. ASSUME NEW r \in Request, IssueLink(r) PROVE Lockout'
    <2>1. req' = [req EXCEPT ![r] = Idle] /\ failures' = failures /\ locked' = locked /\ misses' = misses
        BY <1>18 DEF IssueLink, Finish, End, Continue, hist
    <2>2. QED
        BY <2>1, IdleTriesNot, LockoutStay
<1>19. ASSUME NEW r \in Request, NEW u \in Account, StartRecovery(r, u) PROVE Lockout'
    <2> DEFINE q == [Idle EXCEPT !.pc = "supersede", !.user = u, !.route = "recovery"]
    <2>1. req' = [req EXCEPT ![r] = q] /\ failures' = failures /\ locked' = locked /\ misses' = misses
        BY <1>19 DEF StartRecovery, Start, hist
    <2>2. ~Tries(q)
        BY <1>19 DEF Tries, Idle
    <2>3. QED
        BY <2>1, <2>2, LockoutStay
<1>20. ASSUME NEW r \in Request, NEW t \in Token, NEW purpose \in {"verify", "reset"},
              Claim(r, t, purpose)
       PROVE  Lockout'
    <2> DEFINE q == [Idle EXCEPT !.pc = IF purpose = "verify" THEN "attach" ELSE "reset",
                                 !.route = IF purpose = "verify" THEN "verify" ELSE "reset",
                                 !.user = tok[t].user, !.addr = tok[t].addr, !.tok = t]
    <2>1. req' = [req EXCEPT ![r] = q] /\ failures' = failures /\ locked' = locked /\ misses' = misses
        BY <1>20 DEF Claim, Start, hist
    <2>2. ~Tries(q)
        BY <1>20 DEF Tries, Idle
    <2>3. QED
        BY <2>1, <2>2, LockoutStay
<1>21. ASSUME NEW r \in Request, AttachEmail(r) PROVE Lockout'
    <2>1. req' = [req EXCEPT ![r] = Idle] /\ failures' = failures /\ locked' = locked /\ misses' = misses
        BY <1>21 DEF AttachEmail, End, Continue, hist
    <2>2. QED
        BY <2>1, IdleTriesNot, LockoutStay
<1>22. ASSUME NEW r \in Request, ResetPassword(r) PROVE Lockout'
    <2> DEFINE u == req[r].user
               q == [req[r] EXCEPT !.pc = "answer", !.read = pw[u] + 1,
                                   !.epoch = NextEpoch(u), !.tok = None]
    <2>1. u \in Account /\ req[r] \in Handler
        BY <1>22 DEF ResetPassword, TypeOK
    <2>2. req' = [req EXCEPT ![r] = q]
        BY <1>22 DEF ResetPassword, Continue
    <2>3. q.pc = "answer"
        BY <2>1 DEF Handler
    <2>4. ~Tries(q)
        BY <2>3 DEF Tries
    <2>5. CASE legacy[u]
        <3>1. failures' = failures /\ locked' = locked /\ misses' = misses
            BY <1>22, <2>5 DEF ResetPassword
        <3>2. QED
            BY <2>2, <2>4, <3>1, LockoutStay
    <2>6. CASE ~legacy[u]
        <3>1. /\ failures' = [failures EXCEPT ![u] = 0]
              /\ locked' = [locked EXCEPT ![u] = FALSE] /\ misses' = [misses EXCEPT ![u] = 0]
            BY <1>22, <2>6 DEF ResetPassword
        <3>2. QED
            BY <2>1, <2>2, <2>4, <3>1, LockoutOpened
    <2>7. QED
        BY <2>5, <2>6
<1>23. ASSUME NEW r \in Request, AnswerReset(r) PROVE Lockout'
    <2>1. req' = [req EXCEPT ![r] = Idle] /\ failures' = failures /\ locked' = locked /\ misses' = misses
        BY <1>23 DEF AnswerReset, End, Continue, hist
    <2>2. QED
        BY <2>1, IdleTriesNot, LockoutStay
<1>24. ASSUME NEW r \in Request, DetachEmail(r) PROVE Lockout'
    <2> DEFINE w == [req[r] EXCEPT !.pc = "forget"]
    <2>1. failures' = failures /\ locked' = locked /\ misses' = misses
        BY <1>24 DEF DetachEmail, hist
    <2>2. req[r] \in Handler /\ w.pc = "forget"
        BY DEF TypeOK, Handler
    <2>3. req' = [req EXCEPT ![r] = Idle] \/ req' = [req EXCEPT ![r] = w]
        BY <1>24 DEF DetachEmail, Goto, Finish, End, Continue
    <2>4. QED
        BY <2>1, <2>2, <2>3, IdleTriesNot, LockoutStay DEF Tries
<1>25. ASSUME NEW r \in Request, ForgetLinks(r) PROVE Lockout'
    <2>1. req' = [req EXCEPT ![r] = Idle] /\ failures' = failures /\ locked' = locked /\ misses' = misses
        BY <1>25 DEF ForgetLinks, End, Continue, hist
    <2>2. QED
        BY <2>1, IdleTriesNot, LockoutStay
<1>26. ASSUME NEW u \in Account, Unlock(u) PROVE Lockout'
    <2>1. /\ ~locked'[u] /\ misses'[u] = 0 /\ failures' = failures /\ req' = req
          /\ \A v \in Account \ {u} : locked'[v] = locked[v] /\ misses'[v] = misses[v]
        BY <1>26 DEF Unlock, reqs, TypeOK
    <2>2. 0 < MaxFailures /\ failures[u] >= 0
        BY ConstantsAssumption DEF TypeOK
    <2>3. QED
        BY <2>1, <2>2 DEF Lockout, Trying
<1>27. ASSUME NEW r \in Request, Throw(r) PROVE Lockout'
    <2> DEFINE w == [req[r] EXCEPT !.pc = "creds"]
    <2>1. failures' = failures /\ locked' = locked /\ misses' = misses
        BY <1>27 DEF Throw, hist
    <2>2. req[r] \in Handler /\ w.pc = "creds"
        BY DEF TypeOK, Handler
    <2>3. req' = [req EXCEPT ![r] = Idle] \/ req' = [req EXCEPT ![r] = w]
        BY <1>27 DEF Throw, Goto, Finish, End, Continue
    <2>4. QED
        BY <2>1, <2>2, <2>3, IdleTriesNot, LockoutStay DEF Tries
<1>28. CASE UNCHANGED vars
    BY <1>28 DEF vars, reqs, hist, Lockout, Trying
<1>29. QED
    BY <1>1, <1>2, <1>3, <1>4, <1>5, <1>6, <1>7, <1>8, <1>9, <1>10, <1>11, <1>12, <1>13,
       <1>14, <1>15, <1>16, <1>17, <1>18, <1>19, <1>20, <1>21, <1>22, <1>23, <1>24,
       <1>25, <1>26, <1>27, <1>28 DEF Next

---------------------------------------------------------------------------
(* Theorems                                                                *)

LEMMA AccountsInvInit == Init => AccountsInv
<1> SUFFICES ASSUME Init PROVE AccountsInv
    OBVIOUS
<1>1. TypeOK
    BY TypeInit
<1>2. \A r \in Request : req[r] = Idle
    BY DEF Init
<1>3. ASSUME NEW u \in Account
      PROVE  (legacy[u] => pw[u] = 1) /\ epoch[u] = 0
    <2>1. (legacy[u] => u \in Legacy) /\ (u \in Registered => pw[u] = 1) /\ epoch[u] = 0
        BY DEF Init
    <2>2. Legacy \subseteq Registered
        BY ConstantsAssumption
    <2>3. QED
        BY <2>1, <2>2
<1>4. Rows /\ Granted
    <2>1. sessions = {}
        BY DEF Init
    <2>2. QED
        BY <1>3, <2>1 DEF Rows, Exists, Granted
<1>5. OneOwnerPerAddress
    BY ConstantsAssumption DEF Init, OneOwnerPerAddress
<1>6. Reads /\ Links
    BY <1>2 DEF Init, Reads, ReadOK, Links, Idle, NoToken
<1>7. Lockout
    BY ConstantsAssumption DEF Init, Lockout
<1>8. QED
    BY <1>1, <1>4, <1>6, <1>7, <1>5 DEF AccountsInv

LEMMA AccountsInvHolds == Spec => []AccountsInv
<1>1. AccountsInv /\ [Next]_vars => AccountsInv'
    BY TypeNext, RowsNext, ReadsNext, GrantedNext, LinksNext, OwnerNext, LockoutNext
       DEF AccountsInv
<1>2. QED
    BY <1>1, AccountsInvInit, PTL DEF Spec

\* No registration inserts a second row for a name, however findUser, the upgrade of a
\* login and other registrations of the name run between each other.
THEOREM NamesAreUnique == Spec => []OneRowPerName
<1>1. AccountsInv => OneRowPerName
    BY DEF AccountsInv, Reads, ReadOK, OneRowPerName
<1>2. QED
    BY <1>1, AccountsInvHolds, PTL

\* No two accounts have the same address, whatever links are followed at once.
THEOREM AddressesAreUnique == Spec => []OneOwnerPerAddress
BY AccountsInvHolds, PTL DEF AccountsInv

\* A link that is mailed has its effect once at most.
THEOREM LinksAreSpentOnce == Spec => []LinkWorksOnce
<1>1. AccountsInv => LinkWorksOnce
    BY DEF AccountsInv, Links, LinkWorksOnce
<1>2. QED
    BY <1>1, AccountsInvHolds, PTL

\* A session of the present generation was given for the present password, or for a
\* second factor.
THEOREM ResetEndsSessions == Spec => []SessionMatchesPassword
<1>1. AccountsInv => SessionMatchesPassword
    BY DEF AccountsInv, Granted, Current, SessionMatchesPassword
<1>2. QED
    BY <1>1, AccountsInvHolds, PTL

\* However many requests try passwords at once, an account is locked before more are
\* tried than maxFailures and those that had been let in.
THEOREM TriesAreBounded == Spec => []LockoutHolds
<1>1. AccountsInv => LockoutHolds
    <2> SUFFICES ASSUME AccountsInv, NEW u \in Account
                 PROVE  misses[u] <= MaxFailures - 1 + Cardinality(Request)
        BY DEF LockoutHolds
    <2>1. Trying(u) \in SUBSET Request
        BY DEF Trying
    <2>2. Cardinality(Trying(u)) \in Nat /\ Cardinality(Request) \in Nat
        BY <2>1, TryingCount
    <2>3. misses[u] \in Nat /\ MaxFailures \in Nat
        BY ConstantsAssumption DEF AccountsInv, TypeOK
    <2>4. \/ misses[u] < MaxFailures
          \/ misses[u] + Cardinality(Trying(u)) <= MaxFailures - 1 + Cardinality(Request)
        BY DEF AccountsInv, Lockout
    <2>5. QED
        BY <2>2, <2>3, <2>4
<1>2. QED
    BY <1>1, AccountsInvHolds, PTL

---------------------------------------------------------------------------
(* Links that work.  Two requests for a link may both have ended the       *)
(* earlier ones before either issues its own, so the bound has to count a  *)
(* link from the moment the request that will issue it has made room.      *)

\* No link is made to work, and no request has made room for one.
LinksApart ==
    /\ \A t \in Token : tok'[t] = tok[t] \/ tok'[t].state # "live"
    /\ \A r \in Request : req'[r] = req[r] \/ req'[r].pc # "issue"

\* Only the two statements of startEmailVerification add to the links.
LEMMA LinkSteps ==
    ASSUME TypeOK, [Next]_vars
    PROVE  (\E r \in Request : Supersede(r) \/ IssueLink(r)) \/ LinksApart
<1> USE DEF LinksApart, TypeOK, Handler, TokenRow, held, hist, users
<1>1. ASSUME NEW r \in Request, NEW u \in Account,
             NEW a \in Address \cup {None}, StartRegister(r, u, a)
      PROVE  LinksApart
    BY <1>1 DEF StartRegister, Start, Goto, Continue, End, Idle
<1>2. ASSUME NEW r \in Request, InsertUser(r)
      PROVE  LinksApart
    <2> DEFINE w == [req[r] EXCEPT !.pc = "taken", !.read = 1]
    <2>1. w.pc = "taken" /\ Idle.pc = "idle"
        BY DEF Idle
    <2>2. /\ req' = [req EXCEPT ![r] = Idle] \/ req' = [req EXCEPT ![r] = w]
          /\ tok' = tok
        BY <1>2 DEF InsertUser, End, Continue
    <2> HIDE DEF w
    <2>3. QED
        BY <2>1, <2>2
<1>3. ASSUME NEW r \in Request, NEW u \in Account,
             NEW p \in 1..MaxPw, StartLogin(r, u, p)
      PROVE  LinksApart
    BY <1>3 DEF StartLogin, Start, Goto, Continue, End, Idle
<1>4. ASSUME NEW r \in Request, NEW old \in BOOLEAN, Find(r, old)
      PROVE  LinksApart
    <2> DEFINE u == req[r].user
               n == IF ~old /\ TRUE \in Generations THEN "findLegacy" ELSE Absent(req[r])
               v == [req[r] EXCEPT !.pc = "verify", !.read = pw[u], !.epoch = epoch[u],
                                   !.old = old]
               w == [req[r] EXCEPT !.pc = n]
    <2>1. v.pc = "verify" /\ w.pc # "issue" /\ Idle.pc = "idle"
        BY DEF Absent, Idle
    <2>2. \/ req' = [req EXCEPT ![r] = Idle] \/ req' = [req EXCEPT ![r] = v]
          \/ req' = [req EXCEPT ![r] = w]
        BY <1>4 DEF Find, Goto, End, Continue
    <2>3. tok' = tok
        BY <1>4 DEF Find
    <2> HIDE DEF v, w
    <2>4. QED
        BY <2>1, <2>2, <2>3
<1>5. ASSUME NEW r \in Request, CheckAddress(r) \/ RecordFailure(r) \/ ClearFailures(r)
      PROVE  LinksApart
    BY <1>5 DEF CheckAddress, RecordFailure, ClearFailures, Start, Goto, Continue, End, Idle
<1>6. ASSUME NEW r \in Request, UpgradeHash(r) \/ AnswerLogin(r) \/ AnswerSecond(r)
      PROVE  LinksApart
    BY <1>6 DEF UpgradeHash, AnswerLogin, AnswerSecond, Start, Goto, Continue, End, Idle
<1>7. ASSUME NEW r \in Request, NEW u \in challenges, StartSecond(r, u)
      PROVE  LinksApart
    BY <1>7 DEF StartSecond, Start, Goto, Continue, End, Idle
<1>8. ASSUME NEW r \in Request, NEW s \in sessions, StartFactor(r, s)
      PROVE  LinksApart
    BY <1>8 DEF StartFactor, Start, Goto, Continue, End, Idle
<1>9. ASSUME NEW r \in Request, NEW s \in sessions,
             NEW route, NEW p \in 1..MaxPw, NEW a \in Address \cup {None}, 
             StartEmail(r, s, route, p, a)
      PROVE  LinksApart
    BY <1>9 DEF StartEmail, Start, Goto, Continue, End, Idle
<1>10. ASSUME NEW r \in Request, ChangeFactor(r) \/ ProvePassword(r) \/ CheckTaken(r)
      PROVE  LinksApart
    BY <1>10 DEF ChangeFactor, ProvePassword, CheckTaken, Finish, Start, Goto, Continue, End, Idle
<1>11. ASSUME NEW r \in Request, NEW u \in Account, StartRecovery(r, u)
      PROVE  LinksApart
    BY <1>11 DEF StartRecovery, Start, Goto, Continue, End, Idle
<1>12. ASSUME NEW r \in Request, NEW t \in Token,
              NEW purpose \in {"verify", "reset"}, Claim(r, t, purpose)
      PROVE  LinksApart
    BY <1>12 DEF Claim, Start, Goto, Continue, End, Idle
<1>13. ASSUME NEW r \in Request, AttachEmail(r)
      PROVE  LinksApart
    BY <1>13 DEF AttachEmail, Start, Goto, Continue, End, Idle
<1>14. ASSUME NEW r \in Request, ResetPassword(r)
      PROVE  LinksApart
    BY <1>14 DEF ResetPassword, Start, Goto, Continue, End, Idle
<1>15. ASSUME NEW r \in Request, AnswerReset(r) \/ DetachEmail(r)
      PROVE  LinksApart
    BY <1>15 DEF AnswerReset, DetachEmail, Start, Goto, Continue, End, Idle
<1>16. ASSUME NEW r \in Request, ForgetLinks(r)
      PROVE  LinksApart
    BY <1>16 DEF ForgetLinks, Start, Goto, Continue, End, Idle
<1>17. ASSUME NEW u \in Account, Unlock(u)
      PROVE  LinksApart
    BY <1>17 DEF Unlock, reqs, Start, Goto, Continue, End, Idle
<1>18. ASSUME NEW r \in Request, Throw(r)
      PROVE  LinksApart
    BY <1>18 DEF Throw, Finish, Start, Goto, Continue, End, Idle
<1>19. CASE UNCHANGED vars
    BY <1>19 DEF vars, reqs
<1>20. QED
    BY <1>1, <1>2, <1>3, <1>4, <1>5, <1>6, <1>7, <1>8, <1>9, <1>10, <1>11, <1>12, <1>13,
       <1>14, <1>15, <1>16, <1>17, <1>18, <1>19 DEF Next

\* The links and the requests that the bound counts are finite sets.
LEMMA LinkCounts ==
    ASSUME NEW u, NEW purpose
    PROVE  /\ IsFiniteSet(LiveLinks(u, purpose)) /\ IsFiniteSet(Issuing(u, purpose))
           /\ Cardinality(LiveLinks(u, purpose)) \in Nat
           /\ Cardinality(Issuing(u, purpose)) \in Nat /\ Cardinality(Request) \in Nat
           /\ Cardinality(Issuing(u, purpose)) <= Cardinality(Request)
<1>1. LiveLinks(u, purpose) \subseteq Token /\ Issuing(u, purpose) \subseteq Request
    BY DEF LiveLinks, Issuing
<1>2. QED
    BY <1>1, ConstantsAssumption, FS_Subset, FS_CardinalityType

\* Making room ends every link of the purpose, and issuing one gives up the room.
LEMMA FewNext ==
    ASSUME TypeOK, LinksAreFew, [Next]_vars
    PROVE  LinksAreFew'
<1> SUFFICES ASSUME NEW u \in Account, NEW purpose \in {"verify", "reset"}
             PROVE  Cardinality(LiveLinks(u, purpose)') + Cardinality(Issuing(u, purpose)')
                        <= Cardinality(Request)
    BY DEF LinksAreFew
<1> DEFINE L == LiveLinks(u, purpose)
           I == Issuing(u, purpose)
<1>0. /\ Cardinality(L) + Cardinality(I) <= Cardinality(Request)
      /\ IsFiniteSet(L) /\ IsFiniteSet(I) /\ IsFiniteSet(L') /\ IsFiniteSet(I')
      /\ Cardinality(L) \in Nat /\ Cardinality(I) \in Nat
      /\ Cardinality(L') \in Nat /\ Cardinality(I') \in Nat
      /\ Cardinality(Request) \in Nat /\ Cardinality(I') <= Cardinality(Request)
    <2>1. L' \subseteq Token /\ I' \subseteq Request
        BY DEF LiveLinks, Issuing
    <2>2. QED
        BY <2>1, LinkCounts, ConstantsAssumption, FS_Subset, FS_CardinalityType DEF LinksAreFew
<1>1. ASSUME L' \subseteq L, I' \subseteq I
      PROVE  Cardinality(L') + Cardinality(I') <= Cardinality(Request)
    <2>1. Cardinality(L') <= Cardinality(L) /\ Cardinality(I') <= Cardinality(I)
        BY <1>0, <1>1, FS_Subset
    <2>2. QED
        BY <1>0, <2>1
<1>2. ASSUME NEW r \in Request, Supersede(r)
      PROVE  Cardinality(L') + Cardinality(I') <= Cardinality(Request)
    <2> DEFINE q == req[r]
    <2>1. /\ q \in Handler /\ q.pc = "supersede"
          /\ req'[r] = [q EXCEPT !.pc = "issue"]
          /\ \A x \in Request : x # r => req'[x] = req[x]
        BY <1>2 DEF Supersede, Goto, Continue, TypeOK
    <2>2. \A t \in Token : tok'[t].state = "live" =>
             tok'[t] = tok[t] /\ t \notin LiveLinks(q.user, Purpose(q))
        BY <1>2 DEF Supersede, Superseded, TypeOK, TokenRow
    <2>3. CASE q.user = u /\ Purpose(q) = purpose
        <3>1. L' = {}
            BY <2>2, <2>3 DEF LiveLinks
        <3>2. QED
            BY <1>0, <3>1, FS_EmptySet
    <2>4. CASE ~(q.user = u /\ Purpose(q) = purpose)
        <3>1. r \notin I'
            BY <2>1, <2>4 DEF Issuing, Purpose, Handler
        <3>2. I' \subseteq I
            BY <2>1, <3>1 DEF Issuing, Purpose
        <3>3. L' \subseteq L
            BY <2>2 DEF LiveLinks
        <3>4. QED
            BY <1>1, <3>2, <3>3
    <2>5. QED
        BY <2>3, <2>4
<1>3. ASSUME NEW r \in Request, IssueLink(r)
      PROVE  Cardinality(L') + Cardinality(I') <= Cardinality(Request)
    <2> DEFINE q == req[r]
    <2>1. PICK t \in Token :
             /\ tok[t].state = "unused"
             /\ tok' = [tok EXCEPT ![t] = [state |-> "live", user |-> q.user,
                                           purpose |-> Purpose(q), addr |-> q.addr]]
        BY <1>3 DEF IssueLink
    <2>2. q.pc = "issue" /\ req'[r] = Idle /\ \A x \in Request : x # r => req'[x] = req[x]
        BY <1>3 DEF IssueLink, Finish, End, Continue, TypeOK
    <2>3. I' \subseteq I \ {r}
        BY <2>2 DEF Issuing, Purpose, Idle
    <2>4. \A x \in Token : x # t => tok'[x] = tok[x]
        BY <2>1 DEF TypeOK
    <2>5. CASE q.user = u /\ Purpose(q) = purpose
        <3>1. r \in I
            BY <2>2, <2>5 DEF Issuing
        <3>2. L' \subseteq L \cup {t} /\ t \notin L
            BY <2>1, <2>4 DEF LiveLinks
        <3>3. Cardinality(L \cup {t}) = Cardinality(L) + 1 /\ IsFiniteSet(L \cup {t})
            BY <1>0, <3>2, FS_AddElement
        <3>4. Cardinality(I \ {r}) = Cardinality(I) - 1 /\ IsFiniteSet(I \ {r})
            BY <1>0, <3>1, FS_RemoveElement
        <3>5. Cardinality(L') <= Cardinality(L) + 1
            BY <3>2, <3>3, FS_Subset
        <3>6. Cardinality(I') <= Cardinality(I) - 1
            BY <2>3, <3>4, FS_Subset
        <3>7. QED
            BY <1>0, <3>5, <3>6
    <2>6. CASE ~(q.user = u /\ Purpose(q) = purpose)
        <3>1. tok'[t].user = q.user /\ tok'[t].purpose = Purpose(q)
            BY <2>1 DEF TypeOK
        <3>2. t \notin L'
            BY <2>6, <3>1 DEF LiveLinks
        <3>3. L' \subseteq L
            BY <2>4, <3>2 DEF LiveLinks
        <3>4. QED
            BY <1>1, <2>3, <3>3
    <2>7. QED
        BY <2>5, <2>6
<1>4. ASSUME LinksApart PROVE Cardinality(L') + Cardinality(I') <= Cardinality(Request)
    <2>1. L' \subseteq L
        BY <1>4 DEF LinksApart, LiveLinks
    <2>2. I' \subseteq I
        BY <1>4 DEF LinksApart, Issuing, Purpose
    <2>3. QED
        BY <1>1, <2>1, <2>2
<1>5. QED
    BY <1>2, <1>3, <1>4, LinkSteps

\* However many links are asked for at once, no more of a purpose work for an account
\* than there are requests at a time.
THEOREM LinksStayFew == Spec => []LinksAreFew
<1>1. Init => LinksAreFew
    <2> SUFFICES ASSUME Init, NEW u \in Account, NEW purpose \in {"verify", "reset"}
                 PROVE  Cardinality(LiveLinks(u, purpose)) + Cardinality(Issuing(u, purpose))
                            <= Cardinality(Request)
        BY DEF LinksAreFew
    <2>1. LiveLinks(u, purpose) = {} /\ Issuing(u, purpose) = {}
        BY DEF Init, LiveLinks, Issuing, NoToken, Idle
    <2>2. QED
        BY <2>1, LinkCounts, FS_EmptySet
<1>2. QED
    BY <1>1, TypeCorrect, FewNext, PTL DEF Spec
=============================================================================
