--------------------------- MODULE BillingProofs ---------------------------
(* Theorems about Billing, for every set of users, purchases and requests.  *)
EXTENDS Billing, TLAPS

---------------------------------------------------------------------------
(* Type correctness                                                        *)

\* The steps of a handler and of a request keep their records in type.
LEMMA RecordTypes ==
    /\ NoHook \in HookType /\ NoRequest \in RequestType
    /\ NoRequest.pc = "idle" /\ NoRequest.code = None
    /\ \A h \in HookType : /\ [h EXCEPT !.pc = "begin"] \in HookType
                           /\ [h EXCEPT !.pc = "link"] \in HookType
    /\ \A n \in Nat : [pc |-> "got", got |-> n] \in HookType
    /\ \A h \in RequestType : h.pc # "idle" =>
        /\ h.user \in User
        /\ [h EXCEPT !.pc = "badge"] \in RequestType
        /\ [h EXCEPT !.pc = "check"] \in RequestType
        /\ [h EXCEPT !.pc = "lock", !.code = None] \in RequestType
        /\ \A b \in BOOLEAN : [h EXCEPT !.pc = "write", !.covered = b] \in RequestType
    /\ \A h \in RequestType : h.code # None => h.code \in Purchase
    /\ \A u \in User, c \in Purchase :
        [pc |-> "check", user |-> u, code |-> c, covered |-> FALSE] \in RequestType
    /\ \A u \in User : [NoRequest EXCEPT !.pc = "lock", !.user = u] \in RequestType
BY DEF HookType, RequestType, NoHook, NoRequest

\* The events Stripe emits are events.
LEMMA EventTypes ==
    /\ \A c \in Purchase : Checkout(c) \in Event
    /\ \A s \in Sub : Deleted(s) \in Event
    /\ \A s \in Sub, n \in 0..MaxClock + Period :
        [type |-> "invoice", of |-> s, n |-> n] \in Event
    /\ \A e \in Event : /\ e.of \in Purchase
                        /\ e.type # "checkout" => e.of \in Sub
                        /\ e.type = "checkout" => e = Checkout(e.of)
BY DEF Event, Checkout, Deleted, Purchase

\* The first state has every variable in its type.
LEMMA TypeInit == Init => TypeOK
<1> SUFFICES ASSUME Init PROVE TypeOK
    OBVIOUS
<1>1. hook \in [Event -> HookType] /\ req \in [Request -> RequestType]
    BY RecordTypes DEF Init
<1>2. seen \subseteq Event /\ outbox \subseteq Event /\ bought \subseteq Purchase
    BY EventTypes, ConstantsAssumption DEF Init, Purchase
<1>3. QED
    BY <1>1, <1>2, ConstantsAssumption DEF Init, TypeOK, Purchase

\* Every step keeps every variable in its type.
LEMMA TypeStep == TypeOK /\ [Next]_vars => TypeOK'
<1> SUFFICES ASSUME TypeOK, [Next]_vars PROVE TypeOK'
    OBVIOUS
<1> USE DEF TypeOK, entVars, stripeVars, hist
<1>1. CASE Tick
    BY <1>1, ConstantsAssumption DEF Tick
<1>2. ASSUME NEW c \in Purchase, Buy(c) PROVE TypeOK'
    <2>1. clock + Period \in 0..MaxClock + Period
        BY ConstantsAssumption
    <2>2. outbox' \subseteq Event
        BY <1>2, <2>1, EventTypes DEF Buy
    <2>3. paidUntil' \in [Sub -> Nat]
        BY <1>2, ConstantsAssumption DEF Buy
    <2>4. QED
        BY <1>2, <2>2, <2>3 DEF Buy
<1>3. ASSUME NEW s \in Sub, Renew(s) PROVE TypeOK'
    <2>1. paidUntil[s] + Period \in 0..MaxClock + Period
        BY <1>3, ConstantsAssumption DEF Renew
    <2>2. outbox' \subseteq Event
        BY <1>3, <2>1, EventTypes DEF Renew, Invoice
    <2>3. paidUntil' \in [Sub -> Nat]
        BY <1>3, ConstantsAssumption DEF Renew
    <2>4. QED
        BY <1>3, <2>2, <2>3 DEF Renew
<1>4. ASSUME NEW s \in Sub, CancelSubscription(s) PROVE TypeOK'
    BY <1>4, EventTypes DEF CancelSubscription
<1>5. ASSUME NEW e \in Event, Deliver(e) PROVE TypeOK'
    BY <1>5, RecordTypes DEF Deliver
<1>6. ASSUME NEW e \in Event, Retrieve(e) PROVE TypeOK'
    <2>1. PeriodEnd(e) \in Nat
        BY <1>6 DEF Retrieve, PeriodEnd
    <2>2. hook' \in [Event -> HookType] /\ outbox' \subseteq Event
        BY <1>6, <2>1, RecordTypes DEF Retrieve, Answer200
    <2>3. QED
        BY <1>6, <2>2 DEF Retrieve
<1>7. ASSUME NEW e \in Event, InsertEntitlement(e) PROVE TypeOK'
    <2>1. e.of \in Purchase /\ hook[e].got \in Nat
        BY EventTypes DEF HookType
    <2>2. hook' \in [Event -> HookType]
        BY <1>7, RecordTypes DEF InsertEntitlement
    <2>3. expires' \in [Purchase -> Nat] /\ codes' \in [Purchase -> Nat]
        BY <1>7, <2>1, ConstantsAssumption DEF InsertEntitlement
    <2>4. status' \in [Purchase -> {"absent", "unredeemed", "credit", "active", "cancelled"}]
        BY <1>7, <2>1 DEF InsertEntitlement
    <2>5. QED
        BY <1>7, <2>2, <2>3, <2>4 DEF InsertEntitlement
<1>8. ASSUME NEW e \in Event, Link(e) PROVE TypeOK'
    BY <1>8, RecordTypes DEF Link, Answer200
<1>9. ASSUME NEW e \in Event, Extend(e) PROVE TypeOK'
    <2>1. hook[e].got + Grace \in Nat
        BY ConstantsAssumption DEF HookType
    <2>2. expires' \in [Purchase -> Nat]
        BY <1>9, <2>1 DEF Extend
    <2>3. status' \in [Purchase -> {"absent", "unredeemed", "credit", "active", "cancelled"}]
        BY <1>9, EventTypes DEF Extend
    <2>4. hook' \in [Event -> HookType] /\ outbox' \subseteq Event
        BY <1>9, RecordTypes DEF Extend, Answer200
    <2>5. QED
        BY <1>9, <2>2, <2>3, <2>4 DEF Extend
<1>10. ASSUME NEW e \in Event, MarkCancelled(e) PROVE TypeOK'
    BY <1>10, RecordTypes, EventTypes DEF MarkCancelled, Answer200
<1>11. ASSUME NEW e \in Event, HookFails(e) PROVE TypeOK'
    BY <1>11, RecordTypes, EventTypes DEF HookFails
<1>12. ASSUME NEW r \in Request, NEW u \in User, NEW c \in Purchase, StartRedeem(r, u, c)
       PROVE  TypeOK'
    BY <1>12, RecordTypes DEF StartRedeem
<1>13. ASSUME NEW r \in Request, NEW u \in User, StartBadge(r, u) PROVE TypeOK'
    BY <1>13, RecordTypes DEF StartBadge
<1>14. ASSUME NEW r \in Request, ReadBadge(r) PROVE TypeOK'
    <2>1. [req[r] EXCEPT !.pc = "lock", !.code = None] \in RequestType
        BY <1>14, RecordTypes DEF ReadBadge
    <2>2. req' \in [Request -> RequestType]
        BY <1>14, <2>1, RecordTypes DEF ReadBadge, Finish
    <2>3. QED
        BY <1>14, <2>2 DEF ReadBadge
<1>15. ASSUME NEW r \in Request, TakeLock(r) PROVE TypeOK'
    BY <1>15, RecordTypes DEF TakeLock, Goto
<1>16. ASSUME NEW r \in Request, CheckCovered(r) PROVE TypeOK'
    <2>1. Covered(req[r].user) \in BOOLEAN
        BY DEF Covered
    <2> DEFINE next == [req[r] EXCEPT !.pc = "write", !.covered = Covered(req[r].user)]
    <2>2. req' \in [Request -> RequestType]
        <3>1. next \in RequestType
            BY <1>16, <2>1, RecordTypes DEF CheckCovered
        <3>2. req' = [req EXCEPT ![r] = next] \/ req' = [req EXCEPT ![r] = NoRequest]
            BY <1>16 DEF CheckCovered, Finish
        <3>3. QED
            BY <3>1, <3>2, RecordTypes
    <2>3. lock' \in [User -> Request \cup {None}]
        BY <1>16 DEF CheckCovered, Release
    <2>4. QED
        BY <1>16, <2>2, <2>3 DEF CheckCovered
<1>17. ASSUME NEW r \in Request, Claim(r) PROVE TypeOK'
    <2> DEFINE c == req[r].code
    <2>1. c \in Purchase /\ req[r].user \in User
        BY <1>17, RecordTypes DEF Claim
    <2>2. lock' \in [User -> Request \cup {None}] /\ req' \in [Request -> RequestType]
        <3>1. [req[r] EXCEPT !.pc = "badge"] \in RequestType
            BY <1>17, RecordTypes DEF Claim
        <3>2. \/ req' = [req EXCEPT ![r] = [req[r] EXCEPT !.pc = "badge"]]
              \/ req' = [req EXCEPT ![r] = NoRequest]
            BY <1>17 DEF Claim, Goto, Finish
        <3>3. QED
            BY <1>17, <3>1, <3>2, RecordTypes DEF Claim, Release
    <2>3. CASE ~Claimable(c)
        BY <1>17, <2>2, <2>3 DEF Claim
    <2>4. CASE Claimable(c)
        <3>1. /\ owner' \in [Purchase -> User \cup {None}] /\ granted' \in [Gift -> Nat]
              /\ started' \in [Gift -> Nat]
            BY <1>17, <2>1, <2>4, ConstantsAssumption DEF Claim
        <3>2. c \in Gift => clock + Months[c] \in Nat
            BY ConstantsAssumption
        <3>3. expires' \in [Purchase -> Nat]
            BY <1>17, <2>1, <2>4, <3>2 DEF Claim
        <3>4. status' \in [Purchase -> {"absent", "unredeemed", "credit", "active", "cancelled"}]
            BY <1>17, <2>1, <2>4 DEF Claim
        <3>5. QED
            BY <1>17, <2>2, <3>1, <3>3, <3>4 DEF Claim
    <2>5. QED
        BY <2>3, <2>4
<1>18. ASSUME NEW r \in Request, Activate(r) PROVE TypeOK'
    <2>1. lock' \in [User -> Request \cup {None}] /\ req' \in [Request -> RequestType]
        BY <1>18, RecordTypes DEF Activate, Release, Finish
    <2>2. CASE Parked(req[r].user) = {}
        BY <1>18, <2>1, <2>2 DEF Activate
    <2>3. CASE Parked(req[r].user) # {}
        <3>1. PICK g \in Oldest(req[r].user) :
                 /\ status' = [status EXCEPT ![g] = "active"]
                 /\ expires' = [expires EXCEPT ![g] = RunsUntil(g)]
                 /\ started' = [started EXCEPT ![g] = clock]
                 /\ UNCHANGED <<owner, granted>>
            BY <1>18, <2>3 DEF Activate
        <3>2. g \in Gift /\ RunsUntil(g) \in Nat /\ clock \in Nat
            BY ConstantsAssumption DEF Oldest, Parked, RunsUntil
        <3>3. QED
            BY <1>18, <2>1, <3>1, <3>2 DEF Activate
    <2>4. QED
        BY <2>2, <2>3
<1>19. ASSUME NEW r \in Request, RequestFails(r) PROVE TypeOK'
    BY <1>19, RecordTypes DEF RequestFails, Finish
<1>20. CASE UNCHANGED vars
    BY <1>20 DEF vars
<1>21. QED
    BY <1>1, <1>2, <1>3, <1>4, <1>5, <1>6, <1>7, <1>8, <1>9, <1>10, <1>11, <1>12, <1>13,
       <1>14, <1>15, <1>16, <1>17, <1>18, <1>19, <1>20 DEF Next

\* Every reachable state of the entitlements is well typed.
THEOREM TypeCorrect == Spec => []TypeOK
<1>1. QED
    BY TypeInit, TypeStep, PTL DEF Spec

---------------------------------------------------------------------------
(* One code per payment, and one account per code                          *)

\* A checkout that no handler has inserted has no code; without a code there is
\* nothing to redeem, and what an account owns has been redeemed.
Issued ==
    \A c \in Purchase :
        /\ Checkout(c) \notin seen => codes[c] = 0 /\ hook[Checkout(c)].pc = "idle"
        /\ hook[Checkout(c)].pc \in {"begin", "got"} => codes[c] = 0
        /\ codes[c] \in {0, 1}
        /\ codes[c] = 0 => status[c] # "unredeemed" /\ owner[c] = None
        /\ owner[c] # None => status[c] \in {"credit", "active", "cancelled"}

\* The first state satisfies it.
LEMMA IssuedInit == Init => Issued
<1> SUFFICES ASSUME Init, NEW c \in Purchase
             PROVE  /\ Checkout(c) \notin seen => codes[c] = 0 /\ hook[Checkout(c)].pc = "idle"
                    /\ hook[Checkout(c)].pc \in {"begin", "got"} => codes[c] = 0
                    /\ codes[c] \in {0, 1}
                    /\ codes[c] = 0 => status[c] # "unredeemed" /\ owner[c] = None
                    /\ owner[c] # None => status[c] \in {"credit", "active", "cancelled"}
    BY DEF Issued
<1>1. hook[Checkout(c)].pc = "idle"
    BY EventTypes DEF Init, NoHook
<1>2. Checkout(c) \notin seen => c \notin InitSold
    BY DEF Init
<1>3. codes[c] = IF c \in InitSold THEN 1 ELSE 0
    BY DEF Init
<1>4. status[c] = (IF c \in InitSold THEN "unredeemed" ELSE "absent") /\ owner[c] = None
    BY DEF Init
<1>5. QED
    BY <1>1, <1>2, <1>3, <1>4

\* A purchase and its checkout event determine each other.
LEMMA HookSteps ==
    ASSUME TypeOK, NEW e \in Event, NEW c \in Purchase
    PROVE  /\ Checkout(c) \in Event
           /\ e = Checkout(c) => e.of = c /\ e.type = "checkout"
           /\ e.of = c /\ e.type = "checkout" => e = Checkout(c)
BY EventTypes, SMTT(30) DEF Checkout

\* No step breaks it: the billing_events row is there before the INSERT, and stays.
LEMMA IssuedStep == TypeOK /\ Issued /\ [Next]_vars => Issued'
<1> SUFFICES ASSUME TypeOK, Issued, [Next]_vars, NEW c \in Purchase
             PROVE  /\ Checkout(c) \notin seen' => codes'[c] = 0 /\ hook'[Checkout(c)].pc = "idle"
                    /\ hook'[Checkout(c)].pc \in {"begin", "got"} => codes'[c] = 0
                    /\ codes'[c] \in {0, 1}
                    /\ codes'[c] = 0 => status'[c] # "unredeemed" /\ owner'[c] = None
                    /\ owner'[c] # None => status'[c] \in {"credit", "active", "cancelled"}
    BY DEF Issued, Checkout
<1> DEFINE Goal == /\ Checkout(c) \notin seen' => codes'[c] = 0 /\ hook'[Checkout(c)].pc = "idle"
                   /\ hook'[Checkout(c)].pc \in {"begin", "got"} => codes'[c] = 0
                   /\ codes'[c] \in {0, 1}
                   /\ codes'[c] = 0 => status'[c] # "unredeemed" /\ owner'[c] = None
                   /\ owner'[c] # None => status'[c] \in {"credit", "active", "cancelled"}
<1> USE DEF TypeOK, Issued, entVars, stripeVars, hist
<1>1. CASE UNCHANGED <<status, owner, codes, seen, hook>>
    BY <1>1
<1>2. ASSUME NEW e \in Event, Deliver(e) PROVE Goal
    <2>1. CASE UNCHANGED <<seen, hook>>
        BY <1>2, <2>1 DEF Deliver
    <2>2. CASE /\ ~Known(e) /\ hook[e] = NoHook
               /\ seen' = seen \cup {e}
               /\ hook' = [hook EXCEPT ![e] = [@ EXCEPT !.pc = "begin"]]
        <3>1. CASE e = Checkout(c)
            BY <1>2, <2>2, <3>1 DEF Deliver, Known, NoHook
        <3>2. CASE e # Checkout(c)
            BY <1>2, <2>2, <3>2, HookSteps DEF Deliver
        <3>3. QED
            BY <3>1, <3>2
    <2>3. QED
        BY <1>2, <2>1, <2>2 DEF Deliver
<1>3. ASSUME NEW e \in Event, Retrieve(e) PROVE Goal
    BY <1>3, HookSteps DEF Retrieve, Answer200, NoHook
<1>4. ASSUME NEW e \in Event, InsertEntitlement(e) PROVE Goal
    BY <1>4, HookSteps, ConstantsAssumption DEF InsertEntitlement, HookType
<1>5. ASSUME NEW e \in Event, Link(e) PROVE Goal
    BY <1>5, HookSteps DEF Link, Answer200, NoHook
<1>6. ASSUME NEW e \in Event, Extend(e) PROVE Goal
    BY <1>6, HookSteps DEF Extend, Answer200, NoHook
<1>7. ASSUME NEW e \in Event, MarkCancelled(e) PROVE Goal
    BY <1>7, HookSteps DEF MarkCancelled, Answer200, NoHook
<1>8. ASSUME NEW e \in Event, HookFails(e) PROVE Goal
    BY <1>8, HookSteps DEF HookFails, NoHook
<1>9. ASSUME NEW r \in Request, Claim(r) PROVE Goal
    BY <1>9, RecordTypes, ZenonT(60) DEF Claim, Claimable
<1>10. ASSUME NEW r \in Request, Activate(r) PROVE Goal
    BY <1>10 DEF Activate, Oldest, Parked
<1>11. QED
    BY <1>1, <1>2, <1>3, <1>4, <1>5, <1>6, <1>7, <1>8, <1>9, <1>10
       DEF Next, vars, Tick, Buy, Renew, CancelSubscription, StartRedeem, StartBadge,
           ReadBadge, TakeLock, CheckCovered, RequestFails

\* A paid checkout yields one code at most, however often, in whatever order and
\* however concurrently its event is delivered, and wherever a handler throws.
THEOREM CodesAreUnique == Spec => []OneCodePerPayment
<1>1. TypeOK /\ Issued => OneCodePerPayment
    BY DEF Issued, OneCodePerPayment
<1>2. QED
    BY TypeInit, TypeStep, IssuedInit, IssuedStep, <1>1, PTL DEF Spec

\* An entitlement that belongs to an account stays with it, and a code is redeemed
\* at most once, whatever requests race.
THEOREM RedeemedOnce == Spec => CodeWorksOnce
<1>1. ASSUME TypeOK, Issued, [Next]_vars, NEW c \in Purchase, owner[c] # None
      PROVE  owner'[c] = owner[c] /\ (c \in Gift => granted'[c] = granted[c])
    <2> USE DEF TypeOK, Issued, entVars, stripeVars, hist
    <2>1. CASE UNCHANGED <<owner, granted>>
        BY <2>1
    <2>2. ASSUME NEW r \in Request, Claim(r)
          PROVE  owner'[c] = owner[c] /\ (c \in Gift => granted'[c] = granted[c])
        BY <1>1, <2>2, RecordTypes DEF Claim, Claimable
    <2>3. ASSUME NEW r \in Request, Activate(r) PROVE UNCHANGED <<owner, granted>>
        BY <2>3 DEF Activate
    <2>4. QED
        BY <1>1, <2>1, <2>2, <2>3
           DEF Next, vars, Tick, Buy, Renew, CancelSubscription, Deliver, Retrieve,
               InsertEntitlement, Link, Extend, MarkCancelled, HookFails, StartRedeem,
               StartBadge, ReadBadge, TakeLock, CheckCovered, RequestFails
<1>2. TypeOK /\ Issued /\ [Next]_vars =>
        [\A c \in Purchase : owner[c] # None =>
            /\ owner'[c] = owner[c]
            /\ c \in Gift => granted'[c] = granted[c]]_vars
    BY <1>1
<1>3. QED
    BY TypeInit, TypeStep, IssuedInit, IssuedStep, <1>2, PTL DEF Spec, CodeWorksOnce

---------------------------------------------------------------------------
(* The months of a gift                                                    *)

\* A gift that was never redeemed has not begun, and none is granted in the future.
Kept ==
    /\ MonthsAreKept
    /\ \A g \in Gift : /\ owner[g] = None => started[g] = 0
                       /\ granted[g] <= clock

\* The first state satisfies it.
LEMMA KeptInit == Init => Kept
BY ConstantsAssumption DEF Init, Kept, MonthsAreKept, Purchase

\* No step breaks it: invoices and deletions only ever move a subscription's row.
LEMMA KeptStep == TypeOK /\ Issued /\ Kept /\ [Next]_vars => Kept'
<1> SUFFICES ASSUME TypeOK, Issued, Kept, [Next]_vars PROVE Kept'
    OBVIOUS
<1> USE DEF TypeOK, Kept, MonthsAreKept, entVars, stripeVars, hist
<1>1. CASE UNCHANGED <<clock, status, owner, expires, granted, started>>
    BY <1>1
<1>2. CASE Tick
    BY <1>2 DEF Tick
<1>3. ASSUME NEW e \in Event, InsertEntitlement(e) PROVE Kept'
    <2>1. e.of \in Purchase /\ e = Checkout(e.of)
        BY <1>3, EventTypes DEF InsertEntitlement
    <2>2. owner[e.of] = None
        BY <1>3, <2>1, ConstantsAssumption DEF InsertEntitlement, Issued
    <2>3. QED
        BY <1>3, <2>1, <2>2 DEF InsertEntitlement, Purchase
<1>4. ASSUME NEW e \in Event, Extend(e) PROVE Kept'
    BY <1>4, EventTypes, ConstantsAssumption DEF Extend, Purchase
<1>5. ASSUME NEW e \in Event, MarkCancelled(e) PROVE Kept'
    BY <1>5, EventTypes, ConstantsAssumption DEF MarkCancelled, Purchase
<1>6. ASSUME NEW r \in Request, Claim(r) PROVE Kept'
    <2> DEFINE c == req[r].code
    <2>1. c \in Purchase /\ req[r].user \in User
        BY <1>6, RecordTypes DEF Claim
    <2>2. CASE ~Claimable(c)
        BY <1>6, <2>2 DEF Claim
    <2>3. CASE Claimable(c) /\ c \notin Gift
        BY <1>6, <2>1, <2>3 DEF Claim, Purchase
    <2>4. CASE Claimable(c) /\ c \in Gift
        <3>1. owner[c] = None
            BY <2>1, <2>4 DEF Claimable, Issued
        <3>2. started[c] = 0 /\ clock + Months[c] \in Nat
            BY <2>4, <3>1, ConstantsAssumption
        <3>3. CASE req[r].covered
            BY <1>6, <2>1, <2>4, <3>1, <3>2, <3>3 DEF Claim, Purchase
        <3>4. CASE ~req[r].covered
            <4>1. /\ owner' = [owner EXCEPT ![c] = req[r].user]
                  /\ granted' = [granted EXCEPT ![c] = clock]
                  /\ status' = [status EXCEPT ![c] = "active"]
                  /\ expires' = [expires EXCEPT ![c] = clock + Months[c]]
                  /\ started' = [started EXCEPT ![c] = clock]
                  /\ clock' = clock
                BY <1>6, <2>4, <3>4 DEF Claim
            <4>2. QED
                BY <2>1, <2>4, <4>1, ConstantsAssumption DEF Purchase
        <3>5. QED
            BY <3>3, <3>4
    <2>5. QED
        BY <2>2, <2>3, <2>4
<1>7. ASSUME NEW r \in Request, Activate(r) PROVE Kept'
    <2>1. CASE Parked(req[r].user) = {}
        BY <1>7, <2>1 DEF Activate
    <2>2. CASE Parked(req[r].user) # {}
        <3>1. PICK g \in Oldest(req[r].user) :
                 /\ status' = [status EXCEPT ![g] = "active"]
                 /\ expires' = [expires EXCEPT ![g] = RunsUntil(g)]
                 /\ started' = [started EXCEPT ![g] = clock]
                 /\ UNCHANGED <<owner, granted>>
            BY <1>7, <2>2 DEF Activate
        <3>2. g \in Gift /\ owner[g] = req[r].user /\ RunsUntil(g) = clock + Months[g]
            BY DEF Oldest, Parked, RunsUntil
        <3>3. owner[g] # None
            <4>1. req[r] \in RequestType /\ req[r].pc # "idle"
                BY <1>7 DEF Activate
            <4>2. req[r].user \in User
                BY <4>1, RecordTypes
            <4>3. QED
                BY <3>2, <4>2, ConstantsAssumption
        <3>4. QED
            BY <1>7, <3>1, <3>2, <3>3 DEF Activate, Purchase
    <2>3. QED
        BY <2>1, <2>2
<1>8. QED
    BY <1>1, <1>2, <1>3, <1>4, <1>5, <1>6, <1>7
       DEF Next, vars, Buy, Renew, CancelSubscription, Deliver, Retrieve, Link, HookFails,
           StartRedeem, StartBadge, ReadBadge, TakeLock, CheckCovered, RequestFails

\* A redeemed gift is parked in full or runs for all of its months.
THEOREM GiftsAreWhole == Spec => []MonthsAreKept
<1>1. Kept => MonthsAreKept
    BY DEF Kept
<1>2. QED
    BY TypeInit, TypeStep, IssuedInit, IssuedStep, KeptInit, KeptStep, <1>1, PTL DEF Spec

---------------------------------------------------------------------------
(* One gift at a time                                                      *)

\* A request past the lock holds it; what it read under the lock still holds when
\* it writes; and only an account without cover activates credit.
Queued ==
    /\ \A r \in Request :
        /\ req[r].pc \in {"check", "write"} => lock[req[r].user] = r
        /\ req[r].pc = "write" /\ ~req[r].covered => RunningGifts(req[r].user) = {}
        /\ req[r].pc = "write" /\ req[r].code = None => ~req[r].covered
    /\ GiftsNeverOverlap

\* The first state satisfies it.
LEMMA QueuedInit == Init => Queued
BY ConstantsAssumption
   DEF Init, Queued, GiftsNeverOverlap, RunningGifts, Granting, NoRequest, Purchase

\* As long as no gift begins, the running gifts of an account only get fewer.
LEMMA FewerGifts ==
    ASSUME TypeOK, NEW u \in User, clock' \in Nat, clock <= clock',
           \A g \in Gift : \/ /\ owner'[g] = owner[g] /\ expires'[g] = expires[g]
                              /\ status'[g] = status[g]
                           \/ status'[g] = "unredeemed"
    PROVE  RunningGifts(u)' \subseteq RunningGifts(u)
BY DEF TypeOK, RunningGifts, Granting, Unexpired, Purchase

\* The conjuncts of Queued survive a step in which no gift begins and no request or
\* lock changes.
LEMMA QueuedRests ==
    ASSUME TypeOK, Queued, UNCHANGED <<req, lock>>,
           \A u \in User : RunningGifts(u)' \subseteq RunningGifts(u)
    PROVE  Queued'
<1>1. GiftsNeverOverlap'
    BY DEF Queued, GiftsNeverOverlap
<1>2. ASSUME NEW r \in Request, req[r].pc = "write" PROVE req[r].user \in User
    BY <1>2, RecordTypes DEF TypeOK
<1>3. ASSUME NEW r \in Request, req[r].pc = "write", ~req[r].covered
      PROVE  RunningGifts(req[r].user)' = {}
    BY <1>2, <1>3 DEF Queued
<1>4. \A r \in Request : req'[r] = req[r] /\ lock' = lock
    OBVIOUS
<1>5. QED
    BY <1>1, <1>3, <1>4 DEF Queued

\* No step breaks it.
LEMMA QueuedStep == TypeOK /\ TypeOK' /\ Issued /\ Queued /\ [Next]_vars => Queued'
<1> SUFFICES ASSUME TypeOK, TypeOK', Issued, Queued, [Next]_vars PROVE Queued'
    OBVIOUS
<1> USE DEF entVars, stripeVars, hist
<1>0. /\ \A q \in Request : req[q].pc # "idle" => req[q].user \in User
      /\ \A q \in Request : q # None
      /\ NoRequest.pc = "idle"
      /\ lock \in [User -> Request \cup {None}] /\ req \in [Request -> RequestType]
    BY RecordTypes, ConstantsAssumption DEF TypeOK
<1>1. ASSUME UNCHANGED <<req, lock>>, clock <= clock',
             \A g \in Gift : \/ /\ owner'[g] = owner[g] /\ expires'[g] = expires[g]
                                /\ status'[g] = status[g]
                             \/ status'[g] = "unredeemed"
      PROVE  Queued'
    <2>1. clock' \in Nat
        BY DEF TypeOK
    <2>2. QED
        BY <1>1, <2>1, FewerGifts, QueuedRests
<1>2. CASE UNCHANGED <<clock, owner, expires, status, req, lock>>
    BY <1>1, <1>2 DEF TypeOK
<1>3. CASE Tick
    BY <1>1, <1>3 DEF Tick, TypeOK
<1>4. ASSUME NEW e \in Event, InsertEntitlement(e) PROVE Queued'
    <2>1. \A g \in Gift : g # e.of => /\ owner'[g] = owner[g] /\ expires'[g] = expires[g]
                                      /\ status'[g] = status[g]
        BY <1>4 DEF InsertEntitlement, TypeOK, Purchase
    <2>2. status'[e.of] = "unredeemed"
        BY <1>4, EventTypes DEF InsertEntitlement, TypeOK
    <2>3. UNCHANGED <<req, lock>> /\ clock <= clock'
        BY <1>4 DEF InsertEntitlement, TypeOK
    <2>4. QED
        BY <1>1, <2>1, <2>2, <2>3
<1>5. ASSUME NEW e \in Event, Extend(e) PROVE Queued'
    <2>1. \A g \in Gift : g # e.of
        BY <1>5, EventTypes, ConstantsAssumption DEF Extend
    <2>2. QED
        BY <1>1, <1>5, <2>1 DEF Extend, TypeOK, Purchase
<1>6. ASSUME NEW e \in Event, MarkCancelled(e) PROVE Queued'
    <2>1. \A g \in Gift : g # e.of
        BY <1>6, EventTypes, ConstantsAssumption DEF MarkCancelled
    <2>2. QED
        BY <1>1, <1>6, <2>1 DEF MarkCancelled, TypeOK, Purchase
<1>7. ASSUME UNCHANGED <<clock, owner, expires, status>>,
             \A r \in Request :
                /\ req'[r].pc \in {"check", "write"} => lock'[req'[r].user] = r
                /\ req'[r].pc = "write" =>
                     \/ req'[r] = req[r]
                     \/ /\ req'[r].user \in User
                        /\ req'[r].covered = Covered(req'[r].user)
                        /\ req'[r].code = None => ~req'[r].covered
      PROVE  Queued'
    <2>1. \A u \in User : RunningGifts(u)' = RunningGifts(u)
        BY <1>7 DEF RunningGifts, Granting, Unexpired
    <2>2. \A u \in User : ~Covered(u) => RunningGifts(u) = {}
        BY DEF Covered, RunningGifts, Purchase
    <2>3. GiftsNeverOverlap'
        BY <2>1 DEF Queued, GiftsNeverOverlap
    <2>4. ASSUME NEW r \in Request, req'[r].pc = "write"
          PROVE  /\ ~req'[r].covered => RunningGifts(req[r].user)' = {}
                 /\ req'[r].code = None => ~req'[r].covered
        <3>1. CASE req'[r] = req[r]
            <4>1. req[r].user \in User
                BY <2>4, <3>1, RecordTypes DEF TypeOK
            <4>2. QED
                BY <2>1, <2>4, <3>1, <4>1 DEF Queued
        <3>2. CASE req'[r] # req[r]
            BY <1>7, <2>1, <2>2, <2>4, <3>2
        <3>3. QED
            BY <3>1, <3>2
    <2>5. QED
        BY <1>7, <2>3, <2>4 DEF Queued
<1>8. ASSUME NEW r \in Request, NEW u \in User, NEW c \in Purchase, StartRedeem(r, u, c)
      PROVE  Queued'
    <2>1. /\ req' = [req EXCEPT ![r] =
                        [pc |-> "check", user |-> u, code |-> c, covered |-> FALSE]]
          /\ lock' = [lock EXCEPT ![u] = r] /\ lock[u] = None
          /\ UNCHANGED <<clock, owner, expires, status>>
        BY <1>8 DEF StartRedeem, Free
    <2>2. /\ req'[r].pc = "check" /\ req'[r].user = u /\ lock'[u] = r
          /\ \A q \in Request : q # r => req'[q] = req[q]
          /\ \A v \in User : v # u => lock'[v] = lock[v]
        BY <1>0, <2>1
    <2>3. ASSUME NEW q \in Request, q # r, req[q].pc \in {"check", "write"}
          PROVE  lock'[req[q].user] = q
        <3>1. req[q].user \in User /\ lock[req[q].user] = q
            BY <1>0, <2>3 DEF Queued
        <3>2. req[q].user # u
            BY <1>0, <2>1, <3>1
        <3>3. QED
            BY <2>2, <3>1, <3>2
    <2>4. QED
        BY <1>7, <2>1, <2>2, <2>3
<1>9. ASSUME NEW r \in Request, NEW u \in User, StartBadge(r, u) PROVE Queued'
    <2>1. /\ req' = [req EXCEPT ![r] = [NoRequest EXCEPT !.pc = "lock", !.user = u]]
          /\ UNCHANGED <<clock, owner, expires, status, lock>>
        BY <1>9 DEF StartBadge
    <2>2. [NoRequest EXCEPT !.pc = "lock", !.user = u].pc = "lock"
        BY DEF NoRequest
    <2>3. QED
        BY <1>7, <2>1, <2>2 DEF Queued, TypeOK
<1>10. ASSUME NEW r \in Request, ReadBadge(r) PROVE Queued'
    <2>1. /\ \A q \in Request : q # r => req'[q] = req[q]
          /\ req'[r].pc \in {"lock", "idle"}
          /\ UNCHANGED <<clock, owner, expires, status, lock>>
        <3>1. /\ UNCHANGED <<clock, owner, expires, status, lock>>
              /\ \/ req' = [req EXCEPT ![r] = [@ EXCEPT !.pc = "lock", !.code = None]]
                 \/ req' = [req EXCEPT ![r] = NoRequest]
            BY <1>10 DEF ReadBadge, Finish
        <3>2. [req[r] EXCEPT !.pc = "lock", !.code = None].pc = "lock"
            BY <1>0 DEF RequestType
        <3>3. QED
            BY <1>0, <3>1, <3>2
    <2>2. QED
        BY <1>7, <2>1 DEF Queued
<1>11. ASSUME NEW r \in Request, TakeLock(r) PROVE Queued'
    <2>1. /\ \A q \in Request : q # r => req'[q] = req[q]
          /\ req'[r].pc = "check" /\ req'[r].user = req[r].user /\ req[r].user \in User
          /\ lock' = [lock EXCEPT ![req[r].user] = r] /\ lock[req[r].user] = None
          /\ UNCHANGED <<clock, owner, expires, status>>
        BY <1>11 DEF TakeLock, Goto, Free, TypeOK, RequestType
    <2>2. /\ lock'[req[r].user] = r
          /\ \A v \in User : v # req[r].user => lock'[v] = lock[v]
        BY <1>0, <2>1
    <2>3. ASSUME NEW q \in Request, q # r, req[q].pc \in {"check", "write"}
          PROVE  lock'[req[q].user] = q
        <3>1. req[q].user \in User /\ lock[req[q].user] = q
            BY <1>0, <2>3 DEF Queued
        <3>2. req[q].user # req[r].user
            BY <1>0, <2>1, <3>1
        <3>3. QED
            BY <2>2, <3>1, <3>2
    <2>4. QED
        BY <1>7, <2>1, <2>2, <2>3
<1>12. ASSUME NEW r \in Request, CheckCovered(r) PROVE Queued'
    <2> DEFINE u == req[r].user
               covered == Covered(u)
    <2>1. /\ u \in User /\ covered \in BOOLEAN /\ lock[u] = r
          /\ UNCHANGED <<clock, owner, expires, status>>
        BY <1>12, RecordTypes DEF CheckCovered, TypeOK, Queued, Covered
    <2>2. CASE req[r].code = None /\ covered
        <3>1. req' = [req EXCEPT ![r] = NoRequest] /\ lock' = [lock EXCEPT ![u] = None]
            BY <1>12, <2>2 DEF CheckCovered, Finish, Release
        <3>2. ASSUME NEW q \in Request, q # r, req[q].pc \in {"check", "write"}
              PROVE  lock'[req[q].user] = q
            BY <1>0, <2>1, <3>1, <3>2 DEF Queued
        <3>3. req'[r].pc = "idle" /\ \A q \in Request : q # r => req'[q] = req[q]
            BY <1>0, <3>1
        <3>4. QED
            BY <1>7, <2>1, <3>2, <3>3
    <2>3. CASE ~(req[r].code = None /\ covered)
        <3>1. /\ \A q \in Request : q # r => req'[q] = req[q]
              /\ req'[r].pc = "write" /\ req'[r].user = u /\ req'[r].covered = covered
              /\ req'[r].code = req[r].code
              /\ lock' = lock
            <4> DEFINE h == [req[r] EXCEPT !.pc = "write", !.covered = covered]
            <4>1. h.pc = "write" /\ h.user = u /\ h.covered = covered /\ h.code = req[r].code
                BY <1>0 DEF RequestType
            <4>2. req' = [req EXCEPT ![r] = h] /\ lock' = lock
                BY <1>12, <2>3 DEF CheckCovered
            <4> HIDE DEF h
            <4>3. QED
                BY <1>0, <4>1, <4>2
        <3>2. QED
            BY <1>7, <2>1, <2>3, <3>1 DEF Queued
    <2>4. QED
        BY <2>2, <2>3
<1>13. ASSUME NEW r \in Request, RequestFails(r) PROVE Queued'
    <2>1. /\ req' = [req EXCEPT ![r] = NoRequest]
          /\ lock' = [u \in User |-> IF lock[u] = r THEN None ELSE lock[u]]
          /\ UNCHANGED <<clock, owner, expires, status>>
        BY <1>13 DEF RequestFails, Finish
    <2>2. NoRequest.pc = "idle"
        BY DEF NoRequest
    <2>3. \A q \in Request : req[q].pc # "idle" => req[q].user \in User
        BY RecordTypes DEF TypeOK
    <2>4. QED
        BY <1>7, <2>1, <2>2, <2>3 DEF Queued, TypeOK
<1>14. ASSUME NEW r \in Request, NEW u \in User, req[r].pc = "write", req[r].user = u,
              \A q \in Request : q # r => req'[q] = req[q],
              req'[r].pc \in {"badge", "idle"}, lock' = [lock EXCEPT ![u] = None],
              \A v \in User : v # u => RunningGifts(v)' \subseteq RunningGifts(v),
              \A g, h \in RunningGifts(u)' : g = h
       PROVE  Queued'
    <2>1. lock[u] = r
        BY <1>14 DEF Queued
    <2>2. GiftsNeverOverlap'
        <3>1. ASSUME NEW v \in User, NEW g \in RunningGifts(v)', NEW h \in RunningGifts(v)'
              PROVE  g = h
            BY <1>14, <3>1 DEF Queued, GiftsNeverOverlap
        <3>2. QED
            BY <3>1 DEF GiftsNeverOverlap
    <2>3. ASSUME NEW q \in Request, req'[q].pc \in {"check", "write"}
          PROVE  /\ req'[q] = req[q] /\ lock[req[q].user] = q
                 /\ req[q].user \in User /\ req[q].user # u
        <3>1. q # r
            BY <1>14, <2>3
        <3>2. req'[q] = req[q]
            BY <1>14, <3>1
        <3>3. lock[req[q].user] = q
            BY <2>3, <3>2 DEF Queued
        <3>4. req[q].user \in User
            BY <2>3, <3>2, RecordTypes DEF TypeOK
        <3>5. QED
            BY <2>1, <3>1, <3>2, <3>3, <3>4
    <2>4. ASSUME NEW q \in Request, req'[q].pc = "write", ~req'[q].covered
          PROVE  RunningGifts(req[q].user)' = {}
        <3>1. RunningGifts(req[q].user) = {}
            BY <2>3, <2>4 DEF Queued
        <3>2. QED
            BY <1>14, <2>3, <2>4, <3>1
    <2>5. \A q \in Request : req'[q].pc \in {"check", "write"} => lock'[req'[q].user] = q
        BY <1>14, <2>3 DEF TypeOK
    <2>6. \A q \in Request : req'[q].pc = "write" /\ req'[q].code = None => ~req'[q].covered
        BY <2>3 DEF Queued
    <2>7. QED
        BY <2>2, <2>4, <2>5, <2>6 DEF Queued
<1>15. ASSUME NEW r \in Request, Claim(r) PROVE Queued'
    <2>0. PICK c \in Purchase, u \in User : c = req[r].code /\ u = req[r].user
        <3>1. req[r] \in RequestType /\ req[r].pc = "write" /\ req[r].code # None
            BY <1>15 DEF Claim, TypeOK
        <3>2. req[r].code \in Purchase /\ req[r].user \in User
            BY <3>1, RecordTypes
        <3>3. QED
            BY <3>2
    <2>1. /\ req[r].pc = "write" /\ lock' = [lock EXCEPT ![u] = None]
          /\ clock' = clock
        BY <1>15, <2>0 DEF Claim, Release
    <2>2. /\ \A q \in Request : q # r => req'[q] = req[q]
          /\ req'[r].pc \in {"badge", "idle"}
        BY <1>15 DEF Claim, Goto, Finish, NoRequest, TypeOK, RequestType
    <2>3. \A g \in Gift : g # c => /\ owner'[g] = owner[g] /\ expires'[g] = expires[g]
                                   /\ status'[g] = status[g]
        BY <1>15, <2>0 DEF Claim, TypeOK, Purchase
    <2>4. ASSUME NEW v \in User, NEW g \in RunningGifts(v)', g # c PROVE g \in RunningGifts(v)
        BY <2>1, <2>3, <2>4 DEF RunningGifts, Granting, Unexpired
    <2>5. CASE ~Claimable(c)
        <3>1. \A v \in User : RunningGifts(v)' = RunningGifts(v)
            BY <1>15, <2>0, <2>1, <2>5 DEF Claim, RunningGifts, Granting, Unexpired
        <3>2. QED
            <4>1. \A g, h \in RunningGifts(u)' : g = h
                BY <3>1 DEF Queued, GiftsNeverOverlap
            <4>2. QED
                BY <1>14, <2>0, <2>1, <2>2, <3>1, <4>1
    <2>6. CASE Claimable(c)
        <3>1. owner'[c] = u
            BY <1>15, <2>0, <2>1, <2>6 DEF Claim, TypeOK
        <3>2. ASSUME NEW v \in User, v # u PROVE RunningGifts(v)' \subseteq RunningGifts(v)
            BY <2>4, <3>1, <3>2 DEF RunningGifts, Granting
        <3>3. CASE req[r].covered
            <4>1. c \notin RunningGifts(u)'
                BY <1>15, <2>0, <2>1, <2>6, <3>3 DEF Claim, TypeOK, RunningGifts, Granting, Purchase
            <4>2. RunningGifts(u)' \subseteq RunningGifts(u)
                BY <2>1, <2>4, <4>1
            <4>3. \A g, h \in RunningGifts(u)' : g = h
                BY <2>1, <4>2 DEF Queued, GiftsNeverOverlap
            <4>4. PICK x : \A g \in RunningGifts(u)' : g = x
                BY <4>3
            <4>5. QED
                BY <1>14, <2>0, <2>1, <2>2, <3>2, <4>4
        <3>4. CASE ~req[r].covered
            <4>1. RunningGifts(u) = {}
                BY <2>0, <2>1, <3>4 DEF Queued
            <4>2. \A g \in RunningGifts(u)' : g = c
                BY <2>1, <2>4, <4>1
            <4>3. QED
                BY <1>14, <2>0, <2>1, <2>2, <3>2, <4>2
        <3>5. QED
            BY <3>3, <3>4
    <2>7. QED
        BY <2>5, <2>6
<1>16. ASSUME NEW r \in Request, Activate(r) PROVE Queued'
    <2>0. PICK u \in User : u = req[r].user
        BY <1>16, RecordTypes DEF Activate, TypeOK
    <2>1. /\ req[r].pc = "write" /\ lock' = [lock EXCEPT ![u] = None]
          /\ clock' = clock /\ ~req[r].covered
        BY <1>16, <2>0 DEF Activate, Release, Queued
    <2>2. /\ \A q \in Request : q # r => req'[q] = req[q]
          /\ req'[r].pc \in {"badge", "idle"}
        BY <1>16 DEF Activate, Finish, NoRequest, TypeOK
    <2>3. RunningGifts(u) = {}
        BY <2>0, <2>1 DEF Queued
    <2>4. CASE Parked(u) = {}
        <3>1. \A v \in User : RunningGifts(v)' = RunningGifts(v)
            BY <1>16, <2>0, <2>1, <2>4 DEF Activate, RunningGifts, Granting, Unexpired
        <3>2. QED
            <4>1. \A g, h \in RunningGifts(u)' : g = h
                BY <3>1 DEF Queued, GiftsNeverOverlap
            <4>2. QED
                BY <1>14, <2>0, <2>1, <2>2, <3>1, <4>1
    <2>5. CASE Parked(u) # {}
        <3>1. PICK g \in Oldest(u) :
                 /\ status' = [status EXCEPT ![g] = "active"]
                 /\ expires' = [expires EXCEPT ![g] = RunsUntil(g)]
                 /\ owner' = owner
            BY <1>16, <2>0, <2>5 DEF Activate
        <3>2. g \in Gift /\ owner[g] = u
            BY DEF Oldest, Parked
        <3>3. ASSUME NEW v \in User, NEW h \in RunningGifts(v)', h # g PROVE h \in RunningGifts(v)
            BY <2>1, <3>1, <3>3 DEF TypeOK, RunningGifts, Granting, Unexpired
        <3>4. ASSUME NEW v \in User, v # u PROVE RunningGifts(v)' \subseteq RunningGifts(v)
            BY <3>1, <3>2, <3>3, <3>4 DEF RunningGifts, Granting
        <3>5. \A h \in RunningGifts(u)' : h = g
            BY <2>1, <2>3, <3>3
        <3>6. QED
            BY <1>14, <2>0, <2>1, <2>2, <3>4, <3>5
    <2>6. QED
        BY <2>4, <2>5
<1>17. QED
    BY <1>2, <1>3, <1>4, <1>5, <1>6, <1>8, <1>9, <1>10, <1>11, <1>12, <1>13, <1>15, <1>16
       DEF Next, vars, Buy, Renew, CancelSubscription, Deliver, Retrieve, Link, HookFails

\* Whatever requests race and wherever they fail, an account burns at most one gift
\* at a time: the advisory lock makes the check and the write one.
THEOREM GiftsQueue == Spec => []GiftsNeverOverlap
<1>1. TypeOK /\ Issued /\ Queued /\ [Next]_vars => TypeOK' /\ Issued' /\ Queued'
    BY TypeStep, IssuedStep, QueuedStep
<1>2. Queued => GiftsNeverOverlap
    BY DEF Queued
<1>3. QED
    BY TypeInit, IssuedInit, QueuedInit, <1>1, <1>2, PTL DEF Spec
---------------------------------------------------------------------------
(* The window follows Stripe                                               *)

\* A handler that has not written yet, an event that will still be handled, and a
\* checkout whose row is not there yet.
Handling(e) == hook[e].pc \in {"begin", "got"}
Due(e)      == e \in outbox \ seen \/ Handling(e)
Unwritten(e) == e \notin seen \/ Handling(e)

\* What an event, known or on its way, and a handler say of Stripe: a subscription
\* does not move between the retrieve and the write.
Notified ==
    /\ \A e \in seen \cup outbox : e.of \in bought /\ (e.type = "invoice" => e.n <= paidUntil[e.of])
    /\ \A e \in Event : hook[e].pc # "idle" => e \in seen
    /\ \A e \in Event : hook[e].pc = "got" => e.of \in Sub /\ hook[e].got = paidUntil[e.of]

\* A checkout that was handled left its row and, for a subscription, its link.
Recorded ==
    \A c \in bought \ failed : ~Unwritten(Checkout(c)) =>
        /\ status[c] # "absent"
        /\ c \in Sub /\ hook[Checkout(c)].pc = "idle" => c \in linked

\* Something is still to come that will set the window.
Coming(s) ==
    \/ Unwritten(Checkout(s))
    \/ s \in linked /\ \E e \in Event : e.type = "invoice" /\ e.of = s /\ Due(e)

Windows == \A s \in (bought \cap Sub) \ failed : Coming(s) \/ expires[s] = paidUntil[s] + Grace

\* Every checkout that is paid has its event, seen or on its way.
Announced == \A c \in bought : Checkout(c) \in seen \cup outbox

\* The first state: the gifts that are out are known, and nothing else is sold.
LEMMA WindowInit == Init => Notified /\ Recorded /\ Windows /\ Announced
<1> SUFFICES ASSUME Init PROVE Notified /\ Recorded /\ Windows /\ Announced
    OBVIOUS
<1>1. \A e \in Event : hook[e] = NoHook /\ NoHook.pc = "idle"
    BY DEF Init, NoHook
<1>2. bought = InitSold /\ seen = {Checkout(g) : g \in InitSold} /\ outbox = {}
    BY DEF Init
<1>3. Notified
    BY <1>1, <1>2 DEF Notified, Checkout
<1>4. Recorded
    BY <1>2, ConstantsAssumption DEF Init, Recorded, Purchase
<1>5. Windows
    BY <1>2, ConstantsAssumption DEF Windows
<1>6. Announced
    BY <1>2, SMTT(30) DEF Announced
<1>7. QED
    BY <1>3, <1>4, <1>5, <1>6

\* What a step does to an event: it stays due until a handler has written, or, for
\* an invoice, has found no link.
LEMMA EventSteps ==
    ASSUME TypeOK, Notified, [Next]_vars, NEW e \in Event
    PROVE  /\ Unwritten(e) /\ ~Unwritten(e)' =>
                \/ InsertEntitlement(e) \/ Extend(e) \/ MarkCancelled(e) \/ HookFails(e)
                \/ e.type = "invoice" /\ e.of \notin linked
           /\ Due(e) /\ ~Due(e)' =>
                \/ InsertEntitlement(e) \/ Extend(e) \/ MarkCancelled(e) \/ HookFails(e)
                \/ e.type = "invoice" /\ e.of \notin linked
<1> DEFINE Goal == /\ Unwritten(e) /\ ~Unwritten(e)' =>
                        \/ InsertEntitlement(e) \/ Extend(e) \/ MarkCancelled(e) \/ HookFails(e)
                        \/ e.type = "invoice" /\ e.of \notin linked
                   /\ Due(e) /\ ~Due(e)' =>
                        \/ InsertEntitlement(e) \/ Extend(e) \/ MarkCancelled(e) \/ HookFails(e)
                        \/ e.type = "invoice" /\ e.of \notin linked
<1> USE DEF TypeOK, entVars, stripeVars, hist, Unwritten, Due, Handling
<1>1. CASE outbox \subseteq outbox' /\ seen' = seen /\ hook' = hook
    BY <1>1
<1>2. ASSUME NEW x \in Event, Deliver(x) PROVE Goal
    <2>1. CASE x \in seen
        BY <1>2, <2>1 DEF Deliver, Known
    <2>2. CASE x \notin seen
        <3>1. [NoHook EXCEPT !.pc = "begin"].pc = "begin"
            BY DEF NoHook
        <3>2. /\ seen' = seen \cup {x} /\ outbox' = outbox /\ hook'[x].pc = "begin"
              /\ \A y \in Event : y # x => hook'[y] = hook[y]
            BY <1>2, <2>2, <3>1 DEF Deliver, Known
        <3>3. QED
            BY <3>2
    <2>3. QED
        BY <2>1, <2>2
<1>3. ASSUME NEW x \in Event, seen' = seen, outbox' \in {outbox, outbox \ {x}}, x \in seen,
             \A y \in Event : y # x => hook'[y] = hook[y],
             \/ hook'[x].pc \in {"begin", "got"} \/ hook[x].pc = "link"
             \/ InsertEntitlement(x) \/ Extend(x) \/ MarkCancelled(x) \/ HookFails(x)
             \/ x.type = "invoice" /\ x.of \notin linked
      PROVE  Goal
    BY <1>3
<1>4. ASSUME NEW x \in Event, Retrieve(x) PROVE Goal
    <2>1. x \in seen
        BY <1>4 DEF Retrieve, Notified
    <2>2. QED
        BY <1>3, <1>4, <2>1 DEF Retrieve, Answer200
<1>5. ASSUME NEW x \in Event, InsertEntitlement(x) PROVE Goal
    <2>1. x \in seen
        BY <1>5 DEF InsertEntitlement, Notified
    <2>2. QED
        BY <1>3, <1>5, <2>1 DEF InsertEntitlement
<1>6. ASSUME NEW x \in Event, Link(x) PROVE Goal
    BY <1>3, <1>6 DEF Link, Answer200, Notified
<1>7. ASSUME NEW x \in Event, Extend(x) PROVE Goal
    BY <1>3, <1>7 DEF Extend, Answer200, Notified
<1>8. ASSUME NEW x \in Event, MarkCancelled(x) PROVE Goal
    BY <1>3, <1>8 DEF MarkCancelled, Answer200, Notified
<1>9. ASSUME NEW x \in Event, HookFails(x) PROVE Goal
    BY <1>9 DEF HookFails
<1>10. QED
    BY <1>1, <1>2, <1>4, <1>5, <1>6, <1>7, <1>8, <1>9, Zenon
       DEF Next, vars, Tick, Buy, Renew, CancelSubscription, StartRedeem, StartBadge,
           ReadBadge, TakeLock, CheckCovered, Claim, Activate, RequestFails
\* A subscription that moves is not being handled; an event that is known is of a
\* checkout that was paid.
LEMMA NotifiedStep == TypeOK /\ Notified /\ [Next]_vars => Notified'
<1> SUFFICES ASSUME TypeOK, Notified, [Next]_vars PROVE Notified'
    OBVIOUS
<1> USE DEF TypeOK, entVars, stripeVars, hist
<1>1. ASSUME \A e \in seen' \cup outbox' : e \in seen \cup outbox, UNCHANGED <<bought, paidUntil>>,
             \A e \in Event : hook'[e].pc # "idle" => e \in seen',
             \A e \in Event : hook'[e].pc = "got" =>
                hook'[e] = hook[e] \/ (e.of \in Sub /\ hook'[e].got = paidUntil[e.of])
      PROVE  Notified'
    BY <1>1 DEF Notified
<1>2. CASE UNCHANGED <<seen, outbox, hook, bought, paidUntil>>
    BY <1>2 DEF Notified
<1>3. ASSUME NEW c \in Purchase, Buy(c) PROVE Notified'
    <2>1. \A e \in seen \cup outbox : e.of # c
        BY <1>3 DEF Buy, Notified
    <2>2. ASSUME NEW e \in seen' \cup outbox'
          PROVE  e.of \in bought' /\ (e.type = "invoice" => e.n <= paidUntil'[e.of])
        <3>1. CASE e \in seen \cup outbox
            <4>1. e.type = "invoice" => e.of \in Sub
                BY <3>1, EventTypes
            <4>2. QED
                BY <1>3, <2>1, <3>1, <4>1 DEF Buy, Notified
        <3>2. CASE e = Checkout(c)
            BY <1>3, <3>2 DEF Buy, Checkout
        <3>3. CASE c \in Sub /\ e = [type |-> "invoice", of |-> c, n |-> clock + Period]
            BY <1>3, <3>3, ConstantsAssumption DEF Buy
        <3>4. QED
            BY <1>3, <2>2, <3>1, <3>2, <3>3 DEF Buy
    <2>3. \A e \in Event : hook[e].pc = "got" => e.of \in Sub /\ hook[e].got = paidUntil'[e.of]
        BY <1>3, <2>1 DEF Buy, Notified
    <2>4. QED
        BY <1>3, <2>2, <2>3 DEF Buy, Notified
<1>4. ASSUME NEW s \in Sub, Renew(s) PROVE Notified'
    <2>1. \A e \in Event : hook'[e].pc = "idle"
        BY <1>4 DEF Renew, Resting, NoHook
    <2>2. ASSUME NEW e \in seen' \cup outbox'
          PROVE  e.of \in bought' /\ (e.type = "invoice" => e.n <= paidUntil'[e.of])
        <3>1. CASE e \in seen \cup outbox
            <4>1. e.type = "invoice" => e.of \in Sub /\ e.n \in Nat
                BY <3>1, ConstantsAssumption DEF Event
            <4>2. QED
                BY <1>4, <3>1, <4>1, ConstantsAssumption DEF Renew, Notified
        <3>2. CASE e = [Invoice(s) EXCEPT !.n = @ + Period]
            <4>1. e.of = s /\ e.n = paidUntil[s] + Period
                BY <3>2 DEF Invoice
            <4>2. QED
                BY <1>4, <4>1, ConstantsAssumption DEF Renew
        <3>3. QED
            BY <1>4, <2>2, <3>1, <3>2 DEF Renew
    <2>3. QED
        BY <2>1, <2>2 DEF Notified
<1>5. ASSUME NEW s \in Sub, CancelSubscription(s) PROVE Notified'
    <2>1. Deleted(s).of = s /\ Deleted(s).type = "deleted"
        BY DEF Deleted
    <2>2. QED
        BY <1>5, <2>1 DEF CancelSubscription, Notified
<1>6. ASSUME NEW x \in Event, Deliver(x) PROVE Notified'
    <2>1. CASE x \in seen
        BY <1>1, <1>6, <2>1 DEF Deliver, Known, Notified
    <2>2. CASE x \notin seen
        <3>1. [NoHook EXCEPT !.pc = "begin"].pc = "begin"
            BY DEF NoHook
        <3>2. /\ seen' = seen \cup {x} /\ UNCHANGED <<outbox, bought, paidUntil>>
              /\ hook'[x].pc = "begin" /\ \A y \in Event : y # x => hook'[y] = hook[y]
            BY <1>6, <2>2, <3>1 DEF Deliver, Known
        <3>3. x \in outbox
            BY <1>6 DEF Deliver
        <3>4. QED
            BY <1>1, <3>2, <3>3 DEF Notified
    <2>3. QED
        BY <2>1, <2>2
<1>7. ASSUME NEW x \in Event, x \in seen, seen' = seen, outbox' \subseteq outbox,
             UNCHANGED <<bought, paidUntil>>,
             \A e \in Event : e # x => hook'[e] = hook[e],
             hook'[x].pc = "got" => x.of \in Sub /\ hook'[x].got = paidUntil[x.of]
      PROVE  Notified'
    BY <1>1, <1>7 DEF Notified
<1>8. ASSUME NEW x \in Event, Retrieve(x) PROVE Notified'
    BY <1>7, <1>8 DEF Retrieve, Answer200, PeriodEnd, NoHook, Notified
<1>9. ASSUME NEW x \in Event, InsertEntitlement(x) PROVE Notified'
    <2>1. [hook[x] EXCEPT !.pc = "link"].pc = "link"
        BY DEF HookType
    <2>2. x \in seen
        BY <1>9 DEF InsertEntitlement, Notified
    <2>3. QED
        BY <1>7, <1>9, <2>1, <2>2 DEF InsertEntitlement
<1>10. ASSUME NEW x \in Event, Link(x) PROVE Notified'
    BY <1>7, <1>10 DEF Link, Answer200, NoHook, Notified
<1>11. ASSUME NEW x \in Event, Extend(x) PROVE Notified'
    BY <1>7, <1>11 DEF Extend, Answer200, NoHook, Notified
<1>12. ASSUME NEW x \in Event, MarkCancelled(x) PROVE Notified'
    BY <1>7, <1>12 DEF MarkCancelled, Answer200, NoHook, Notified
<1>13. ASSUME NEW x \in Event, HookFails(x) PROVE Notified'
    BY <1>1, <1>13, SMTT(30) DEF HookFails, NoHook, Notified
<1>14. QED
    BY <1>2, <1>3, <1>4, <1>5, <1>6, <1>8, <1>9, <1>10, <1>11, <1>12, <1>13
       DEF Next, vars, Tick, StartRedeem, StartBadge, ReadBadge, TakeLock, CheckCovered,
           Claim, Activate, RequestFails

\* Stripe repeats an event until it is answered, and a known event stays known.
LEMMA AnnouncedStep == TypeOK /\ Notified /\ Announced /\ [Next]_vars => Announced'
<1> SUFFICES ASSUME TypeOK, Notified, Announced, [Next]_vars PROVE Announced'
    OBVIOUS
<1> USE DEF TypeOK, entVars, stripeVars, hist
<1>1. ASSUME bought' = bought, seen \cup outbox \subseteq seen' \cup outbox' PROVE Announced'
    BY <1>1 DEF Announced, Checkout
<1>2. ASSUME NEW c \in Purchase, Buy(c) PROVE Announced'
    BY <1>2 DEF Buy, Announced, Checkout
<1>3. ASSUME NEW x \in Event, Deliver(x) PROVE Announced'
    BY <1>1, <1>3 DEF Deliver, Known
<1>4. ASSUME NEW x \in Event, hook[x].pc # "idle", outbox' \in {outbox, outbox \ {x}},
             UNCHANGED <<bought, seen>>
      PROVE  Announced'
    BY <1>1, <1>4 DEF Notified
<1>5. ASSUME NEW x \in Event, Retrieve(x) PROVE Announced'
    BY <1>4, <1>5 DEF Retrieve, Answer200
<1>6. ASSUME NEW x \in Event, Link(x) PROVE Announced'
    BY <1>4, <1>6 DEF Link, Answer200
<1>7. ASSUME NEW x \in Event, Extend(x) PROVE Announced'
    BY <1>4, <1>7 DEF Extend, Answer200
<1>8. ASSUME NEW x \in Event, MarkCancelled(x) PROVE Announced'
    BY <1>4, <1>8 DEF MarkCancelled, Answer200
<1>9. CASE bought' = bought /\ seen' = seen /\ outbox \subseteq outbox'
    BY <1>1, <1>9
<1>10. QED
    BY <1>2, <1>3, <1>5, <1>6, <1>7, <1>8, <1>9
       DEF Next, vars, Tick, Renew, CancelSubscription, InsertEntitlement, HookFails,
           StartRedeem, StartBadge, ReadBadge, TakeLock, CheckCovered, Claim, Activate,
           RequestFails
\* An entitlement that exists does not go away, nor does a link.
LEMMA RowsStay ==
    ASSUME TypeOK, [Next]_vars, NEW c \in Purchase, status[c] # "absent"
    PROVE  status'[c] # "absent"
<1> USE DEF TypeOK, entVars, stripeVars, hist
<1>1. CASE status' = status
    BY <1>1
<1>2. ASSUME NEW x \in Event, InsertEntitlement(x) PROVE status'[c] # "absent"
    BY <1>2 DEF InsertEntitlement
<1>3. ASSUME NEW x \in Event, Extend(x) PROVE status'[c] # "absent"
    BY <1>3 DEF Extend
<1>4. ASSUME NEW x \in Event, MarkCancelled(x) PROVE status'[c] # "absent"
    BY <1>4 DEF MarkCancelled
<1>5. ASSUME NEW r \in Request, Claim(r) PROVE status'[c] # "absent"
    BY <1>5 DEF Claim
<1>6. ASSUME NEW r \in Request, Activate(r) PROVE status'[c] # "absent"
    BY <1>6, SMTT(30) DEF Activate
<1>7. QED
    BY <1>1, <1>2, <1>3, <1>4, <1>5, <1>6
       DEF Next, vars, Tick, Buy, Renew, CancelSubscription, Deliver, Retrieve, Link,
           HookFails, StartRedeem, StartBadge, ReadBadge, TakeLock, CheckCovered,
           RequestFails

\* Nothing that was linked, or failed, or is known is forgotten, and what was not
\* bought had no event.
LEMMA Memory ==
    ASSUME TypeOK, Notified, [Next]_vars
    PROVE  /\ linked \subseteq linked' /\ failed \subseteq failed' /\ seen \subseteq seen'
           /\ \A c \in bought' \ bought : Unwritten(Checkout(c))'
           /\ \A e \in Event : hook[e].pc = "link" /\ hook'[e].pc = "idle" =>
                e.of \in failed' \/ linked' = linked \cup ({e.of} \cap Sub)
<1> DEFINE Goal == /\ linked \subseteq linked' /\ failed \subseteq failed' /\ seen \subseteq seen'
                   /\ \A c \in bought' \ bought : Unwritten(Checkout(c))'
                   /\ \A e \in Event : hook[e].pc = "link" /\ hook'[e].pc = "idle" =>
                        e.of \in failed' \/ linked' = linked \cup ({e.of} \cap Sub)
<1> USE DEF TypeOK, entVars, stripeVars, hist
<1>1. CASE UNCHANGED <<linked, failed, seen, bought, hook>>
    BY <1>1
<1>2. ASSUME NEW c \in Purchase, Buy(c) PROVE Goal
    <2>1. Checkout(c) \notin seen
        BY <1>2 DEF Buy, Notified, Checkout
    <2>2. QED
        BY <1>2, <2>1 DEF Buy, Unwritten, Checkout
<1>3. ASSUME NEW x \in Event, UNCHANGED <<linked, failed, bought>>, seen \subseteq seen',
             \A e \in Event : e # x => hook'[e] = hook[e],
             hook[x].pc = "link" => hook'[x].pc # "idle"
      PROVE  Goal
    BY <1>3
<1>4. ASSUME NEW x \in Event, Deliver(x) PROVE Goal
    BY <1>3, <1>4 DEF Deliver, NoHook
<1>5. ASSUME NEW x \in Event, Retrieve(x) PROVE Goal
    BY <1>3, <1>5 DEF Retrieve, Answer200
<1>6. ASSUME NEW x \in Event, InsertEntitlement(x) PROVE Goal
    BY <1>3, <1>6 DEF InsertEntitlement
<1>7. ASSUME NEW x \in Event, Link(x) PROVE Goal
    BY <1>7 DEF Link, Answer200
<1>8. ASSUME NEW x \in Event, Extend(x) PROVE Goal
    BY <1>3, <1>8 DEF Extend, Answer200
<1>9. ASSUME NEW x \in Event, MarkCancelled(x) PROVE Goal
    BY <1>3, <1>9 DEF MarkCancelled, Answer200
<1>10. ASSUME NEW x \in Event, HookFails(x) PROVE Goal
    BY <1>10 DEF HookFails
<1>11. QED
    BY <1>1, <1>2, <1>4, <1>5, <1>6, <1>7, <1>8, <1>9, <1>10, Zenon
       DEF Next, vars, Tick, Renew, CancelSubscription, StartRedeem, StartBadge,
           ReadBadge, TakeLock, CheckCovered, Claim, Activate, RequestFails

\* A checkout is written once, and linked when its handler is done.
LEMMA RecordedStep == TypeOK /\ Notified /\ Recorded /\ [Next]_vars => Recorded'
<1> SUFFICES ASSUME TypeOK, Notified, Recorded, [Next]_vars,
                    NEW c \in bought' \ failed', ~Unwritten(Checkout(c))'
             PROVE  /\ status'[c] # "absent"
                    /\ c \in Sub /\ hook'[Checkout(c)].pc = "idle" => c \in linked'
    BY DEF Recorded, Unwritten, Handling, Checkout
<1>1. c \in bought /\ c \notin failed /\ c \in Purchase /\ Checkout(c) \in Event
    BY Memory, EventTypes DEF TypeOK
<1>2. Checkout(c).type = "checkout" /\ Checkout(c).of = c
    BY DEF Checkout
<1>3. CASE Unwritten(Checkout(c))
    <2>1. \/ InsertEntitlement(Checkout(c)) \/ Extend(Checkout(c))
          \/ MarkCancelled(Checkout(c)) \/ HookFails(Checkout(c))
        BY <1>1, <1>2, <1>3, EventSteps DEF Unwritten, Handling, Checkout
    <2>2. InsertEntitlement(Checkout(c))
        BY <1>1, <1>2, <2>1 DEF Extend, MarkCancelled, HookFails
    <2>3. status'[c] = "unredeemed"
        BY <1>1, <1>2, <2>2 DEF InsertEntitlement, TypeOK
    <2>4. hook'[Checkout(c)].pc = "link"
        BY <1>1, <2>2 DEF InsertEntitlement, TypeOK, HookType
    <2>5. QED
        BY <2>3, <2>4
<1>4. CASE ~Unwritten(Checkout(c))
    <2>1. status[c] # "absent" /\ (c \in Sub /\ hook[Checkout(c)].pc = "idle" => c \in linked)
        BY <1>1, <1>4 DEF Recorded
    <2>2. status'[c] # "absent"
        BY <1>1, <2>1, RowsStay
    <2>3. ASSUME c \in Sub, hook'[Checkout(c)].pc = "idle" PROVE c \in linked'
        <3>1. CASE hook[Checkout(c)].pc = "idle"
            BY <2>1, <2>3, <3>1, Memory
        <3>2. CASE hook[Checkout(c)].pc = "link"
            BY <1>1, <1>2, <2>3, <3>2, Memory
        <3>3. hook[Checkout(c)].pc \in {"idle", "begin", "got", "link"}
            BY <1>1 DEF TypeOK, HookType
        <3>4. QED
            BY <1>4, <3>1, <3>2, <3>3 DEF Unwritten, Handling
    <2>4. QED
        BY <2>2, <2>3
<1>5. QED
    BY <1>3, <1>4
\* Only a subscription's own checkout, invoice and charge move its window or its
\* paid period.
LEMMA WindowMoves ==
    ASSUME TypeOK, Notified, [Next]_vars, NEW s \in Sub, s \in bought, s \notin failed'
    PROVE  \/ UNCHANGED <<expires[s], paidUntil[s]>>
           \/ expires'[s] = paidUntil'[s] + Grace
           \/ Renew(s)
<1> DEFINE Goal == \/ UNCHANGED <<expires[s], paidUntil[s]>>
                   \/ expires'[s] = paidUntil'[s] + Grace
                   \/ Renew(s)
<1> USE DEF TypeOK, entVars, stripeVars, hist
<1>0. s \in Purchase /\ s \notin Gift
    BY ConstantsAssumption DEF Purchase
<1>1. CASE UNCHANGED <<expires, paidUntil>>
    BY <1>1
<1>2. ASSUME NEW c \in Purchase, Buy(c) PROVE Goal
    BY <1>2 DEF Buy
<1>3. ASSUME NEW x \in Sub, Renew(x) PROVE Goal
    BY <1>3 DEF Renew
<1>4. ASSUME NEW x \in Event, InsertEntitlement(x) PROVE Goal
    BY <1>0, <1>4 DEF InsertEntitlement, Notified
<1>5. ASSUME NEW x \in Event, Extend(x) PROVE Goal
    BY <1>0, <1>5 DEF Extend, Notified
<1>6. ASSUME NEW r \in Request, Claim(r) PROVE Goal
    BY <1>0, <1>6 DEF Claim
<1>7. ASSUME NEW r \in Request, Activate(r) PROVE Goal
    <2>1. \A g \in Oldest(req[r].user) : g # s
        BY <1>0 DEF Oldest, Parked
    <2>2. QED
        BY <1>0, <1>7, <2>1 DEF Activate
<1>8. QED
    BY <1>1, <1>2, <1>3, <1>4, <1>5, <1>6, <1>7
       DEF Next, vars, Tick, CancelSubscription, Deliver, Retrieve, Link, MarkCancelled,
           HookFails, StartRedeem, StartBadge, ReadBadge, TakeLock, CheckCovered,
           RequestFails

\* A charge is a new invoice, of a subscription whose checkout was handled.
LEMMA ChargeComes ==
    ASSUME TypeOK, Notified, Recorded, NEW s \in Sub, s \notin failed, Renew(s)
    PROVE  Coming(s)'
<1> DEFINE e == [Invoice(s) EXCEPT !.n = @ + Period]
<1>1. e = [type |-> "invoice", of |-> s, n |-> paidUntil[s] + Period]
    BY DEF Invoice
<1>2. e \in Event
    <2>1. paidUntil[s] + Period \in 0..MaxClock + Period
        BY ConstantsAssumption DEF Renew, TypeOK
    <2>2. QED
        BY <1>1, <2>1, EventTypes
<1>3. ~(paidUntil[s] + Period <= paidUntil[s])
    BY ConstantsAssumption DEF TypeOK
<1>4. e \notin seen
    BY <1>1, <1>3 DEF Notified
<1>5. e \in outbox' /\ seen' = seen /\ hook' = hook /\ linked' = linked /\ s \in bought
    BY DEF Renew
<1>6. CASE Checkout(s) \notin seen
    BY <1>5, <1>6 DEF Coming, Unwritten, Checkout
<1>7. CASE Checkout(s) \in seen
    <2>1. hook[Checkout(s)].pc = "idle"
        BY EventTypes DEF Renew, Resting, NoHook, Purchase
    <2>2. s \in linked
        BY <1>5, <1>7, <2>1 DEF Recorded, Unwritten, Handling
    <2>3. QED
        BY <1>1, <1>2, <1>4, <1>5, <2>2 DEF Coming, Due
<1>8. QED
    BY <1>6, <1>7

\* What is to come for a subscription stays so until the window is set.
LEMMA WindowsStep == TypeOK /\ Notified /\ Recorded /\ Windows /\ [Next]_vars => Windows'
<1> SUFFICES ASSUME TypeOK, Notified, Recorded, Windows, [Next]_vars,
                    NEW s \in (bought' \cap Sub) \ failed'
             PROVE  Coming(s)' \/ expires'[s] = paidUntil'[s] + Grace
    BY DEF Windows
<1>1. CASE s \notin bought
    BY <1>1, Memory DEF Coming
<1>2. CASE s \in bought /\ Renew(s)
    BY <1>2, ChargeComes, Memory
<1>3. CASE s \in bought /\ UNCHANGED <<expires[s], paidUntil[s]>>
    <2>1. s \in (bought \cap Sub) \ failed
        BY <1>3, Memory
    <2>2. CASE ~Coming(s)
        BY <1>3, <2>1, <2>2 DEF Windows
    <2>3. ASSUME NEW e \in Event, e.of = s,
                 InsertEntitlement(e) \/ Extend(e) \/ MarkCancelled(e) \/ HookFails(e),
                 e.type # "deleted"
          PROVE  expires'[s] = paidUntil'[s] + Grace
        <3>1. ~HookFails(e) /\ ~MarkCancelled(e)
            BY <2>3 DEF HookFails, MarkCancelled
        <3>2. s \in Purchase /\ s \notin Gift
            BY ConstantsAssumption DEF Purchase
        <3>3. hook[e].pc = "got" /\ expires'[s] = hook[e].got + Grace
            BY <2>3, <3>1, <3>2 DEF InsertEntitlement, Extend, TypeOK
        <3>4. QED
            BY <1>3, <2>3, <3>3 DEF Notified
    <2>4. CASE Unwritten(Checkout(s))
        <3>1. /\ Checkout(s) \in Event /\ Checkout(s).of = s
              /\ Checkout(s).type = "checkout"
            BY EventTypes DEF Checkout, Purchase
        <3>2. CASE Unwritten(Checkout(s))'
            BY <3>2 DEF Coming
        <3>3. CASE ~Unwritten(Checkout(s))'
            BY <2>3, <2>4, <3>1, <3>3, EventSteps DEF Unwritten, Handling, Checkout
        <3>4. QED
            BY <3>2, <3>3
    <2>5. CASE s \in linked /\ \E e \in Event : e.type = "invoice" /\ e.of = s /\ Due(e)
        <3>1. PICK e \in Event : e.type = "invoice" /\ e.of = s /\ Due(e)
            BY <2>5
        <3>2. CASE Due(e)'
            BY <2>5, <3>1, <3>2, Memory DEF Coming
        <3>3. CASE ~Due(e)'
            BY <2>3, <2>5, <3>1, <3>3, EventSteps
        <3>4. QED
            BY <3>2, <3>3
    <2>6. QED
        BY <2>2, <2>4, <2>5 DEF Coming
<1>4. QED
    BY <1>1, <1>2, <1>3, WindowMoves

\* Once Stripe's events are answered, in whatever order they came, however often and
\* however concurrently, a paid checkout has its entitlement, and a subscription's
\* window is the paid period and the grace; unless one of its events threw.
THEOREM WindowsFollowStripe == Spec => []WindowMatchesStripe
<1> DEFINE Inv == TypeOK /\ Notified /\ Announced /\ Recorded /\ Windows
<1>1. Init => Inv
    BY TypeInit, WindowInit
<1>2. Inv /\ [Next]_vars => Inv'
    BY TypeStep, NotifiedStep, AnnouncedStep, RecordedStep, WindowsStep
<1>3. Inv => WindowMatchesStripe
    <2> SUFFICES ASSUME Inv, NEW c \in bought \ failed, Settled(c)
                 PROVE  /\ status[c] # "absent"
                        /\ c \in Sub => expires[c] = paidUntil[c] + Grace
        BY DEF WindowMatchesStripe
    <2>1. Checkout(c) \in Event /\ Checkout(c).of = c
        BY EventTypes DEF Checkout, TypeOK
    <2>2. \A e \in Event : e.of = c => ~Due(e) /\ hook[e].pc = "idle"
        BY DEF Settled, Due, Handling, NoHook
    <2>3. Checkout(c) \in seen
        BY <2>1 DEF Settled, Announced
    <2>4. ~Unwritten(Checkout(c))
        BY <2>1, <2>2, <2>3 DEF Unwritten, Handling
    <2>5. ~Coming(c)
        BY <2>2, <2>4 DEF Coming
    <2>6. QED
        BY <2>4, <2>5 DEF Recorded, Windows
<1>4. QED
    BY <1>1, <1>2, <1>3, PTL DEF Spec
=============================================================================
