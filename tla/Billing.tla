------------------------------ MODULE Billing ------------------------------
(***************************************************************************)
(* Entitlements (routes/billing.js, lib/entitlements.js): what Stripe's    *)
(* webhooks create and extend, what accounts redeem, and the gift credit   *)
(* that waits its turn.                                                    *)
(*                                                                         *)
(* A database statement is one step; an UPDATE and the COMMIT that follows *)
(* it are one step, because nobody reads the row between them.  The clock  *)
(* counts months; it stands still while a request or a webhook is being    *)
(* handled, which takes seconds.                                           *)
(***************************************************************************)
EXTENDS Naturals, FiniteSets

CONSTANTS
    User,
    Sub, Gift,  \* the checkouts that will be paid for; each has its own code
    Months,     \* Months[g]: entitlements.duration_months of a gift
    Period,     \* months a subscription is billed for at a time
    Grace,      \* config.billing.graceDays, in the unit of the clock
    Request,    \* requests in flight at a time
    None,       \* NULL, for a user and for a code
    InitSold,   \* gifts whose code is out when a behaviour starts
    MaxClock,   \* bound on the clock
    MaxOutbox,  \* bound on the events that are not answered
    Faults      \* bound: {"throw"} if a handler may throw half-way

ASSUME ConstantsAssumption ==
    /\ Sub \cap Gift = {}
    /\ None \notin User \cup Sub \cup Gift \cup Request
    /\ Months \in [Gift -> Nat \ {0}]
    /\ Period \in Nat \ {0} /\ Grace \in Nat /\ MaxClock \in Nat \ {0}
    /\ MaxOutbox \in Nat
    /\ InitSold \subseteq Gift /\ Faults \subseteq {"throw"}

Purchase == Sub \cup Gift

VARIABLES
    clock,
    \* entitlements: one row per purchase at most, identified with it
    status,     \* "absent" for no row
    owner,      \* user_id
    expires,    \* expires_at, 0 for NULL (and so in the past)
    granted,    \* granted_at of a gift
    seen,       \* billing_events
    \* the Node process
    hook,       \* the handling of a webhook event
    req,        \* POST /redeem and the badge reads
    lock,       \* the advisory lock of a user: the request that holds it
    \* Stripe
    bought,     \* checkouts that are paid
    paidUntil,  \* current_period_end of a subscription
    linked,     \* subscriptions whose metadata carries the entitlement id
    ended,      \* subscriptions that are cancelled
    outbox,     \* events not yet answered with 200
    \* history, read by no action
    codes,      \* how many codes were issued for a purchase
    started,    \* when a gift began to count down
    failed      \* purchases with an event whose handling threw

entVars    == <<status, owner, expires, granted, started>>
stripeVars == <<bought, paidUntil, linked, ended>>
hist       == <<codes, failed>>
vars == <<clock, entVars, seen, hook, req, lock, stripeVars, outbox, hist>>

Checkout(c) == [type |-> "checkout", of |-> c, n |-> 0]
Invoice(s)  == [type |-> "invoice", of |-> s, n |-> paidUntil[s]]
\* The payload of a deletion holds the metadata of that moment: n = 1 if linked.
Deleted(s)  == [type |-> "deleted", of |-> s, n |-> IF s \in linked THEN 1 ELSE 0]

Event == [type : {"checkout"}, of : Purchase, n : {0}]
         \cup [type : {"invoice"}, of : Sub, n : 0..MaxClock + Period]
         \cup [type : {"deleted"}, of : Sub, n : {0, 1}]

NoHook    == [pc |-> "idle", got |-> 0]
NoRequest == [pc |-> "idle", user |-> None, code |-> None, covered |-> FALSE]

\* expires_at > now()
Unexpired(c) == expires[c] > clock

\* What `covered` and the badge look for.
Granting(c, u) == owner[c] = u /\ status[c] \in {"active", "cancelled"} /\ Unexpired(c)
Covered(u) == \E c \in Purchase : Granting(c, u)
Parked(u)  == {g \in Gift : owner[g] = u /\ status[g] = "credit"}

Init ==
    /\ clock = 1
    /\ status = [c \in Purchase |-> IF c \in InitSold THEN "unredeemed" ELSE "absent"]
    /\ owner = [c \in Purchase |-> None]
    /\ expires = [c \in Purchase |-> 0]
    /\ granted = [g \in Gift |-> 0]
    /\ seen = {Checkout(g) : g \in InitSold}
    /\ hook = [e \in Event |-> NoHook]
    /\ req = [r \in Request |-> NoRequest]
    /\ lock = [u \in User |-> None]
    /\ bought = InitSold /\ linked = {} /\ ended = {} /\ outbox = {}
    /\ paidUntil = [s \in Sub |-> 0]
    /\ codes = [c \in Purchase |-> IF c \in InitSold THEN 1 ELSE 0]
    /\ started = [g \in Gift |-> 0]
    /\ failed = {}

Resting == (\A e \in Event : hook[e] = NoHook) /\ (\A r \in Request : req[r] = NoRequest)

Tick ==
    /\ clock < MaxClock /\ Resting
    /\ clock' = clock + 1
    /\ UNCHANGED <<entVars, seen, hook, req, lock, stripeVars, outbox, hist>>

---------------------------------------------------------------------------
(* Stripe, as the webhook sees it: it charges, it emits events, and it     *)
(* repeats an event, in any order, until it is answered with 200.          *)

Buy(c) ==
    /\ c \notin bought
    /\ bought' = bought \cup {c}
    /\ paidUntil' = IF c \in Sub THEN [paidUntil EXCEPT ![c] = clock + Period] ELSE paidUntil
    /\ outbox' = outbox \cup {Checkout(c)} \cup
                 (IF c \in Sub THEN {[type |-> "invoice", of |-> c, n |-> clock + Period]}
                  ELSE {})
    /\ UNCHANGED <<clock, entVars, seen, hook, req, lock, linked, ended, hist>>

\* The next period is paid for, on time or after some retries of the card.
Renew(s) ==
    /\ s \in bought \ ended /\ Resting /\ Cardinality(outbox) < MaxOutbox
    /\ paidUntil[s] <= clock
    /\ paidUntil' = [paidUntil EXCEPT ![s] = @ + Period]
    /\ outbox' = outbox \cup {[Invoice(s) EXCEPT !.n = @ + Period]}
    /\ UNCHANGED <<clock, entVars, seen, hook, req, lock, bought, linked, ended, hist>>

CancelSubscription(s) ==
    /\ s \in bought \ ended /\ Resting /\ Cardinality(outbox) < MaxOutbox
    /\ ended' = ended \cup {s}
    /\ outbox' = outbox \cup {Deleted(s)}
    /\ UNCHANGED <<clock, entVars, seen, hook, req, lock, bought, paidUntil, linked, hist>>

---------------------------------------------------------------------------
(* POST /webhook and handleEvent.                                          *)

\* Mutant: no billing_events.
Known_Never(e) == FALSE
\* The INSERT ... ON CONFLICT DO NOTHING returns no row.
Known(e) == e \in seen

\* Stripe repeats an event whose 200 gets lost.
Answer200(e) ==
    /\ outbox' \in {outbox, outbox \ {e}}
    /\ hook' = [hook EXCEPT ![e] = NoHook]

\* An event is delivered, perhaps while an earlier delivery is being handled.
Deliver(e) ==
    /\ e \in outbox
    /\ IF Known(e)
       THEN /\ outbox' = outbox \ {e}
            /\ UNCHANGED <<seen, hook>>
       ELSE /\ hook[e] = NoHook
            /\ seen' = seen \cup {e}
            /\ hook' = [hook EXCEPT ![e] = [@ EXCEPT !.pc = "begin"]]
            /\ UNCHANGED outbox
    /\ UNCHANGED <<clock, entVars, req, lock, stripeVars, hist>>

\* Mutant: the period end that the event was created with.
PeriodEnd_Payload(e) == IF e.type = "invoice" THEN e.n ELSE 0
\* stripe.subscriptions.retrieve: the subscription as it is now.
PeriodEnd(e) == paidUntil[e.of]

\* invoice.paid on a subscription that names no entitlement yet is dropped.
Retrieve(e) ==
    /\ hook[e].pc = "begin" /\ e.of \in Sub /\ e.type \in {"checkout", "invoice"}
    /\ IF e.type = "invoice" /\ e.of \notin linked
       THEN Answer200(e)
       ELSE /\ hook' = [hook EXCEPT ![e] = [pc |-> "got", got |-> PeriodEnd(e)]]
            /\ UNCHANGED outbox
    /\ UNCHANGED <<clock, entVars, seen, req, lock, stripeVars, hist>>

\* The INSERT of the entitlement and, hashed, of its code.
InsertEntitlement(e) ==
    /\ e.type = "checkout"
    /\ hook[e].pc = IF e.of \in Gift THEN "begin" ELSE "got"
    /\ status' = [status EXCEPT ![e.of] = "unredeemed"]
    /\ expires' = [expires EXCEPT ![e.of] =
                      IF e.of \in Gift THEN 0 ELSE hook[e].got + Grace]
    /\ codes' = [codes EXCEPT ![e.of] = @ + 1]
    /\ hook' = [hook EXCEPT ![e] = [@ EXCEPT !.pc = "link"]]
    /\ UNCHANGED <<clock, owner, granted, started, seen, req, lock, stripeVars, outbox,
                   failed>>

\* The metadata is written to Stripe and the code is mailed.
Link(e) ==
    /\ hook[e].pc = "link"
    /\ linked' = linked \cup ({e.of} \cap Sub)
    /\ Answer200(e)
    /\ UNCHANGED <<clock, entVars, seen, req, lock, bought, paidUntil, ended, hist>>

\* invoice.paid: the window moves, and a lapsed entitlement comes back.
Extend(e) ==
    /\ e.type = "invoice" /\ hook[e].pc = "got"
    /\ expires' = [expires EXCEPT ![e.of] = hook[e].got + Grace]
    /\ status' = [status EXCEPT ![e.of] = IF owner[e.of] # None THEN "active" ELSE @]
    /\ Answer200(e)
    /\ UNCHANGED <<clock, owner, granted, started, seen, req, lock, stripeVars, hist>>

\* customer.subscription.deleted: the row is found by the metadata in the payload.
MarkCancelled(e) ==
    /\ e.type = "deleted" /\ hook[e].pc = "begin"
    /\ status' = IF e.n = 1 THEN [status EXCEPT ![e.of] = "cancelled"] ELSE status
    /\ Answer200(e)
    /\ UNCHANGED <<clock, owner, expires, granted, started, seen, req, lock, stripeVars, hist>>

\* The handler throws, or the process dies: the answer is 500, or none.
HookFails(e) ==
    /\ "throw" \in Faults
    /\ hook[e] # NoHook
    /\ hook' = [hook EXCEPT ![e] = NoHook]
    /\ failed' = failed \cup {e.of}
    /\ UNCHANGED <<clock, entVars, seen, req, lock, stripeVars, outbox, codes>>

---------------------------------------------------------------------------
(* POST /redeem and badgeFor.  Both take the user's advisory lock in a     *)
(* transaction; badgeFor does so only when it finds credit and no cover.   *)

Goto(r, pc) == req' = [req EXCEPT ![r] = [@ EXCEPT !.pc = pc]]
Finish(r)   == req' = [req EXCEPT ![r] = NoRequest]
Release(r)  == lock' = [lock EXCEPT ![req[r].user] = None]

\* Mutant: the lock is granted to anyone.
Free_Always(u) == TRUE
\* pg_advisory_xact_lock does not wait.
Free(u) == lock[u] = None

\* A request that waits for the lock has read nothing yet: it starts when it gets it.
StartRedeem(r, u, c) ==
    /\ req[r] = NoRequest /\ codes[c] > 0 /\ Free(u)
    /\ req' = [req EXCEPT ![r] = [pc |-> "check", user |-> u, code |-> c, covered |-> FALSE]]
    /\ lock' = [lock EXCEPT ![u] = r]
    /\ UNCHANGED <<clock, entVars, seen, hook, stripeVars, outbox, hist>>

\* badgeFor's own SELECT, outside any transaction, found credit and no cover.
NeedsCredit(u) == ~Covered(u) /\ Parked(u) # {}

\* GET /billing/status and GET /auth/me; a read that finds cover changes nothing.
StartBadge(r, u) ==
    /\ req[r] = NoRequest /\ NeedsCredit(u)
    /\ req' = [req EXCEPT ![r] = [NoRequest EXCEPT !.pc = "lock", !.user = u]]
    /\ UNCHANGED <<clock, entVars, seen, hook, lock, stripeVars, outbox, hist>>

\* The badge read at the end of a redemption.
ReadBadge(r) ==
    /\ req[r].pc = "badge"
    /\ IF NeedsCredit(req[r].user)
       THEN req' = [req EXCEPT ![r] = [@ EXCEPT !.pc = "lock", !.code = None]]
       ELSE Finish(r)
    /\ UNCHANGED <<clock, entVars, seen, hook, lock, stripeVars, outbox, hist>>

TakeLock(r) ==
    /\ req[r].pc = "lock" /\ Free(req[r].user)
    /\ lock' = [lock EXCEPT ![req[r].user] = r]
    /\ Goto(r, "check")
    /\ UNCHANGED <<clock, entVars, seen, hook, stripeVars, outbox, hist>>

\* The SELECT under the lock.  An activation that finds cover rolls back.
CheckCovered(r) ==
    /\ req[r].pc = "check"
    /\ LET covered == Covered(req[r].user)
       IN  IF req[r].code = None /\ covered
           THEN Finish(r) /\ Release(r)
           ELSE /\ req' = [req EXCEPT ![r] = [@ EXCEPT !.pc = "write", !.covered = covered]]
                /\ UNCHANGED lock
    /\ UNCHANGED <<clock, entVars, seen, hook, stripeVars, outbox, hist>>

\* Mutant: the claim is decided by the code alone.
Claimable_Twice(c) == status[c] # "absent"
\* redeem_hash = $1 AND status = 'unredeemed' AND (kind = 'gift' OR expires_at > now()).
\* The hash is nulled by the claim, so it says no more than the status.
Claimable(c) == status[c] = "unredeemed" /\ (c \in Gift \/ Unexpired(c))

\* The claim, or the rollback of one that matches no row.
Claim(r) ==
    /\ req[r].pc = "write" /\ req[r].code # None
    /\ Release(r)
    /\ LET c == req[r].code
           parks == c \in Gift /\ req[r].covered
       IN  IF Claimable(c)
           THEN /\ owner' = [owner EXCEPT ![c] = req[r].user]
                /\ granted' = IF c \in Gift THEN [granted EXCEPT ![c] = clock] ELSE granted
                /\ status' = [status EXCEPT ![c] = IF parks THEN "credit" ELSE "active"]
                /\ expires' = [expires EXCEPT ![c] =
                       IF parks THEN 0 ELSE IF c \in Gift THEN clock + Months[c] ELSE @]
                /\ started' = IF c \in Gift /\ ~parks THEN [started EXCEPT ![c] = clock]
                              ELSE started
                /\ Goto(r, "badge")
           ELSE /\ Finish(r)
                /\ UNCHANGED entVars
    /\ UNCHANGED <<clock, seen, hook, stripeVars, outbox, hist>>

\* ORDER BY granted_at: the credit that was redeemed first.
Oldest(u) == {g \in Parked(u) : \A h \in Parked(u) : granted[g] <= granted[h]}

\* Mutant: the months are counted from the day the gift was redeemed.
RunsUntil_FromGrant(g) == granted[g] + Months[g]
\* now() + duration_months.
RunsUntil(g) == clock + Months[g]

\* activateOldestCredit's UPDATE.
Activate(r) ==
    /\ req[r].pc = "write" /\ req[r].code = None
    /\ IF Parked(req[r].user) = {}
       THEN UNCHANGED entVars
       ELSE \E g \in Oldest(req[r].user) :
              /\ status' = [status EXCEPT ![g] = "active"]
              /\ expires' = [expires EXCEPT ![g] = RunsUntil(g)]
              /\ started' = [started EXCEPT ![g] = clock]
              /\ UNCHANGED <<owner, granted>>
    /\ Release(r) /\ Finish(r)
    /\ UNCHANGED <<clock, seen, hook, stripeVars, outbox, hist>>

\* A statement rejects, or the process dies: the transaction rolls back.
RequestFails(r) ==
    /\ "throw" \in Faults
    /\ req[r] # NoRequest
    /\ lock' = [u \in User |-> IF lock[u] = r THEN None ELSE lock[u]]
    /\ Finish(r)
    /\ UNCHANGED <<clock, entVars, seen, hook, stripeVars, outbox, hist>>

---------------------------------------------------------------------------
Next ==
    \/ Tick
    \/ \E c \in Purchase : Buy(c)
    \/ \E s \in Sub : Renew(s)
    \/ \E s \in Sub : CancelSubscription(s)
    \/ \E e \in Event : Deliver(e)
    \/ \E e \in Event : Retrieve(e)
    \/ \E e \in Event : InsertEntitlement(e)
    \/ \E e \in Event : Link(e)
    \/ \E e \in Event : Extend(e)
    \/ \E e \in Event : MarkCancelled(e)
    \/ \E e \in Event : HookFails(e)
    \/ \E r \in Request, u \in User, c \in Purchase : StartRedeem(r, u, c)
    \/ \E r \in Request, u \in User : StartBadge(r, u)
    \/ \E r \in Request : ReadBadge(r)
    \/ \E r \in Request : TakeLock(r)
    \/ \E r \in Request : CheckCovered(r)
    \/ \E r \in Request : Claim(r)
    \/ \E r \in Request : Activate(r)
    \/ \E r \in Request : RequestFails(r)

Spec == Init /\ [][Next]_vars

---------------------------------------------------------------------------
(* Properties                                                              *)

HookType == [pc : {"idle", "begin", "got", "link"}, got : Nat]
RequestType == {h \in [pc : {"idle", "badge", "lock", "check", "write"},
                       user : User \cup {None}, code : Purchase \cup {None},
                       covered : BOOLEAN] : h.pc # "idle" => h.user \in User}

\* The type invariant: every row, event, request and lock keeps its type.
TypeOK ==
    /\ clock \in 1..MaxClock
    /\ status \in [Purchase -> {"absent", "unredeemed", "credit", "active", "cancelled"}]
    /\ owner \in [Purchase -> User \cup {None}]
    /\ expires \in [Purchase -> Nat]
    /\ granted \in [Gift -> Nat]
    /\ seen \subseteq Event /\ outbox \subseteq Event
    /\ hook \in [Event -> HookType]
    /\ req \in [Request -> RequestType]
    /\ lock \in [User -> Request \cup {None}]
    /\ bought \subseteq Purchase /\ linked \subseteq Sub /\ ended \subseteq Sub
    /\ paidUntil \in [Sub -> Nat]
    /\ codes \in [Purchase -> Nat]
    /\ started \in [Gift -> Nat]
    /\ failed \subseteq Purchase

RunningGifts(u) == {g \in Gift : Granting(g, u)}

\* "Credits queue; they never run in parallel" (activateOldestCredit, stripe.md):
\* whatever requests race, an account burns at most one gift at a time.
GiftsNeverOverlap == \A u \in User : \A g, h \in RunningGifts(u) : g = h

\* "Two tabs submitting the same code would otherwise both see it unredeemed and
\* the second would overwrite the first's user_id" (redeem): an entitlement that
\* belongs to an account stays with it, and is not redeemed again.
CodeWorksOnce ==
    [][\A c \in Purchase : owner[c] # None =>
            /\ owner'[c] = owner[c]
            /\ c \in Gift => granted'[c] = granted[c]]_vars

\* "Nothing is lost either way; it is only ever deferred" (stripe.md): a redeemed
\* gift is either parked in full or runs for all of its months.
MonthsAreKept ==
    \A g \in Gift : owner[g] # None =>
        \/ status[g] = "credit" /\ started[g] = 0 /\ expires[g] = 0
        \/ status[g] = "active" /\ started[g] >= granted[g]
           /\ expires[g] = started[g] + Months[g]

\* A paid checkout yields one entitlement and one code, however often its event is
\* delivered.
OneCodePerPayment == \A c \in Purchase : codes[c] <= 1

Settled(c) == \A e \in Event : e.of = c => e \notin outbox /\ hook[e] = NoHook

\* Once Stripe's events are answered, in whatever order they came and however
\* often, a paid checkout has its entitlement and a subscription's window is the
\* paid period and the grace; unless a handler threw, for which see
\* PaymentIsNotSwallowed.
WindowMatchesStripe ==
    \A c \in bought \ failed : Settled(c) =>
        /\ status[c] # "absent"
        /\ c \in Sub => expires[c] = paidUntil[c] + Grace

\* "500 makes Stripe retry, which is what we want: the alternative is silently
\* swallowing a payment that never granted anything" (the webhook): a payment
\* whose events are all answered has granted something.
PaymentIsNotSwallowed == \A c \in bought : Settled(c) => status[c] # "absent"
=============================================================================
