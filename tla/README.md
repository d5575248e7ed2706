# CryptChat in TLA+

CryptChat is an end-to-end encrypted chat: a React client that keeps its whole
history in IndexedDB, and a Node/PostgreSQL backend that relays ciphertext, keeps a
row for each undelivered message, stores attachments, and sells a badge through
Stripe. This directory holds models of the parts in which the order of steps
matters, the TLC runs that check them, and proofs of their main properties.

Everything in the backend runs in one Node process: between two `await`s nothing else
runs, at an `await` anything may. The same is true of a browser tab, while two tabs
and the server run in parallel. So every model takes **one awaited call (a database
statement, a system call, a request, an access to IndexedDB) as one step**, together
with all the code that follows it up to the next `await`.

## Inventory

| component | state it keeps | operations | hard part | what makes it correct | model |
|---|---|---|---|---|---|
| Message relay (`ws/relay.js`) | `message_queue`, `key_offers`; `connections` map; handlers in flight | connect and flush, send, key offer, ack, resumed delivery, reaper | live push races the flush; snapshots age across awaits; crash; lost acks | a row stays until its recipient has it; none is stranded; nothing is read before accepting | `Relay` |
| Channel membership (`routes/channels.js`) | `channels`, `channel_members`, `dm_blocks` | create, join, dm, accept, leave, block, unblock, rename, list | leave is four statements; accept must release what was withheld | a deleted DM leaves no row; blocked senders reach nobody | `Relay`; its client in `Keyring` |
| Client ack protocol (`useRelay.ts`, `relay/*`) | open socket, handlers awaiting, parked mutations | one handler per frame, ack, send, give and receive keys | ack after commit; closed tabs; redelivery | what is acked is stored | `Relay`, `Transcript`, `Keyring` |
| Billing (`routes/billing.js`, `lib/entitlements.js`) | `entitlements`, `billing_events`, an advisory lock per user | webhook, redeem, badge read, gift activation | Stripe repeats, reorders and overlaps; two requests decide alike | one code per payment, gifts queue and are whole, the window is the paid one | `Billing` |
| Attachments (`routes/blobs.js`, `blobStore.js`, `blob.ts`) | `blobs` rows, files | init, chunk, finish, download, reaper | two stores without a common transaction; crash inside a chunk | what is counted is on disk; sealed means whole | `BlobStore` |
| Vault transcript (`vault/messages.ts`, `vault/mutex.ts`) | one sealed transcript per channel | append, edit, remove, burn sweep, react, confirmSent, clear | load-change-save of five writers; early and repeated frames | only burning removes; a tombstone stays one | `Transcript` |
| Vault record, channel list (`vault/Vault.ts`, `useChannelList.ts`, `Channels.tsx`, `useRelayInbound.ts`) | channels with their keys, contacts with their pins; the sealed copy | key offer and request, reconcile, create, join, open, accept, edit, block, leave, lock | overlapping whole-vault writes; old answers and old copies written back; a lock under a write | the disk follows memory; a key is acked only when kept; the list heals | `Keyring` |
| Accounts, sessions, tokens, second factor (`routes/auth.js`, `account.js`, `recovery.js`, `webauthn.js`, `middleware/auth.js`) | users, epochs, attempt counters, tokens | register, login, second factor, attach and detach an address, request and follow a link | counters around an expensive hash; two generations of one index; epochs read and raised | links work once, no session outlives a reset, guesses are bounded | `Accounts` |
| Session (`session.tsx`, `Auth.tsx`, `Recover.tsx`, `vault/accounts.ts`) | descriptors and active account in localStorage, keys and tokens in sessionStorage, React state, forms awaiting | register, log in, unlock, switch, log out, remove, reset, rebuild, back up, restore | five stores without a transaction; reloads between two writes; state read before an await | password, salt and vault agree; what is shown belongs together; removed is gone | `Session` |
| Calls (`callContext.tsx`, `call/*`) | refs and React state, peer connections, captures, pending offer | start, accept, decline, hang up, signals, unmount | glare; resumption after a hang-up; a listener that is one render behind; lost signals | no tracks and no connection of a call that is over | `Call` |
| Automatic backups (`backup/autoBackup.ts`) | debounce timer, file handle | write | overlapping writers; a timer that is dropped on unmount | the last good backup survives | not modelled |
| Cryptography, identity columns, tier limits, HTTP wiring, UI | none, or none that a protocol depends on | one-shot functions, rendering | not a matter of order | unit tests, cryptography | not modelled |

How they interact: a client sends a frame over its WebSocket; the relay inserts one row
per recipient and pushes to whichever sockets are registered; each tab writes the
message to the vault and then acknowledges, which deletes the row. The membership
routes write the tables the relay reads, and `accept` calls the relay's
`resumeDelivery`. A deleted channel takes queue, offers and blobs with it by
cascade. A password reset raises the account's epoch, which ends the sessions that
sockets and requests are admitted by, and changes the salt the client's vault key is
derived from. Calls are signals over the same sockets, never queued. Billing and blobs
share only accounts, membership and limits with the rest.

The models meet at these seams. `Transcript` and `Keyring` each take the relay to be what
`Relay` promises (a row is handed over at least once until it is acknowledged);
`Session` takes the server to be what `Accounts` promises (an epoch per reset, a token
good for one epoch) and the vault to be one sealed record, which `Keyring` and
`Transcript` open up; `Call` takes the wire to lose and reorder what it likes, which is
weaker than what the sockets do. `PROJECT.json` lists all components with their files,
and all hazards with their lines.

## Modules

| module | what it is |
|---|---|
| `Relay`, `RelayProofs`, `MCRelayDm`, `MCRelayGroup` | delivery core, membership and the client half of acknowledgement, for one channel; theorems; a DM of two, and a group of three, one of whom has two tabs |
| `Billing`, `BillingProofs`, `MCBilling` | entitlements; theorems; instance |
| `Attachment` | abstract store: uploads that grow by whole chunks and are sealed whole |
| `BlobStore`, `BlobProofs`, `MCBlobs` | rows, files and handlers, refining `Attachment`; theorems, the refinement among them; instance |
| `Transcript`, `TranscriptProofs`, `MCTranscript` | one transcript and its writers; theorems; instance |
| `Accounts`, `AccountsProofs`, `MCAccounts` | accounts, sessions, lockout and links; theorems; instance |
| `Call`, `CallProofs`, `MCCall` | calls; theorems; instance |
| `Keyring`, `KeyringProofs`, `MCKeyring` | the vault's channels, keys and pins, and all their writers; theorems; instance |
| `Session`, `SessionProofs`, `MCSession` | one tab's session over the accounts of one device; theorems; instance |

An operator that is named `X_Something` and commented "Mutant" is `X` with a plausible
mistake. `PROJECT.json` names the property each of them breaks; no specification uses them.

### Relay

*State.* `exists, status, blocks, queue, offers, stamp` are the tables; `sock, registry`
the sockets and the `connections` map; `flush, walk, send, offering, leaving` the
handlers that are suspended at an `await`, with what they remember (`send[m].left` is the
list of recipients and their statuses that `handleSend` read once); `wire, recv, acks`
the network; `stored, hasKey` each account's vault. Five variables are history that no
action reads: `everActive`, `posted`, `dropped`, `steady` (members throughout the run of
a send), `watch` (whether a recipient blocked the sender before or during it).

*Actions.* `Connect`, `FlushQuery`, `FlushSend` are the connection handler: into the
registry, then queue and offers, each a SELECT and a push, and only then
`ws.on("message")`. `StartSend`, `Snapshot`, `CountBacklog`, `InsertRow`, `Push` are
`handleSend`, recipient by recipient; `StartOffer`, `UpsertOffer`, `PushOffer` are
`handleKeyOffer`; `Accept` and `ResumeVisit` are the accept route with `resumeDelivery`;
`Leave`, `LeaveQueue`, `LeaveOffers`, `LeaveChannel` the four statements of leaving.
`Arrive` and `Handled` are the client: a handler per frame, which may finish in any
order, commits and then acknowledges. `Close`, `ServerCrash`, `FlushFail`, `SendFail`,
`LoseAck`, `ReapQueue` and `ReapOffer` are what goes wrong or expires.

*Abstractions.* One channel. A message stands for its ciphertext and is sent once. A
wrapped key has no identity: `hasKey` says that there is one (see Plan). Typing and
profile requests, which change no state, are left out, and so are rate limits.

### Billing

The clock counts months and stands still while a handler or request is running, which
takes seconds. `Buy`, `Renew`, `CancelSubscription` are Stripe, whose `outbox` is a set:
an event is delivered any number of times in any order until it is answered with 200.
`Deliver` inserts into `billing_events` and goes on to `Retrieve`, `InsertEntitlement`,
`Link`, `Extend`, `MarkCancelled`, the statements of `handleEvent`; `HookFails` is an
exception or crash between two of them. `StartRedeem` to `Activate` are `POST /redeem`
and `badgeFor`, which take the user's advisory lock; what `badgeFor` reads before it
takes the lock is a step of its own. An UPDATE and the COMMIT after it are one step.

### Attachment and BlobStore

Sizes count pieces of half a MiB, which is what `appendFile` writes at a time, so one
chunk is two writes and can be cut in half. `Put*` are the steps of a chunk: SELECT,
`open`, `fstat`, perhaps `ftruncate`, the writes, UPDATE. `Finish*`, `Init*`, `Get*` are
the other handlers, `ReapRows` and `ReapUnlink` the two halves of the reaper, `DmDelete`
the cascade of a deleted DM. `Fail` makes any awaited call throw, `Crash` ends the
process between any two. The refinement mapping takes a row's status for the stage of an
attachment and the *counted* part of its file for what is stored; bytes that are written
and not yet counted, and everything a failed handler leaves behind, are invisible to it.

### Transcript

`disk` is one channel's sealed transcript, `chain` the queue of `withLock` of each tab
(`MessageStore` chains a promise per channel and tab), `hold` what the first piece of
work has loaded, `parked` the buffer of edits and deletes whose message has not come
yet. `Load` and `Save` are the two accesses to IndexedDB of every change; `Save` also
does what the handler does after it up to its next `await`: park, drain, acknowledge.
A drain applies parked frames one after the other, each as its own piece of work behind
whatever was queued meanwhile. `Do` is the user's own send, edit or delete; `StartTick`
and `SaveTick` are the burn tick, which may burn any message that has been seen. The
relay (`Post`, `Connect`, `FlushRead`, `FlushPush`, `Attach`) is reduced to what a
device can tell of it: at-least-once delivery, a live push that overtakes the flush.
`Fail` rejects an access to IndexedDB, `Drop` loses the socket, `CloseTab` the tab.
`burned` and `spilt` (parked frames given up: the buffer was full, the tab closed, a
drain threw) are history.

### Accounts

*State.* `pw, epoch, legacy, email` are the columns of `users` (a password is named by the
reset that set it; `legacy` says that the row is still kept under the bare hash of the
name), `failures, locked` the lockout, `factor` an authenticator, `tok` the mailed links;
`req` the handlers at an `await`, `sessions` and `challenges` what clients hold. `uses`
and `misses` are history.

*Actions.* A handler is a path of statements. `StartRegister`, `Find`, `InsertUser` and,
with an address, `CheckAddress`; `StartLogin`, `Find` (first the new hash, then the old
one), the verification that ends in `RecordFailure` or in `ClearFailures`, `UpgradeHash`,
`AnswerLogin`; `StartSecond`, `AnswerSecond`; `StartFactor`, `ChangeFactor`; `StartEmail`,
`ProvePassword` and `CheckTaken` or `DetachEmail`, `ForgetLinks`; `Supersede`, `IssueLink`
for a link of either purpose; `StartRecovery`; `Claim` with `AttachEmail` or
`ResetPassword` and `AnswerReset`. `Throw` makes any statement reject, as its `catch` takes
it; `Unlock` is the lockout's end. Argon2 runs between two statements.

*Abstractions.* Expiry of a link is nobody following it. An account has one authenticator or
none, and the challenge token is a row. Response padding and rate limits are left out.

### Call

*State.* `ui[t]` holds the refs and the React state of a tab's provider, `rendered[t]`
what its last render saw: buttons and the signal listener close over that, coroutines read
the refs. `task[t][c]` is the startCall or accept of a call by the await it waits at, `pcs`,
`remote` and `live` the peer connections, the description each was given, and the captures
that run; `wire` the signals, a set from which any may be taken and none need be.

*Actions.* `StartCall`, `Accept`, `Decline`, `Hangup`, `Unmount` and `Render` are the
provider; `Captured`, `BuildPeer`, `SendOffer`, `ApplyOffer`, `SendAnswer` what a coroutine
does when it resumes; `Throw` and `NeverSettles` the promises that reject or hang;
`Receive` the router of signals with its busy answer; `Connect` and `Fail` the transport.
`abandoned[t]` is history: a call of `t` ended while its own startCall or accept was
waiting. The code does not look whether the call is still the one it began, and the
properties say what holds before that happens (see "Behaviour met on the way").

### Keyring

*State.* `vault` are the vault objects (memory), `disk` the sealed copy, `puts` the puts
that are requested and not committed, in order, each with the coroutine that waits for it;
`task` one coroutine per lane (relay frames, gestures, the list's fetch). `srv`, `parked`,
`held` and `up` are the server. `behind` says that the last put failed.

*Actions.* A writer changes the record at once, seals the whole vault as of that moment and
waits: `ReceiveOffer`, `OfferPinned`, `OfferSaved` (pin, key, ack); `Give`, `Given`;
`ListServed`, `ListBack`, `ListSaved` (the reconcile, channel by channel); the menus
`StartEdit`, `StartBlock`, `StartAccept`, `StartLeave`, `StartJoin`, `StartCreate`, `OpenDm`
with what follows their answers. `Lock`, `Locked` wipe the key under whoever still holds
the object; `TabDies`, `Drop`, `PutFails` are the faults.

*Abstractions.* A menu keeps the record it was drawn with (`copy`), whose label and icon
are one bit. A failed put is followed by the next writer's put of the whole vault. `Hasty`
says whether the user locks or switches while a write waits.

### Session

*State.* Five stores: the server (`epoch`: the account's generation of password and salt;
`rec`: the salt in the recovery blob), localStorage (`desc`, `active`), IndexedDB
(`sealed`: the key the vault is sealed with), sessionStorage (`stash`, `tok`), memory (`ui`:
what SessionProvider shows; `form`: the coroutine of the last submitted form; `pick`: the
one of selectAccount; `sweep`: the account removeAccount is sweeping; `code`: Recover.tsx).
A vault key is the pair of a password and a salt; a reset changes both.

*Actions.* `SubmitX`, `XServed`, `XBack`, `XStored`/`XOpened`, `XUploaded` are the awaits of
form X: register, login, unlock, reset, recover (the code step), restore. `Load` is the boot
effect, `Select`/`SelectLands`, `Logout`, `Erase`/`EraseSwept`, `Backup` the rest of the
provider. `Reload`, `NewTab`, `OpenLink`, `RequestFails`, `StoreFails` and `ResetElsewhere`
(another device) may come between any two steps. `torn` is history: the accounts of which an
operation of two writes stopped after the first.

*Abstractions.* One tab. The vault is one record. Usernames matter only in that a descriptor
made by Recover.tsx on an unknown device has none. `Hasty` says whether the user uses the
buttons that are not disabled while a form is busy.

## Runs

All of them set `CHECK_DEADLOCK FALSE`: in a bounded instance everybody may have sent,
bought or closed all that they can, and the system then rests, as the real one does when
nobody does anything. No run checks `TypeOK`: each module's type invariant is a theorem
(`TypeCorrect`), for every instance.

| run | states | instance | what it asks and shows |
|---|---|---|---|
| `relay_dm` | 329,530 | alice and bob, one tab each; two messages, one of them queued before; backlog limit 1; db errors, crash, dying tabs | an invitation from first message to acceptance, with a block in between: `NoLoss`, `WithheldUntilAccepted`, `BlockedGetsNothing`, `SentReachesMembers` |
| `relay_dm_leave` | 347,874 | both may leave and invite each other anew; one message; TTL, db errors | `DeletedMeansEmpty`: the statements of two leaves, a send and an invitation in any order |
| `relay_group` | 1,043,053 | alice, bob with two tabs, carol who joins; one message, one offerer, backlog limit 1, TTL | `NoneStranded`, `NoKeyStranded`: between live push and connect flush there is no gap |
| `relay_group_live` | 25,835 | bob's two tabs connect and close as they like | `EventuallyDelivered`, under `FairSpec` |
| `billing` | 619,636 | one account, a subscription, gifts of one and two months, two requests | `GiftsNeverOverlap`, `CodeWorksOnce`, `MonthsAreKept`, `OneCodePerPayment`, `WindowMatchesStripe` |
| `billing_swallowed` | | same, with a grace period | *violation*: a payment whose handler threw is answered and grants nothing |
| `blobs` | 301,140 | uploads of 2, 2 and 1 chunks (the last chunk of each a short one), quota for one large one, two handlers, failures and crashes | `CountedIsOnDisk`, `DownloadIsWhole`, `QuotaHolds`, and `KeepsThePromise`: `BlobStore` implements `Attachment` |
| `transcript` | 1,622,359 | a burn message with an edit and a delete of it, an own message; one tab; all faults | `AckedIsKept`, `ParkedLands`, `NothingVanishes`, `TombstoneStays` |
| `accounts` | 606,619 | a name with a row of the old generation and a verified address, a new name, two addresses, three links; five requests of any route, two at a time; any statement may reject | `OneRowPerName`, `OneOwnerPerAddress`, `LinkWorksOnce`, `SessionMatchesPassword`, `LockoutHolds`, `LinksAreFew` |
| `call` | 1,276,229 | two accounts, a tab each; two video calls that may cross | `Released`, `DescriptionsMatch`, `RingIsTheOffer`, `BusyKeepsItsCall` |
| `keyring` | 417,868 | one channel of any kind, one contact with two signing keys, a lane of each kind; two gestures and one trouble | `DiskFollowsMemory`, `KeyLostOnlyByMenu`, `AckedIsKept`, `PinsStay`, and under `FairSpec` `SelfHeals` |
| `session` | 1,275,513 | two accounts, three generations of passwords, eight gestures and two troubles | `Matched`, `VaultReopens`, `SaltsAgree`, `ErasedIsGone` |

### Bounds, and why they are enough

* **Relay: two users and three.** What the relay does to a recipient depends on that recipient,
  the sender and on nobody else; a third member adds the case that a fan-out stops between
  two recipients, and a second tab the cases where one tab's ack deletes what the other is
  about to read. The theorems have no such bound.
* `MaxWire` (2 or 3) limits the frames a socket holds unread. It holds back the sender of a
  frame, so it only cuts schedules in which a reader is slow by more than that.
* `MaxQueue` is 1 where the limit should be met (`relay_dm`, `relay_group`) and out of
  reach elsewhere. `FlushLimit` is 2: no run queues more than fits a flush.
* `Offerers`, `Leavers`, `Closers` and `Faults` name who may do what; a run enables what its
  question needs, and together the runs enable everything.
* `Grace` is 0 in `billing`, so that a window ends inside the clock's range, and 1 in
  `billing_swallowed`. `MaxClock = 2` lets a one-month gift run out and the next begin.
  With `MaxOutbox = 2` Stripe renews or cancels only while fewer than two events are unanswered.
* `MaxHandlers` limits the handlers of *one* frame in one tab (redeliveries over a socket
  that was lost); one is enough to have every frame's handler at work at once.
* `accounts`: two requests at a time meet in every pair of statements, and five in a row are
  enough to mail a link, supersede it, follow it twice and log in around it. `MaxFailures = 2`
  puts the lockout one wrong password away from a failure that is being recorded; `MaxPw = 2`
  is one reset.
* `call`: glare, a late answer and a busy tab need two calls; a call that outlives another is
  the second of them. Calls and accounts are symmetric. A second tab of an account is left to
  the theorems.
* `keyring`: records of different channels only meet in the puts of the whole vault, which
  take what memory holds; one channel with every writer and two gestures reaches each pair of
  overlapping writers. The theorems have any number of channels and lanes.
* `session`: eight gestures are a registration, a logout, a login with the recovery code's reset
  and what comes after it; two troubles cut two of these operations short. `MaxGen = 3` is two
  resets, one here and one elsewhere. The inductive invariant of `SessionProofs` was also run
  with one account, sixteen gestures and four troubles.
* Requests are symmetric in `billing`, `blobs` and `accounts`, accounts in `session`: no action
  or property tells them apart. No run with a liveness property uses symmetry.

### Fairness

`relay_group_live` and `keyring` have some. The `FairSpec` of `Relay` asks for weak fairness of
the server's steps (the database answers, the event loop runs the continuation), of delivery to
an *open* socket, and of the client's handlers. It asks nothing of users (no one has to
send, accept, connect or leave), and nothing of faults. `EventuallyDelivered` is
conditional: it promises delivery to a user one of whose tabs stays connected from some
time on, whatever the user's other tabs do.

The `FairSpec` of `Keyring` asks for weak fairness of every coroutine that can go on, save the
one that waits for a user to fill in a form, and for strong fairness of what happens only
while the socket is up: that the list's answer gets through again and again, and that an offer
the relay keeps sending is taken up. `SelfHeals` is conditional too: it starts from
reconnects that never cease (`[]<><<Connect>>`), because the client asks for missing keys and
reconciles at a connect and at nothing else.

## Findings

One place where the program and its own words disagree is a run and an entry in
`PROJECT.json`:

* `billing_swallowed`: the event is recorded as seen before it is handled, so Stripe's
  retry of a handler that threw is answered as a duplicate; the comment beside the `500` says
  that the retry is what keeps a payment from being swallowed.

### Behaviour met on the way

No run records these; each follows from the code, and the models have it.

*Relay.* In a DM, `handleKeyOffer` decides the push by a status it read two awaits earlier
(`relay.js:362`): an invitee who accepts in between is active and connected, the key is
parked, and nothing delivers it before a reconnect. `dm_blocks` holds user pairs and
the predicate of `handleSend` (`relay.js:278`) is the same for groups, which `schema.sql:368`
says it never touches.

*Attachments.* The reaper finds files through rows, and a deleted DM has none left
(`channels.js:359`, `blobStore.js:89`). A chunk that is *repeated while its first attempt
still runs* can leave a sealed blob that is not its stream (`Faults = {"overlap"}` in
`blobs.cfg` violates `KeepsThePromise`); `encryptAndUpload` awaits every reply, and
the theorems assume that.

*Transcript.* Replay is recognised by an id that burning removes (`messages.ts:83`): a
burned message whose ack was lost comes back. The lock belongs to a tab and the
transcript to all of them: with two tabs `NothingVanishes` does not hold (set
`Tab = {t1, t2}` in `transcript.cfg`), and the theorems assume one. Parked edits and deletes
live in memory: closing the tab loses them, although their rows are acknowledged. Edits
apply in the order they arrive, not in the order they were made.

*Billing.* A cancelled subscription whose window has not ended keeps the badge and not the
limits (`badgeFor` and `entitlementsFor` filter by different statuses). Nothing parks a gift
that already runs when a subscription is redeemed.

*Accounts.* A reset deletes the lockout of the name's present hash only, so a legacy row stays
locked (`recovery.js:172`; the comment above it says that it is cleared). A login that
finds a legacy row while another login of the account upgrades it can be refused with the right
password. Removing an address races with following a link to it.

*Call.* A startCall or accept that resumes after the call ended (hang-up, unmount) does not
look: it leaves the camera on and a connection open, and may send the offer of a dead call
(`callContext.tsx:203`, `:440`). `Released` and `DescriptionsMatch` therefore speak of tabs
on which that has not happened. A second tab that declines ends the call the first one
answered. A ring has no timeout. The account's limits are read once: a video offer that
arrives before the answer is declined as if the account did not pay.

*Keyring.* `handleAcceptDm`, like every menu, saves the record its list was drawn with
(`Channels.tsx:179`): a key that arrived meanwhile is erased, although the relay has
released it. A logout during a waiting write wipes the key the write is about to seal with
(`Vault.ts:127`, `session.tsx:527`), so that the password no longer opens the vault: with
`Hasty = TRUE` `VaultStillOpens` is violated, and `PatientLogout` proves it otherwise. With it go
the others: a put of the old session lands over those of the next, or is not in what the next
one read, so `PinsStay`, `AckedIsKept` and `DiskFollowsMemory` fail too.
Channels found by a reconcile stay without a key until the next reconnect, and without the
incognito flag. `AlreadyKeyed` acknowledges while the put of the key may still be on its
way; a put that fails leaves the key in memory, and a redelivered offer is then acknowledged
with the disk behind.

*Session.* `unlock` stashes the key before it asks for a token (`session.tsx:388`), so an unlock
that is refused leaves the tab unlocked at the next load. Recover.tsx saves an account it
does not know under the name "recovered", whose unlock without a token is refused. A login on
a device without a vault ends at the import screen the first time and in an error the second.
A failed upload of the recovery blob rejects the registration that has already happened. A
crash between the server's answer and the first flush leaves an account without keys. A
restore that is cut short leaves an older salt beside a newer vault (`torn`). Opening the
reset link in an unlocked tab loses the code step. With `Hasty = TRUE` a user who uses
another account while an unlock is in flight sees one account over the vault of another
(`session.tsx:404`), and `Matched` is violated; erasing during a coroutine leaves what it
writes later.

*Automatic backups.* Two writers may overlap, so an older snapshot can replace a newer one, and
an unmount drops a write that is due. (A writer that fails half-way is closed in a `finally`;
the stream is then errored and the close does not replace the file.)

## Proofs

Each proof module extends its component and states theorems for every value of the
constants that satisfies the module's assumptions: any number of users, tabs, messages,
gifts, uploads, handlers, links, calls, channels and accounts, any sizes and feeds, and every
subset of the faults except where it is said. TLC evaluates these assumptions on every run.

**RelayProofs.** `TypeCorrect`. `NothingIsLost`: `NoLoss` alone is not inductive, since
an ack in flight deletes its row whatever the recipient has; `KeepInv` adds that an
ack in flight is for a message its user has stored or left behind. `AcceptBeforeReading`:
the gate is applied when a status is read and acted on later, so `GateInv` says that
every place that remembers "active" (the table, the snapshot of a send, the flag of an
offer, the batch of a flush) remembers it of someone who once was, and `UntouchedInv`
that wires, handlers and vaults of others are empty. `NothingOutlivesTheDm` is inductive
by itself, once an INSERT is known to fail on its foreign key. `SentIsKept` and
`BlockWithholds` are about a snapshot that ages: `FanOutInv` says of each recipient of a
running send who stayed and is clear that the list still has it, its row was written, or its
queue was full; `BarredInv` that a recipient marked `barred` is on no list of recipients and
in no row; and `TracedInv` that every batch, frame and stored message goes back to a row, so
that no later flush can bring what no send has queued.

`NoGapForMessages` and `NoGapForKeys` are the longest. `Reaching` says where a queued
row of a connected member is on its way: on the wire, at the client (`Carried`), in the batch of the flush,
still to be read by a flush of a socket that is registered, or in the hands of the send that
inserted it and has not pushed yet; the flush comes after the registration and the
push after the INSERT, so one of the two sees the other. It rests on `Connected` (who is
registered while a flush or an open socket says so) and `KeyedStay` (who starts with
the key stays an active member with the key). The hypotheses are what the code needs for it:
a query of a flush that fails ends the flush and leaves the rows for the next connect
(`"db" \notin Faults`); `LIMIT` cuts a longer queue off (`Cardinality(Msg) <= FlushLimit`);
who leaves and comes back is reached by `resumeDelivery`, a different path
(`InitKeyed \cap Leavers = {}`); and the initial state has no open socket that was
connected before the rows were there. Acks may be lost, sockets close, rows expire, users join
and the server crash. For keys (`KeyReaching`) the theorem is about groups that nobody leaves: in
a DM the push uses a status read two awaits earlier, and the property is false there (see
"Behaviour met on the way").

**BillingProofs.** `TypeCorrect`. `CodesAreUnique` from `Issued`: before its event is seen
a purchase has no code and no handler, and a handler that has not inserted yet is the
only one. `RedeemedOnce` (an action property) from the same: only a code that was issued
and has no owner is claimable. `GiftsAreWhole` from `Kept`. `GiftsQueue` from `Queued`:
who is about to write holds the lock of its user, and if it has found no cover, no gift is
running; the clock stands still meanwhile, and only the holder of the lock starts a gift.
`WindowsFollowStripe` has four parts: `Announced` (a paid checkout has its event, seen or on
its way), `Notified` (what a handler has retrieved is what Stripe still says: a subscription
does not move in between), `Recorded` (a checkout that was handled left its row and its
link), and `Windows` (a window is the paid one, or an event is still to be handled that
will set it). An invoice that finds no link sets nothing, so `Windows` must know that the
checkout is then still to come and will read the later period itself.

**BlobProofs.** `TypeCorrect`, `ResumeIsSafe`, `SealedIsWhole`, `DeliveredWhole`,
`StoreKeepsThePromise`, `QuotaIsKept`. All but the first and the last assume that no two
requests of one upload overlap.
`FileInv` says of each row (`RowInv`) that a file holds its counted pieces and, if sealed, its
stream and nothing more; of each handler (`ReqInv`), by its stage, how the file's length
relates to the count it has read; and (`Alone`) that no other handler is at work on
the same blob. Truncation is what makes it inductive: a failed write leaves
a longer file, and the next attempt's `stat` and `ftruncate` bring it back. The refinement
then has one obligation per action: `InitInsert` is `Reserve`, `PutUpdate` is
`StoreChunk`, `FinishUpdate` is `Seal`, `ReapRows` and `DmDelete` are `Drop` (each of
them a stutter when it finds no row), and every other step is a stutter. `QuotaIsKept` bounds
what the check in `init` cannot see, the inserts of requests that have passed it at the
same time: `Granted` is the rows that are there with those that are on their way to be
inserted, and `QuotaInv` says that its size is within the quota and one upload for each
request at work but one. The sum of declared sizes is the number of declared pieces
(`Declared`), so that cardinalities do the work of an induction over a set.

**TranscriptProofs.** `TypeCorrect`; with one tab `OnlyBurningRemoves`,
`DeletedStaysDeleted` and `AckedAfterCommit`. `TranscriptInv` has `Locked` (what is loaded is
what is stored, which is all the lock is for), `Tombs` (a tombstone has no text),
`AckedIsKept` and `DrainsLanded` (a drain runs only for a message that is in). `Grows` is
the effect of every step on the transcript, proved once for all actions, from which both
action properties follow. `EarlyChangesLand` gives each edit and delete that was posted its
fate (`AllFated`): queued, on a wire, being handled, parked, applied, or given up; and
(`Orderly`) a parked frame whose message is in has the drain that will take it behind it in
the chain of its tab. It uses that the relay stamps a frame with its sender and does not
send it back (`ConstantsAssumption` of `Transcript`).

**AccountsProofs.** `TypeCorrect`, `NamesAreUnique`, `AddressesAreUnique`,
`LinksAreSpentOnce`, `ResetEndsSessions`, `TriesAreBounded`, for any number of requests at a
time. In `AccountsInv`, `Reads` says that what a handler has read of a row is what the row still
holds, or the row has gone on to a later epoch, which is what makes it safe to sign
the epoch that was read *with* the password and not the present one; `Granted` says the same
of sessions. `Links` says that a transaction holds its link alone. `Lockout` bounds the
wrong passwords of a locked account by those that locked it and the handlers that were past
the check, whose number the proof counts as a cardinality. `LinksStayFew` counts in the same
way: a request that is about to insert a link has superseded all links but those of the requests
that are about to insert with it.

**CallProofs.** `TypeCorrect`, `TheRingIsTheOffer`, `DescriptionsStayApart`, `CallsRelease`,
`BusyIsKept`. `TabInv` has, for each tab, `Shown` (a tab with a call shows it, and the
listener of its last render knows it), `Offers` (the ring that is set and the ring that is
drawn are the offer in the ref), `Owned` (until a call is abandoned, whatever is open or
waiting is the present call's) and `Given` (accept works on the offer of its call).

**KeyringProofs.** `TypeCorrect` and `KeysStay` for any user; `NothingIsLost`, `AckAfterStore`,
`FirstPinStays` and `PatientLogout` for one who lets a write finish before leaving. The
invariant speaks of the queue of puts: every blob on its way is sealed with the account's key
(`Sealed`), each keeps the pins of those before it (`Chain`), and the last one, or
the disk if there is none, holds what memory holds (`Memory`), but for a channel whose
transcript is being deleted. An offer that is being written is in its own put (`OfferPut`), so
its ack comes after the commit.

**SessionProofs.** `TypeCorrect`, and for a user who waits for a busy screen (`Hasty = FALSE`)
`OneAccountOnScreen` (`Matched`), `SaltsStayTogether` (`SaltsAgree`), `VaultsReopen`
(`VaultReopens`) and `RemovedIsGone` (`ErasedIsGone`). None of the four is inductive: `Inv` adds
`Patient` (one coroutine at a time, and what screen it belongs to), `Screen` (what is shown
belongs together), `Ages` (no stored key or salt is newer than the account's generation, a
vault is sealed with the salt of its password, the descriptor is not older than the vault),
what each coroutine may rely on while it waits (`FormAges`, `CodeAges`), the same of the backup
file, and `Current` (the open vault is the one on disk). Each action has a lemma that first
states its effect field by field, and then draws the conjuncts from the effect alone.

**Only model-checked:** `EventuallyDelivered` and `SelfHeals`, which are liveness under
fairness and out of the prover's reach. Every other property of a passing run is stated by a
theorem. Where a theorem has a hypothesis, the property is false without it or was not proved
without it. False ("Behaviour met on the way"): the transcript's with two tabs over one
account, the refinement of the attachment store with overlapping requests of one upload,
`Keyring`'s and `Session`'s with a hasty user (set `Hasty = TRUE` in their `.cfg`; all but
`KeyLostOnlyByMenu`, which is proved for any user, and `SaltsAgree`), `NoKeyStranded` in a DM.
Not proved, although TLC finds no violation: `SaltsAgree` with a hasty user. Neither proved nor
checked: `NoKeyStranded` in a group that members leave.

A leaf that needs more than the provers' default time names its prover and a limit
(`SMTT(30)`, `ZenonT(60)`); all others are left to the defaults.

## Plan

Done: `Relay`, `Billing`, `Attachment` and `BlobStore`, `Transcript`, `Accounts`, `Call`,
`Keyring`, `Session`, with their runs and the theorems above. What is left, in this order:

1. **Relay, key generations.** Give a wrapped key an identity, so that a re-invite that meets
   a stale key, the ack of an older version of an offer (`relay.js:370`), and the second key of
   an invitee who opens the DM before accepting (`channels.js:456`) become statable.
2. **Transcript, reactions and `confirmSent`.**
3. **AutoBackup**: debounce, two writers, the timer that an unmount clears.
4. **Session, two tabs**: the stores shared, the memory twice.
5. **Proofs:** `NoKeyStranded` for members who leave and come back, by a case for
   `resumeDelivery` in `KeyReaching`; `SaltsAgree` without `~Hasty`, from an
   invariant that does not rest on `Patient`;
   an abstract relay (a set of undelivered messages per member) that `Relay` refines.

## Not modelled

Cryptography and encodings (`crypto/*`, `binary.ts`, `identityCrypto.js`): strength, not order.
Configuration, HTTP middleware, link previews, rate limits and the client's wrappers of
`fetch` (`api.ts`): stateless or constants here. The user interface, which is more than half
of the implementation's lines (components, pages, themes, sounds): rendering and local form
state, apart from the handlers and disabled buttons that `Transcript`, `Keyring`, `Call` and
`Session` take their guards from; this is why the mapped share of the whole stays well below
that of the files that keep protocol state. Typing, presence and profile frames: no state,
may be lost. `GET` routes that only read. Of modelled components: reactions, `confirmSent`
and unread counts of the transcript; mute, camera and screen-share toggles of a call (a
screen share is not stopped by the end of a call); the automatic backup writer; `lock`,
`importIdentity`, `syncRecoveryBlob` and `acceptKeyChange`, which no screen calls; a key offer
in flight across a leave, and profile and preference writes of the vault; a second tab of
one device in `Session` and `Keyring`; challenge tokens of the second factor.
