------------------------------ MODULE Session ------------------------------
(* The session of one browser tab over the accounts of one device: register, *)
(* log in, unlock, switch, log out, erase, reset the password, rebuild the   *)
(* vault from the recovery code, back up and restore (session.tsx, Auth.tsx, *)
(* Recover.tsx, vault/accounts.ts, backup/container.ts).                     *)
(*                                                                           *)
(* What has to agree lives in five places: the server (password and salt),  *)
(* localStorage (the descriptor with the salt, the active account),         *)
(* IndexedDB (the sealed vault), sessionStorage (the tab's key and token)    *)
(* and React state.  Every await of a form's coroutine is a step boundary.   *)
(*                                                                           *)
(* A password and its salt change together, at a reset, and are named by the *)
(* account's generation; the passwords of different generations differ.      *)
EXTENDS Naturals, FiniteSets

CONSTANTS
    Accounts,       \* the accounts this device's user has or may register
    None,           \* no account
    Hasty,          \* may the user leave a screen that is still busy?
    MaxGen,         \* bound: generations of a password
    MaxGestures,    \* bound: what the user does
    MaxTroubles     \* bound: reloads, new tabs, failed requests and writes, resets elsewhere

ASSUME SessionAssumption ==
    /\ None \notin Accounts
    /\ Hasty \in BOOLEAN
    /\ MaxGen \in Nat \ {0} /\ MaxGestures \in Nat /\ MaxTroubles \in Nat

VARIABLES
    epoch,      \* server: the account's generation, 0 when it is not registered
    rec,        \* server: the salt inside the recovery blob, 0 without a blob
    desc,       \* localStorage: the account descriptor
    active,     \* localStorage: the account a load opens
    sealed,     \* IndexedDB: the key the account's vault is sealed with
    stash,      \* sessionStorage: the vault key of "keep unlocked in this tab"
    tok,        \* sessionStorage: the generation of the session token, 0 without one
    ui,         \* React: what SessionProvider shows
    form,       \* the coroutine of the form that was submitted last
    pick,       \* the promise of selectAccount
    sweep,      \* the account forgetAccount is sweeping
    code,       \* Recover.tsx: the account of the emailed link; at its code step the password
    file,       \* the backup file the user has downloaded
    torn,       \* accounts of which an operation of two writes stopped after the first,
                \* or whose restored file was taken in that state
    left        \* what the bounds still allow

disk == <<desc, active, sealed>>
tabStore == <<stash, tok>>
tabMemory == <<ui, form, pick, sweep, code>>
vars == <<epoch, rec, desc, active, sealed, stash, tok, ui, form, pick, sweep, code, file,
          torn, left>>

Gen == 0..MaxGen
\* deriveVaultKey: the key is a function of the password and the salt.  A wiped
\* key, and the absence of one, is NoKey.
Key == [pw : Gen, salt : Gen]
NoKey == [pw |-> 0, salt |-> 0]
KeyOf(p, s) == [pw |-> p, salt |-> s]

\* AccountDescriptor: the salt, and whether the username is the account's own
\* ("recovered" stands in for it on a device that did not know the account).
Descriptor == [salt : Gen, named : BOOLEAN]
NoDesc == [salt |-> 0, named |-> FALSE]
DescOf(s) == [salt |-> s, named |-> TRUE]

Vault == [owner : Accounts \cup {None}, key : Key]
NoVault == [owner |-> None, key |-> NoKey]

Anonymous == [status |-> "anonymous", acct |-> None, desc |-> NoDesc, tok |-> 0,
              vault |-> NoVault, imports |-> FALSE]
Restoring == [Anonymous EXCEPT !.status = "restoring"]
Unlocked(a, d, t, k) ==
    [status |-> "unlocked", acct |-> a, desc |-> d, tok |-> t,
     vault |-> [owner |-> a, key |-> k], imports |-> FALSE]
Locked(a, d, t, i) ==
    [status |-> "locked", acct |-> a, desc |-> d, tok |-> t, vault |-> NoVault, imports |-> i]

NoForm == [kind |-> "none", at |-> "idle", a |-> None, key |-> NoKey, keep |-> FALSE,
           tok |-> 0, desc |-> NoDesc]
NoPick == [a |-> None, desc |-> NoDesc, tok |-> 0, key |-> NoKey]
NoCode == [a |-> None, pw |-> 0]
NoFile == [a |-> None, desc |-> NoDesc, key |-> NoKey]

Init ==
    /\ epoch = [a \in Accounts |-> 0]
    /\ rec = [a \in Accounts |-> 0]
    /\ desc = [a \in Accounts |-> NoDesc]
    /\ active = None
    /\ sealed = [a \in Accounts |-> NoKey]
    /\ stash = [a \in Accounts |-> NoKey]
    /\ tok = [a \in Accounts |-> 0]
    /\ ui = Restoring
    /\ form = NoForm /\ pick = NoPick /\ sweep = None /\ code = NoCode
    /\ file = NoFile
    /\ torn = {}
    /\ left = [gestures |-> MaxGestures, troubles |-> MaxTroubles]

---------------------------------------------------------------------------
(* What the steps are built from                                           *)

\* Vault.resume opens the vault with the stashed key it read, if that still fits.
Resumes(a, k) == k # NoKey /\ sealed[a] = k
\* A stashed key that no longer opens the vault is thrown away.
StashResumed(a, k) ==
    IF k # NoKey /\ sealed[a] \notin {NoKey, k}
    THEN [stash EXCEPT ![a] = NoKey] ELSE stash
\* Mutant: the state is spread over the one before, as unlock does.
Shown_Spread(a, d, t, k) ==
    IF Resumes(a, k) THEN [Unlocked(a, d, t, k) EXCEPT !.acct = ui.acct]
    ELSE Locked(a, d, t, sealed[a] = NoKey)
\* What the boot effect and selectAccount show of an account.
Shown(a, d, t, k) ==
    IF Resumes(a, k) THEN Unlocked(a, d, t, k) ELSE Locked(a, d, t, sealed[a] = NoKey)

\* vault.lock() on the vault React state holds: the stashed key goes, and the
\* key in memory is wiped.
StashLocked ==
    IF ui.vault.owner = None THEN stash ELSE [stash EXCEPT ![ui.vault.owner] = NoKey]
Wiped == [ui EXCEPT !.vault = [@ EXCEPT !.key = NoKey]]

Gesture ==
    /\ left.gestures > 0
    /\ left' = [left EXCEPT !.gestures = @ - 1]
Trouble ==
    /\ left.troubles > 0
    /\ left' = [left EXCEPT !.troubles = @ - 1]

Still == form = NoForm /\ pick = NoPick /\ sweep = None
\* useUnlockedSession throws without a token or an account, and nothing is rendered.
Complete == ui.tok # 0 /\ ui.acct # None
Usable == ui.status # "restoring" /\ (ui.status = "unlocked" => Complete)
\* A submit button is disabled while its form is busy; one coroutine at a time
\* is followed.
MaySubmit == Usable /\ form = NoForm /\ pick = NoPick /\ (Still \/ Hasty)
\* The buttons that are not disabled while a form is busy.
MayLeave == Usable /\ pick = NoPick /\ (Still \/ Hasty)

\* The form's promise rejects: the error is shown and nothing else changes.
Rejected == form' = NoForm

---------------------------------------------------------------------------
(* The tab                                                                 *)

\* SessionProvider's boot effect.  Nothing else is rendered until it settles.
Load ==
    /\ ui.status = "restoring"
    /\ IF active = None \/ desc[active] = NoDesc
       THEN /\ ui' = Anonymous
            /\ UNCHANGED stash
       ELSE /\ ui' = Shown(active, desc[active], tok[active], stash[active])
            /\ stash' = StashResumed(active, stash[active])
    /\ UNCHANGED <<epoch, rec, disk, tok, form, pick, sweep, code, file, torn, left>>

\* Everything in memory is gone; what was between two writes stays there.
Cut(page) ==
    /\ torn' = torn \cup (IF form.kind = "restore" THEN {form.a} ELSE {})
                    \cup (IF sweep # None THEN {sweep} ELSE {})
    /\ ui' = Restoring /\ form' = NoForm /\ pick' = NoPick /\ sweep' = None /\ code' = page

Reload ==
    /\ ui.status # "restoring"
    /\ Trouble
    /\ Cut(NoCode)
    /\ UNCHANGED <<epoch, rec, disk, tabStore, file>>

\* The tab is closed and another opened: sessionStorage is a new one.
NewTab ==
    /\ ui.status # "restoring"
    /\ Trouble
    /\ Cut(NoCode)
    /\ stash' = [a \in Accounts |-> NoKey]
    /\ tok' = [a \in Accounts |-> 0]
    /\ UNCHANGED <<epoch, rec, disk, file>>

\* A request of the form fails on its way there or back, the second factor is
\* cancelled, or the recovery code is mistyped.
RequestFails ==
    /\ form.at \in {"asked", "answered", "upload"}
    /\ Trouble
    /\ Rejected
    /\ UNCHANGED <<epoch, rec, disk, tabStore, ui, pick, sweep, code, file, torn>>

\* The emailed reset link is opened, in this tab or in a new one: a load of the
\* page that shows Recover.tsx instead of Auth.tsx.
OpenLink(a, fresh) ==
    /\ epoch[a] > 0
    /\ Gesture
    /\ Cut([a |-> a, pw |-> 0])
    /\ IF fresh THEN stash' = [b \in Accounts |-> NoKey] /\ tok' = [b \in Accounts |-> 0]
                ELSE UNCHANGED tabStore
    /\ UNCHANGED <<epoch, rec, disk, file>>

\* IndexedDB refuses the write (quota, a private window).
StoreFails ==
    /\ form.at = "store"
    /\ Trouble
    /\ Rejected
    /\ torn' = IF form.kind = "restore" THEN torn \cup {form.a} ELSE torn
    /\ UNCHANGED <<epoch, rec, disk, tabStore, ui, pick, sweep, code, file>>

\* Another device resets the password and may rebuild its vault and reseal the
\* recovery blob.
ResetElsewhere(a) ==
    /\ epoch[a] > 0 /\ epoch[a] < MaxGen
    /\ Trouble
    /\ epoch' = [epoch EXCEPT ![a] = @ + 1]
    /\ \E s \in {rec[a], epoch[a] + 1} : rec' = [rec EXCEPT ![a] = IF @ = 0 THEN 0 ELSE s]
    /\ UNCHANGED <<disk, tabStore, tabMemory, file, torn>>

---------------------------------------------------------------------------
(* Register                                                                *)

SubmitRegister(a) ==
    /\ ui.status = "anonymous" /\ MaySubmit /\ epoch[a] = 0
    /\ Gesture
    /\ form' = [NoForm EXCEPT !.kind = "register", !.at = "asked", !.a = a]
    /\ code' = NoCode
    /\ UNCHANGED <<epoch, rec, disk, tabStore, ui, pick, sweep, file, torn>>

RegisterServed ==
    /\ form.kind = "register" /\ form.at = "asked"
    /\ epoch' = [epoch EXCEPT ![form.a] = 1]
    /\ form' = [form EXCEPT !.at = "answered", !.key = KeyOf(1, 1), !.tok = 1]
    /\ UNCHANGED <<rec, disk, tabStore, ui, pick, sweep, code, file, torn, left>>

\* The descriptor is saved before Vault.create derives the key and flushes.
RegisterBack ==
    /\ form.kind = "register" /\ form.at = "answered"
    /\ desc' = [desc EXCEPT ![form.a] = DescOf(form.key.salt)]
    /\ form' = [form EXCEPT !.at = "store", !.desc = DescOf(form.key.salt)]
    /\ UNCHANGED <<epoch, rec, active, sealed, tabStore, ui, pick, sweep, code, file, torn, left>>

RegisterStored ==
    /\ form.kind = "register" /\ form.at = "store" /\ sweep # form.a
    /\ sealed' = [sealed EXCEPT ![form.a] = form.key]
    /\ stash' = [stash EXCEPT ![form.a] = form.key]
    /\ tok' = [tok EXCEPT ![form.a] = form.tok]
    /\ active' = form.a
    /\ form' = [form EXCEPT !.at = "upload"]
    /\ UNCHANGED <<epoch, rec, desc, ui, pick, sweep, code, file, torn, left>>

RegisterUploaded ==
    /\ form.kind = "register" /\ form.at = "upload"
    /\ IF form.tok = epoch[form.a]
       THEN /\ rec' = [rec EXCEPT ![form.a] = form.key.salt]
            /\ ui' = Unlocked(form.a, form.desc, form.tok, form.key)
       ELSE UNCHANGED <<rec, ui>>
    /\ form' = NoForm
    /\ UNCHANGED <<epoch, disk, tabStore, pick, sweep, code, file, torn, left>>

---------------------------------------------------------------------------
(* Log in                                                                  *)

SubmitLogin(a, pw, keep) ==
    /\ ui.status = "anonymous" /\ MaySubmit
    /\ pw \in 1..epoch[a]
    /\ Gesture
    /\ form' = [NoForm EXCEPT !.kind = "login", !.at = "asked", !.a = a, !.keep = keep,
                              !.key = KeyOf(pw, 0)]
    /\ code' = NoCode
    /\ UNCHANGED <<epoch, rec, disk, tabStore, ui, pick, sweep, file, torn>>

LoginServed ==
    /\ form.kind = "login" /\ form.at = "asked"
    /\ IF form.key.pw = epoch[form.a]
       THEN form' = [form EXCEPT !.at = "answered", !.tok = epoch[form.a],
                                 !.key = KeyOf(form.key.pw, epoch[form.a])]
       ELSE Rejected
    /\ UNCHANGED <<epoch, rec, disk, tabStore, ui, pick, sweep, code, file, torn, left>>

\* The descriptor takes the server's salt; a device that did not know the
\* account has no vault for it, and asks for one.
LoginBack ==
    /\ form.kind = "login" /\ form.at = "answered"
    /\ LET a == form.a
           d == DescOf(form.key.salt)
       IN  /\ desc' = [desc EXCEPT ![a] = d]
           /\ tok' = [tok EXCEPT ![a] = form.tok]
           /\ active' = a
           /\ torn' = torn \ {a}
           /\ IF desc[a] = NoDesc
              THEN ui' = Locked(a, d, form.tok, TRUE) /\ form' = NoForm
              ELSE form' = [form EXCEPT !.at = "open", !.desc = d] /\ UNCHANGED ui
    /\ UNCHANGED <<epoch, rec, sealed, stash, pick, sweep, code, file, left>>

LoginOpened ==
    /\ form.kind = "login" /\ form.at = "open"
    /\ IF sealed[form.a] = form.key
       THEN /\ ui' = Unlocked(form.a, form.desc, form.tok, form.key)
            /\ stash' = IF form.keep THEN [stash EXCEPT ![form.a] = form.key] ELSE stash
       ELSE UNCHANGED <<ui, stash>>
    /\ form' = NoForm
    /\ UNCHANGED <<epoch, rec, disk, tok, pick, sweep, code, file, torn, left>>

---------------------------------------------------------------------------
(* Unlock                                                                  *)

\* Vault.unlock reads the descriptor from disk, the rest is what React showed.
SubmitUnlock(pw, keep) ==
    /\ ui.status = "locked" /\ ~ui.imports /\ MaySubmit
    /\ pw \in 1..epoch[ui.acct]
    /\ desc[ui.acct] # NoDesc
    /\ Gesture
    /\ form' = [kind |-> "unlock", at |-> "open", a |-> ui.acct, keep |-> keep, tok |-> ui.tok,
                key |-> KeyOf(pw, desc[ui.acct].salt), desc |-> ui.desc]
    /\ code' = NoCode
    /\ UNCHANGED <<epoch, rec, disk, tabStore, ui, pick, sweep, file, torn>>

\* setState((s) => ({...s, ...})): the account is the one shown by now.
UnlockShown(t) == [ui EXCEPT !.status = "unlocked", !.tok = t, !.imports = FALSE,
                             !.vault = [owner |-> form.a, key |-> form.key]]

\* The key is stashed as soon as the vault opens, before the token is asked for.
UnlockOpened ==
    /\ form.kind = "unlock" /\ form.at = "open"
    /\ IF sealed[form.a] # form.key
       THEN Rejected /\ UNCHANGED <<stash, ui>>
       ELSE /\ stash' = IF form.keep THEN [stash EXCEPT ![form.a] = form.key] ELSE stash
            /\ IF form.tok # 0
               THEN ui' = UnlockShown(form.tok) /\ form' = NoForm
               ELSE form' = [form EXCEPT !.at = "asked"] /\ UNCHANGED ui
    /\ UNCHANGED <<epoch, rec, disk, tok, pick, sweep, code, file, torn, left>>

\* resolveLogin(state.account.username, password)
UnlockServed ==
    /\ form.kind = "unlock" /\ form.at = "asked"
    /\ IF form.desc.named /\ form.key.pw = epoch[form.a]
       THEN form' = [form EXCEPT !.at = "answered", !.tok = epoch[form.a]]
       ELSE Rejected
    /\ UNCHANGED <<epoch, rec, disk, tabStore, ui, pick, sweep, code, file, torn, left>>

UnlockBack ==
    /\ form.kind = "unlock" /\ form.at = "answered"
    /\ tok' = [tok EXCEPT ![form.a] = form.tok]
    /\ ui' = UnlockShown(form.tok)
    /\ form' = NoForm
    /\ UNCHANGED <<epoch, rec, disk, stash, pick, sweep, code, file, torn, left>>

---------------------------------------------------------------------------
(* Reset the password (an emailed link), then the recovery code            *)

SubmitReset ==
    /\ MaySubmit /\ code # NoCode /\ code.pw = 0
    /\ epoch[code.a] < MaxGen
    /\ Gesture
    /\ form' = [NoForm EXCEPT !.kind = "reset", !.at = "asked", !.a = code.a]
    /\ UNCHANGED <<epoch, rec, disk, tabStore, ui, pick, sweep, code, file, torn>>

\* The server takes the new password and salt and revokes every token.
ResetServed ==
    /\ form.kind = "reset" /\ form.at = "asked"
    /\ IF epoch[form.a] < MaxGen
       THEN /\ epoch' = [epoch EXCEPT ![form.a] = @ + 1]
            /\ form' = [form EXCEPT !.at = "answered", !.tok = epoch'[form.a],
                                    !.key = KeyOf(epoch'[form.a], epoch'[form.a])]
       ELSE Rejected /\ UNCHANGED epoch
    /\ UNCHANGED <<rec, disk, tabStore, ui, pick, sweep, code, file, torn, left>>

\* Mutant: a descriptor this device already has is kept.
ParkedDesc_Kept(a) ==
    IF desc[a] # NoDesc THEN desc[a] ELSE [salt |-> form.key.salt, named |-> FALSE]
\* The new salt, and the username if this device knew the account.
ParkedDesc(a) == [salt |-> form.key.salt, named |-> desc[a].named]

\* The answer parks the descriptor and the token, and selects the account.
ResetBack ==
    /\ form.kind = "reset" /\ form.at = "answered"
    /\ LET a == form.a
           d == ParkedDesc(a)
       IN  /\ desc' = [desc EXCEPT ![a] = d]
           /\ tok' = [tok EXCEPT ![a] = form.tok]
           /\ active' = a
           /\ stash' = StashLocked
           /\ ui' = Wiped
           /\ pick' = [a |-> a, desc |-> d, tok |-> form.tok, key |-> StashLocked[a]]
           /\ code' = [a |-> a, pw |-> form.key.pw]
           /\ torn' = torn \ {a}
    /\ form' = NoForm
    /\ UNCHANGED <<epoch, rec, sealed, sweep, file, left>>

\* Mutant: the salt of the blob.
RebuiltSalt_Blob(a) == rec[a]
\* The salt inside the blob is from when it was sealed: the descriptor's wins.
RebuiltSalt(a) == ui.desc.salt

SubmitCode ==
    /\ MaySubmit /\ code.pw # 0 /\ ui.acct # None
    /\ Gesture
    /\ LET t == IF ui.tok # 0 THEN ui.tok ELSE tok[ui.acct]
       IN  /\ t # 0
           /\ form' = [kind |-> "recover", at |-> "asked", a |-> ui.acct, keep |-> TRUE, tok |-> t,
                       key |-> KeyOf(code.pw, RebuiltSalt(ui.acct)), desc |-> ui.desc]
    /\ UNCHANGED <<epoch, rec, disk, tabStore, ui, pick, sweep, code, file, torn>>

\* The server hands the blob to a token that is still good.
RecoverServed ==
    /\ form.kind = "recover" /\ form.at = "asked"
    /\ IF form.tok = epoch[form.a] /\ rec[form.a] # 0
       THEN form' = [form EXCEPT !.at = "store"]
       ELSE Rejected
    /\ UNCHANGED <<epoch, rec, disk, tabStore, ui, pick, sweep, code, file, torn, left>>

RecoverStored ==
    /\ form.kind = "recover" /\ form.at = "store" /\ sweep # form.a
    /\ sealed' = [sealed EXCEPT ![form.a] = form.key]
    /\ stash' = [stash EXCEPT ![form.a] = form.key]
    /\ desc' = [desc EXCEPT ![form.a] = form.desc]
    /\ form' = [form EXCEPT !.at = "upload"]
    /\ UNCHANGED <<epoch, rec, active, tok, ui, pick, sweep, code, file, torn, left>>

RecoverUploaded ==
    /\ form.kind = "recover" /\ form.at = "upload"
    /\ IF form.tok = epoch[form.a]
       THEN /\ rec' = [rec EXCEPT ![form.a] = form.key.salt]
            /\ ui' = Unlocked(form.a, form.desc, form.tok, form.key)
            /\ code' = NoCode
       ELSE UNCHANGED <<rec, ui, code>>
    /\ form' = NoForm
    /\ UNCHANGED <<epoch, disk, tabStore, pick, sweep, file, torn, left>>

---------------------------------------------------------------------------
(* Back up and restore                                                     *)

\* downloadBackup: the descriptor and the sealed blob as they are on disk.
Backup ==
    /\ ui.status = "unlocked" /\ Usable /\ form = NoForm
    /\ sealed[ui.acct] # NoKey /\ desc[ui.acct] # NoDesc
    /\ Gesture
    /\ file' = [a |-> ui.acct, desc |-> desc[ui.acct], key |-> sealed[ui.acct]]
    /\ UNCHANGED <<epoch, rec, disk, tabStore, tabMemory, torn>>

\* restoreBackup saves the descriptor, then writes the blob.
SubmitRestore ==
    /\ MaySubmit /\ file # NoFile
    /\ \/ ui.status = "anonymous"
       \/ ui.status = "locked" /\ ui.imports /\ file.a = ui.acct
       \/ ui.status = "unlocked" /\ file.a = ui.acct
    /\ Gesture
    /\ desc' = [desc EXCEPT ![file.a] = file.desc]
    /\ form' = [kind |-> "restore", at |-> "store", a |-> file.a, keep |-> FALSE, tok |-> 0,
                key |-> file.key, desc |-> file.desc]
    /\ code' = NoCode
    /\ UNCHANGED <<epoch, rec, active, sealed, tabStore, ui, pick, sweep, file, torn>>

\* The page is reloaded onto the restored account.
RestoreStored ==
    /\ form.kind = "restore" /\ form.at = "store" /\ sweep # form.a
    /\ sealed' = [sealed EXCEPT ![form.a] = form.key]
    /\ active' = form.a
    /\ torn' = (IF form.desc.salt = form.key.salt THEN torn \ {form.a} ELSE torn \cup {form.a})
                    \cup (IF sweep # None THEN {sweep} ELSE {})
    /\ ui' = Restoring /\ form' = NoForm /\ pick' = NoPick /\ sweep' = None /\ code' = NoCode
    /\ UNCHANGED <<epoch, rec, desc, tabStore, file, left>>

---------------------------------------------------------------------------
(* Log out, switch, erase                                                  *)

Logout ==
    /\ ui.status \in {"locked", "unlocked"} /\ MayLeave /\ form.kind # "reset"
    /\ Gesture
    /\ stash' = StashLocked
    /\ tok' = [tok EXCEPT ![ui.acct] = 0]
    /\ active' = None
    /\ ui' = Anonymous
    /\ code' = NoCode
    /\ UNCHANGED <<epoch, rec, desc, sealed, form, pick, sweep, file, torn>>

Select(a) ==
    /\ \/ ui.status = "anonymous"
       \/ ui.status = "unlocked" /\ a # ui.acct
    /\ MayLeave /\ form.kind # "reset" /\ desc[a] # NoDesc
    /\ Gesture
    /\ stash' = StashLocked
    /\ active' = a
    /\ ui' = Wiped
    /\ pick' = [a |-> a, desc |-> desc[a], tok |-> tok[a], key |-> StashLocked[a]]
    /\ code' = NoCode
    /\ UNCHANGED <<epoch, rec, desc, sealed, tok, form, sweep, file, torn>>

\* Vault.resume has answered.  The tree under an unlocked session is another
\* one: when the status flips, Recover.tsx is mounted anew without its code step.
SelectLands ==
    /\ pick # NoPick /\ ui.status # "restoring"
    /\ ui' = Shown(pick.a, pick.desc, pick.tok, pick.key)
    /\ stash' = StashResumed(pick.a, pick.key)
    /\ code' = IF (ui.status = "unlocked") = (ui'.status = "unlocked") THEN code ELSE NoCode
    /\ pick' = NoPick
    /\ UNCHANGED <<epoch, rec, disk, tok, form, sweep, file, torn, left>>

\* removeAccount, up to its first await: the registry is cleared at once ...
Erase ==
    /\ ui.status = "unlocked" /\ MayLeave /\ form.kind # "reset" /\ sweep = None
    /\ Gesture
    /\ desc' = [desc EXCEPT ![ui.acct] = NoDesc]
    /\ tok' = [tok EXCEPT ![ui.acct] = 0]
    /\ stash' = [StashLocked EXCEPT ![ui.acct] = NoKey]
    /\ active' = None
    /\ ui' = Anonymous
    /\ sweep' = ui.acct
    /\ code' = NoCode
    /\ UNCHANGED <<epoch, rec, sealed, form, pick, file, torn>>

\* Mutant: the sweep leaves the vault's own blob.
Swept_LogsOnly == sealed
\* ... and the sealed blobs are swept after it.
Swept == [sealed EXCEPT ![sweep] = NoKey]

EraseSwept ==
    /\ sweep # None
    /\ sealed' = Swept
    /\ torn' = torn \ {sweep}
    /\ sweep' = None
    /\ UNCHANGED <<epoch, rec, desc, active, tabStore, ui, form, pick, code, file, left>>

---------------------------------------------------------------------------
Next ==
    \/ Load
    \/ Reload
    \/ NewTab
    \/ RequestFails
    \/ StoreFails
    \/ \E a \in Accounts : ResetElsewhere(a)
    \/ \E a \in Accounts : SubmitRegister(a)
    \/ RegisterServed
    \/ RegisterBack
    \/ RegisterStored
    \/ RegisterUploaded
    \/ \E a \in Accounts, pw \in 1..MaxGen, keep \in BOOLEAN : SubmitLogin(a, pw, keep)
    \/ LoginServed
    \/ LoginBack
    \/ LoginOpened
    \/ \E pw \in 1..MaxGen, keep \in BOOLEAN : SubmitUnlock(pw, keep)
    \/ UnlockOpened
    \/ UnlockServed
    \/ UnlockBack
    \/ \E a \in Accounts, fresh \in BOOLEAN : OpenLink(a, fresh)
    \/ SubmitReset
    \/ ResetServed
    \/ ResetBack
    \/ SubmitCode
    \/ RecoverServed
    \/ RecoverStored
    \/ RecoverUploaded
    \/ Backup
    \/ SubmitRestore
    \/ RestoreStored
    \/ Logout
    \/ \E a \in Accounts : Select(a)
    \/ SelectLands
    \/ Erase
    \/ EraseSwept

Spec == Init /\ [][Next]_vars

---------------------------------------------------------------------------
(* Properties                                                              *)

\* The type invariant: every store, the form's coroutine and React state keep
\* their types.
TypeOK ==
    /\ epoch \in [Accounts -> Gen] /\ rec \in [Accounts -> Gen]
    /\ desc \in [Accounts -> Descriptor]
    /\ active \in Accounts \cup {None}
    /\ sealed \in [Accounts -> Key] /\ stash \in [Accounts -> Key]
    /\ tok \in [Accounts -> Gen]
    /\ ui \in [status : {"restoring", "anonymous", "locked", "unlocked"},
               acct : Accounts \cup {None}, desc : Descriptor, tok : Gen,
               vault : Vault, imports : BOOLEAN]
    /\ form \in [kind : {"none", "register", "login", "unlock", "reset", "recover", "restore"},
                 at : {"idle", "asked", "answered", "open", "store", "upload"},
                 a : Accounts \cup {None}, key : Key, keep : BOOLEAN, tok : Gen,
                 desc : Descriptor]
    /\ pick \in [a : Accounts \cup {None}, desc : Descriptor, tok : Gen, key : Key]
    /\ sweep \in Accounts \cup {None}
    /\ code \in [a : Accounts \cup {None}, pw : Gen]
    /\ file \in [a : Accounts \cup {None}, desc : Descriptor, key : Key]
    /\ torn \subseteq Accounts
    /\ left \in [gestures : 0..MaxGestures, troubles : 0..MaxTroubles]

\* "Two usernames in one browser profile can neither see nor decrypt each
\* other's state" (vault/storage.ts): the open vault is that of the account shown.
Matched == ui.vault.owner \in {None, ui.acct}

\* A restore writes the descriptor first: until the blob is there, or for good
\* when it is cut short, an older salt may stand beside a newer vault.
HalfRestored(a) == a \in torn \/ (form.kind = "restore" /\ form.a = a)

\* A vault that is open under the account's current password is the one on disk,
\* and that password opens it again after a lock ("or the vault silently fails to
\* reopen", session.tsx), but for a restore.
VaultReopens ==
    LET v == ui.vault
    IN  v.key # NoKey /\ v.key.pw = epoch[v.owner] /\ ~HalfRestored(v.owner) =>
            sealed[v.owner] = v.key /\ desc[v.owner].salt = v.key.salt

\* "Three places have to agree on this value" (session.tsx): a vault sealed with
\* the account's current password is sealed with the salt the server hands out
\* and the one the descriptor holds.
SaltsAgree ==
    \A a \in Accounts :
        sealed[a].pw = epoch[a] /\ epoch[a] # 0 /\ ~HalfRestored(a) =>
            sealed[a].salt = epoch[a] /\ (desc[a] # NoDesc => desc[a].salt = epoch[a])

\* "Awaiting the whole thing lets a caller know the ciphertext is actually gone"
\* (vault/accounts.ts): an account this device no longer lists has left no
\* ciphertext, key or token on it, unless the sweep was cut short.
ErasedIsGone ==
    \A a \in Accounts : desc[a] = NoDesc /\ a # sweep /\ a \notin torn =>
        sealed[a] = NoKey /\ stash[a] = NoKey /\ tok[a] = 0 /\ active # a
=============================================================================
