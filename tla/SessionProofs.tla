---------------------------- MODULE SessionProofs ----------------------------
(* Theorems about Session, for any accounts and any number of generations,  *)
(* gestures and troubles.                                                   *)
EXTENDS Session, TLAPS

------------------------------------------------------------------------------
(* The inductive invariant                                                  *)

Forms == {"register", "login", "unlock", "reset", "recover", "restore"}

\* Whose a coroutine, a selection, a link and a file are.
Owned ==
    /\ form # NoForm => form.kind \in Forms /\ form.a \in Accounts
    /\ pick # NoPick => pick.a \in Accounts
    /\ code # NoCode => code.a \in Accounts
    /\ file # NoFile => file.a \in Accounts
    /\ ui.status = "locked" => ui.acct \in Accounts

Typed == TypeOK /\ Owned

\* One thing at a time, for a user who waits for a busy screen.
Patient ==
    /\ form = NoForm \/ pick = NoPick
    /\ sweep # None => form = NoForm /\ pick = NoPick
    /\ ui.status = "restoring" =>
        ui = Restoring /\ form = NoForm /\ pick = NoPick /\ sweep = None /\ code.pw = 0
    /\ form.kind \in {"register", "login"} => ui.status = "anonymous"
    /\ form.kind \in {"register", "login", "unlock", "restore"} => code.pw = 0
    /\ form.kind = "restore" => form.at = "store"

\* What the screen shows belongs together.
Screen ==
    /\ ui.vault.owner \in {None, ui.acct}
    /\ ui.vault.key # NoKey =>
        /\ ui.status = "unlocked" /\ sweep = None
        /\ ui.vault.owner \in Accounts
        /\ ui.vault.key.pw <= epoch[ui.vault.owner]
        /\ desc[ui.vault.owner] # NoDesc
    /\ ui.acct # None => ui.desc # NoDesc
    /\ pick # NoPick => pick.desc # NoDesc /\ desc[pick.a] # NoDesc
    /\ form.kind = "unlock" => ui.acct = form.a

\* No stored key or salt is newer than the account's generation; every vault is
\* sealed with the salt of its password, and the descriptor is not older.
Ages(a) ==
    /\ sealed[a].pw = sealed[a].salt
    /\ sealed[a].pw <= epoch[a] /\ stash[a].pw <= epoch[a] /\ desc[a].salt <= epoch[a]
    /\ desc[a] # NoDesc /\ ~HalfRestored(a) => sealed[a].pw <= desc[a].salt

FileAges ==
    file # NoFile =>
        /\ file.desc # NoDesc /\ file.desc.salt <= epoch[file.a]
        /\ file.key.pw = file.key.salt /\ file.key.pw <= epoch[file.a]

\* A key that is the account's, of a generation that has begun.
Begun(a, k) == k.pw = k.salt /\ k.pw # 0 /\ k.pw <= epoch[a]

\* What each coroutine may rely on.
Registering ==
    form.kind = "register" =>
        /\ form.at = "asked" => epoch[form.a] = 0
        /\ form.at # "asked" => form.key = KeyOf(1, 1) /\ epoch[form.a] # 0
        /\ form.at # "upload" => sealed[form.a] = NoKey
        /\ form.at \in {"store", "upload"} => desc[form.a] = DescOf(1) /\ form.desc = DescOf(1)
        /\ form.at = "upload" => sealed[form.a] = form.key
LoggingIn ==
    /\ form.kind = "login" => form.key.pw # 0
    /\ form.kind = "login" /\ form.at \in {"answered", "open"} =>
        Begun(form.a, form.key) /\ sealed[form.a].pw <= form.key.pw
    /\ form.kind = "login" /\ form.at = "open" => form.desc # NoDesc /\ desc[form.a] # NoDesc
Unlocking ==
    form.kind = "unlock" =>
        /\ desc[form.a] # NoDesc /\ form.key.pw <= epoch[form.a]
        /\ form.at \in {"asked", "answered"} => sealed[form.a] = form.key
Resetting ==
    form.kind = "reset" /\ form.at = "answered" =>
        /\ Begun(form.a, form.key)
        /\ sealed[form.a].pw < form.key.pw /\ stash[form.a].pw < form.key.pw
Recovering ==
    form.kind = "recover" =>
        /\ Begun(form.a, form.key)
        /\ form.desc # NoDesc /\ form.desc.salt = form.key.salt
        /\ ui.vault.key.pw < form.key.pw
        /\ form.at = "upload" => sealed[form.a] = form.key /\ desc[form.a] = form.desc
RestoringFile ==
    form.kind = "restore" =>
        /\ form.desc # NoDesc /\ desc[form.a] = form.desc
        /\ form.key.pw = form.key.salt /\ form.key.pw <= epoch[form.a]
FormAges ==
    Registering /\ LoggingIn /\ Unlocking /\ Resetting /\ Recovering /\ RestoringFile

\* The code step knows the password of the descriptor, which is newer than any
\* vault that may be open.
CodeAges ==
    code.pw # 0 =>
        /\ code.pw <= epoch[code.a]
        /\ pick # NoPick => /\ pick.a = code.a /\ pick.desc.salt = code.pw
                            /\ pick.key.pw < code.pw
        /\ pick = NoPick => /\ ui.acct = code.a /\ ui.desc.salt = code.pw
                            /\ ui.vault.key.pw < code.pw

\* While it is being swept, an account has nothing left but its ciphertext.
Sweeping ==
    sweep # None =>
        desc[sweep] = NoDesc /\ stash[sweep] = NoKey /\ tok[sweep] = 0 /\ active # sweep

\* The open vault is the one on disk.
Current ==
    LET v == ui.vault
    IN  v.key # NoKey /\ v.key.pw = epoch[v.owner] /\ ~HalfRestored(v.owner) =>
            sealed[v.owner] = v.key

Inv ==
    /\ Typed /\ Patient /\ Screen
    /\ \A a \in Accounts : Ages(a)
    /\ FileAges /\ FormAges /\ CodeAges
    /\ Sweeping /\ ErasedIsGone /\ Current
------------------------------------------------------------------------------
(* Types                                                                    *)

LEMMA Shapes ==
    /\ NoKey \in Key /\ NoDesc \in Descriptor /\ NoVault \in Vault
    /\ \A p, s \in Gen : KeyOf(p, s) \in Key
    /\ \A s \in Gen : DescOf(s) \in Descriptor
BY SessionAssumption DEF NoKey, Key, KeyOf, NoDesc, DescOf, Descriptor, NoVault, Vault, Gen

UiType == [status : {"restoring", "anonymous", "locked", "unlocked"},
           acct : Accounts \cup {None}, desc : Descriptor, tok : Gen,
           vault : Vault, imports : BOOLEAN]

LEMMA Screens ==
    /\ Anonymous \in UiType /\ Restoring \in UiType
    /\ \A a \in Accounts, d \in Descriptor, t \in Gen, k \in Key : Unlocked(a, d, t, k) \in UiType
    /\ \A a \in Accounts, d \in Descriptor, t \in Gen, i \in BOOLEAN : Locked(a, d, t, i) \in UiType
    /\ Restoring.status = "restoring" /\ Anonymous.status = "anonymous"
    /\ \A a, d, t, k : Unlocked(a, d, t, k).status = "unlocked"
    /\ \A a, d, t, i : Locked(a, d, t, i).status = "locked" /\ Locked(a, d, t, i).acct = a
<1>1. 0 \in Gen
  BY SessionAssumption DEF Gen
<1>2. Anonymous \in UiType
  BY <1>1, Shapes DEF Anonymous, UiType
<1>3. Restoring \in UiType
  BY <1>2 DEF Restoring, UiType
<1>4. ASSUME NEW a \in Accounts, NEW d \in Descriptor, NEW t \in Gen, NEW k \in Key
      PROVE  Unlocked(a, d, t, k) \in UiType
  BY Shapes DEF Unlocked, UiType, Vault
<1>5. ASSUME NEW a \in Accounts, NEW d \in Descriptor, NEW t \in Gen, NEW i \in BOOLEAN
      PROVE  Locked(a, d, t, i) \in UiType
  BY Shapes DEF Locked, UiType
<1>6. /\ Restoring.status = "restoring" /\ Anonymous.status = "anonymous"
      /\ \A a, d, t, k : Unlocked(a, d, t, k).status = "unlocked"
      /\ \A a, d, t, i : Locked(a, d, t, i).status = "locked" /\ Locked(a, d, t, i).acct = a
  BY DEF Restoring, Anonymous, Unlocked, Locked
<1> QED  BY <1>2, <1>3, <1>4, <1>5, <1>6

LEMMA InitTyped == Init => Typed
<1> SUFFICES ASSUME Init PROVE Typed
  OBVIOUS
<1>1. /\ ui = Restoring /\ ui.status # "locked" /\ form = NoForm /\ pick = NoPick
      /\ code = NoCode /\ file = NoFile
  BY DEF Init, Restoring, Anonymous
<1>2. Owned
  BY <1>1 DEF Owned
<1>3. TypeOK
  <2>1. /\ 0 \in Gen /\ 0 \in 0..MaxGestures /\ MaxGestures \in 0..MaxGestures
        /\ MaxTroubles \in 0..MaxTroubles
    BY SessionAssumption DEF Gen
  <2>2. ui \in UiType
    BY <1>1, Screens
  <2> QED  BY <2>1, <2>2, Shapes DEF Init, TypeOK, UiType, NoForm, NoPick, NoCode, NoFile
<1> QED  BY <1>2, <1>3 DEF Typed
LEMMA Bounds ==
    /\ 0 \in Gen /\ 1 \in Gen /\ 1..MaxGen \subseteq Gen
    /\ \A n \in Gen : n < MaxGen => n + 1 \in Gen
BY SessionAssumption DEF Gen

FormType ==
    [kind : {"none", "register", "login", "unlock", "reset", "recover", "restore"},
     at : {"idle", "asked", "answered", "open", "store", "upload"},
     a : Accounts \cup {None}, key : Key, keep : BOOLEAN, tok : Gen, desc : Descriptor]
PickType == [a : Accounts \cup {None}, desc : Descriptor, tok : Gen, key : Key]
CodeType == [a : Accounts \cup {None}, pw : Gen]
FileType == [a : Accounts \cup {None}, desc : Descriptor, key : Key]
LeftType == [gestures : 0..MaxGestures, troubles : 0..MaxTroubles]

LEMMA Nothing ==
    /\ NoForm \in FormType /\ NoForm.kind = "none" /\ NoForm.at = "idle"
    /\ NoPick \in PickType /\ NoCode \in CodeType /\ NoFile \in FileType
    /\ NoCode.pw = 0
BY Shapes, Bounds DEF NoForm, NoPick, NoCode, NoFile, FormType, PickType, CodeType, FileType

\* What Typed says of the fields.
LEMMA Fields ==
    ASSUME Typed
    PROVE  /\ epoch \in [Accounts -> Gen] /\ rec \in [Accounts -> Gen]
           /\ desc \in [Accounts -> Descriptor] /\ active \in Accounts \cup {None}
           /\ sealed \in [Accounts -> Key] /\ stash \in [Accounts -> Key]
           /\ tok \in [Accounts -> Gen] /\ sweep \in Accounts \cup {None}
           /\ torn \in SUBSET Accounts
           /\ ui \in UiType /\ form \in FormType /\ pick \in PickType
           /\ code \in CodeType /\ file \in FileType /\ left \in LeftType
           /\ form.key \in Key /\ form.tok \in Gen /\ form.desc \in Descriptor
           /\ form.kind # "none" => form.a \in Accounts /\ form.kind \in Forms
           /\ form # NoForm => form.a \in Accounts /\ form.kind \in Forms
           /\ pick.desc \in Descriptor /\ pick.tok \in Gen /\ pick.key \in Key
           /\ pick # NoPick => pick.a \in Accounts
           /\ code.pw \in Gen /\ (code # NoCode => code.a \in Accounts)
           /\ file.desc \in Descriptor /\ file.key \in Key
           /\ file # NoFile => file.a \in Accounts
           /\ ui.desc \in Descriptor /\ ui.tok \in Gen /\ ui.vault \in Vault
           /\ ui.vault.key \in Key /\ ui.acct \in Accounts \cup {None}
           /\ ui.vault.owner \in Accounts \cup {None}
           /\ ui.status = "locked" => ui.acct \in Accounts
           /\ form.key.pw \in Gen /\ form.key.salt \in Gen
           /\ \A a \in Accounts : /\ epoch[a] \in Gen /\ desc[a] \in Descriptor
                                  /\ desc[a].salt \in Gen /\ desc[a].named \in BOOLEAN
           /\ ui.desc.salt \in Gen
<1>1. ui \in UiType /\ form \in FormType /\ pick \in PickType
      /\ code \in CodeType /\ file \in FileType /\ left \in LeftType
  BY DEF Typed, TypeOK, UiType, FormType, PickType, CodeType, FileType, LeftType
<1>2. form.key \in Key /\ form.tok \in Gen /\ form.desc \in Descriptor
  BY <1>1 DEF FormType
<1>3. pick.desc \in Descriptor /\ pick.tok \in Gen /\ pick.key \in Key
  BY <1>1 DEF PickType
<1>4. code.pw \in Gen /\ file.desc \in Descriptor /\ file.key \in Key
  BY <1>1 DEF CodeType, FileType
<1>5. /\ ui.desc \in Descriptor /\ ui.tok \in Gen /\ ui.vault \in Vault
      /\ ui.acct \in Accounts \cup {None}
  BY <1>1 DEF UiType
<1>6. ui.vault.key \in Key /\ ui.vault.owner \in Accounts \cup {None}
  BY <1>5 DEF Vault
<1>7. form.key.pw \in Gen /\ form.key.salt \in Gen
  BY <1>2 DEF Key
<1>8. form.kind # "none" => form.a \in Accounts /\ form.kind \in Forms
  BY Nothing DEF Typed, Owned
<1>9. desc \in [Accounts -> Descriptor] /\ epoch \in [Accounts -> Gen]
  BY DEF Typed, TypeOK
<1>10. \A a \in Accounts : /\ epoch[a] \in Gen /\ desc[a] \in Descriptor
                           /\ desc[a].salt \in Gen /\ desc[a].named \in BOOLEAN
  BY <1>9 DEF Descriptor
<1>11. ui.desc.salt \in Gen
  BY <1>5 DEF Descriptor
<1> QED  BY <1>1, <1>3, <1>6, <1>7, <1>8, <1>10, <1>11 DEF Typed, TypeOK, Owned

\* The parts of Typed' that an action has to establish: the server's rows and the
\* browser's stores, what the provider shows, the form, and the other coroutines.
Stores ==
    /\ epoch \in [Accounts -> Gen] /\ rec \in [Accounts -> Gen]
    /\ desc \in [Accounts -> Descriptor] /\ active \in Accounts \cup {None}
    /\ sealed \in [Accounts -> Key] /\ stash \in [Accounts -> Key]
    /\ tok \in [Accounts -> Gen] /\ torn \subseteq Accounts

OnScreen == ui \in UiType /\ (ui.status = "locked" => ui.acct \in Accounts)

Formed ==
    form \in FormType /\ (form # NoForm => form.kind \in Forms /\ form.a \in Accounts)

Others ==
    /\ pick \in PickType /\ (pick # NoPick => pick.a \in Accounts)
    /\ code \in CodeType /\ (code # NoCode => code.a \in Accounts)
    /\ file \in FileType /\ (file # NoFile => file.a \in Accounts)
    /\ sweep \in Accounts \cup {None}
    /\ left \in LeftType

LEMMA Parts == Typed' <=> (Stores /\ OnScreen /\ Formed /\ Others)'
    BY DEF Typed, TypeOK, Owned, Stores, OnScreen, Formed, Others, UiType, FormType, PickType,
       CodeType, FileType, LeftType
LEMMA Spent ==
    ASSUME Typed
    PROVE  /\ Gesture => left' \in LeftType
           /\ Trouble => left' \in LeftType
    BY Fields, SessionAssumption DEF Gesture, Trouble, LeftType

LEMMA Booting ==
    ASSUME Typed, NEW a \in Accounts, NEW d \in Descriptor, NEW t \in Gen, NEW k \in Key
    PROVE  /\ Shown(a, d, t, k) \in UiType
           /\ Shown(a, d, t, k).status = "locked" => Shown(a, d, t, k).acct = a
           /\ StashResumed(a, k) \in [Accounts -> Key]
<1>1. Shown(a, d, t, k) \in {Unlocked(a, d, t, k)} \cup {Locked(a, d, t, i) : i \in BOOLEAN}
  BY DEF Shown
<1>2. StashResumed(a, k) \in [Accounts -> Key]
  BY Fields, Shapes DEF StashResumed
<1> QED  BY <1>1, <1>2, Screens

LEMMA Leaving ==
    ASSUME Typed
    PROVE  /\ Wiped \in UiType /\ Wiped.status = ui.status /\ Wiped.acct = ui.acct
           /\ StashLocked \in [Accounts -> Key]
<1>1. [ui.vault EXCEPT !.key = NoKey] \in Vault
  BY Fields, Shapes DEF Vault
<1>2. Wiped \in UiType /\ Wiped.status = ui.status /\ Wiped.acct = ui.acct
  BY Fields, <1>1 DEF Wiped, UiType
<1>3. StashLocked \in [Accounts -> Key]
  BY Fields, Shapes DEF StashLocked
<1> QED  BY <1>2, <1>3

LEMMA Opening ==
    ASSUME Typed, NEW t \in Gen, form.a \in Accounts
    PROVE  UnlockShown(t) \in UiType /\ UnlockShown(t).status = "unlocked"
<1>1. [owner |-> form.a, key |-> form.key] \in Vault
  BY Fields DEF Vault
<1> QED  BY Fields, <1>1 DEF UnlockShown, UiType

LEMMA Parked ==
    ASSUME Typed, NEW a \in Accounts
    PROVE  ParkedDesc(a) \in Descriptor /\ ParkedDesc(a).salt = form.key.salt
<1>1. desc[a] \in Descriptor
  BY Fields
<1> QED  BY Fields DEF ParkedDesc, Descriptor

LEMMA LoadTyped ==
    ASSUME Typed, Load
    PROVE  Typed'
<1>1. Stores'
  <2>1. CASE active = None \/ desc[active] = NoDesc
    BY <2>1, Fields DEF Stores, Load, disk
  <2>2. CASE ~(active = None \/ desc[active] = NoDesc)
    <3>1. active \in Accounts /\ stash[active] \in Key
      BY <2>2, Fields
    <3>2. StashResumed(active, stash[active]) \in [Accounts -> Key]
      BY <3>1, Fields, Booting
    <3> QED  BY <3>2, Fields DEF Stores, Load, disk
  <2> QED  BY <2>1, <2>2
<1>2. OnScreen'
  <2>1. CASE active = None \/ desc[active] = NoDesc
    BY <2>1, Screens DEF OnScreen, Load
  <2>2. CASE ~(active = None \/ desc[active] = NoDesc)
    <3>1. /\ active \in Accounts /\ stash[active] \in Key /\ tok[active] \in Gen
          /\ desc[active] \in Descriptor
      BY <2>2, Fields
    <3>2. ui' = Shown(active, desc[active], tok[active], stash[active])
      BY <2>2 DEF Load
    <3> QED  BY <3>1, <3>2, Booting DEF OnScreen
  <2> QED  BY <2>1, <2>2
<1>3. Formed'
  BY Fields DEF Formed, Load
<1>4. Others'
  BY Fields DEF Others, Load
<1> QED  BY <1>1, <1>2, <1>3, <1>4, Parts

LEMMA ReloadTyped ==
    ASSUME Typed, Reload
    PROVE  Typed'
<1>1. Stores'
  BY Fields DEF Stores, Reload, Cut, disk, tabStore
<1>2. OnScreen'
  BY Screens DEF OnScreen, Reload, Cut
<1>3. Formed'
  BY Nothing DEF Formed, Forms, Reload, Cut
<1>4. Others'
  BY Fields, Spent, Nothing DEF Others, Reload, Cut
<1> QED  BY <1>1, <1>2, <1>3, <1>4, Parts

LEMMA NewTabTyped ==
    ASSUME Typed, NewTab
    PROVE  Typed'
<1>1. Stores'
  BY Fields, Shapes, Bounds DEF Stores, NewTab, Cut, disk
<1>2. OnScreen'
  BY Screens DEF OnScreen, NewTab, Cut
<1>3. Formed'
  BY Nothing DEF Formed, FormType, Forms, NewTab, Cut
<1>4. Others'
  BY Fields, Spent, Nothing DEF Others, NewTab, Cut
<1> QED  BY <1>1, <1>2, <1>3, <1>4, Parts

LEMMA RequestFailsTyped ==
    ASSUME Typed, RequestFails
    PROVE  Typed'
<1>1. Stores'
  BY Fields DEF Stores, RequestFails, disk, tabStore
<1>2. OnScreen'
  BY Fields DEF OnScreen, RequestFails
<1>3. Formed'
  BY Fields, Shapes, Nothing DEF Formed, RequestFails, Rejected
<1>4. Others'
  BY Fields, Spent DEF Others, RequestFails
<1> QED  BY <1>1, <1>2, <1>3, <1>4, Parts

LEMMA StoreFailsTyped ==
    ASSUME Typed, StoreFails
    PROVE  Typed'
<1>1. Stores'
  BY Fields DEF Stores, StoreFails, disk, tabStore
<1>2. OnScreen'
  BY Fields DEF OnScreen, StoreFails
<1>3. Formed'
  BY Nothing DEF Formed, StoreFails, Rejected, tabStore
<1>4. Others'
  BY Fields, Spent DEF Others, StoreFails
<1> QED  BY <1>1, <1>2, <1>3, <1>4, Parts

LEMMA ResetElsewhereTyped ==
    ASSUME Typed, NEW a \in Accounts, ResetElsewhere(a)
    PROVE  Typed'
<1>1. Stores'
  <2>1. epoch[a] + 1 \in Gen
    BY Fields, Bounds DEF ResetElsewhere
  <2>2. epoch' \in [Accounts -> Gen]
    BY Fields, <2>1 DEF ResetElsewhere
  <2>3. rec' \in [Accounts -> Gen]
    BY Fields, <2>1 DEF ResetElsewhere
  <2> QED  BY Fields, <2>2 DEF Stores, ResetElsewhere, disk, tabStore
<1>2. OnScreen'
  BY Fields DEF OnScreen, ResetElsewhere, tabMemory
<1>3. Formed'
  BY Fields DEF Formed, ResetElsewhere, tabMemory
<1>4. Others'
  BY Fields, Spent, Bounds DEF Others, ResetElsewhere, tabMemory
<1> QED  BY <1>1, <1>2, <1>3, <1>4, Parts

LEMMA SubmitRegisterTyped ==
    ASSUME Typed, NEW a \in Accounts, SubmitRegister(a)
    PROVE  Typed'
<1>1. Stores'
  BY Fields DEF Stores, SubmitRegister, disk, tabStore
<1>2. OnScreen'
  BY Fields DEF OnScreen, SubmitRegister
<1>3. Formed'
  BY Nothing DEF Formed, FormType, Forms, SubmitRegister
<1>4. Others'
  BY Fields, Spent, Nothing DEF Others, SubmitRegister
<1> QED  BY <1>1, <1>2, <1>3, <1>4, Parts

LEMMA RegisterServedTyped ==
    ASSUME Typed, RegisterServed
    PROVE  Typed'
<1>1. Stores'
  BY Fields, Shapes, Bounds DEF Stores, RegisterServed, disk, tabStore
<1>2. OnScreen'
  BY Fields DEF OnScreen, RegisterServed
<1>3. Formed'
  BY Fields, Shapes, Bounds DEF Formed, FormType, RegisterServed
<1>4. Others'
  BY Fields DEF Others, RegisterServed
<1> QED  BY <1>1, <1>2, <1>3, <1>4, Parts

LEMMA RegisterBackTyped ==
    ASSUME Typed, RegisterBack
    PROVE  Typed'
<1>1. Stores'
  BY Fields, Shapes DEF Stores, RegisterBack, tabStore
<1>2. OnScreen'
  BY Fields DEF OnScreen, RegisterBack
<1>3. Formed'
  BY Fields, Shapes DEF Formed, FormType, RegisterBack
<1>4. Others'
  BY Fields DEF Others, RegisterBack
<1> QED  BY <1>1, <1>2, <1>3, <1>4, Parts

LEMMA RegisterStoredTyped ==
    ASSUME Typed, RegisterStored
    PROVE  Typed'
<1>1. Stores'
  BY Fields DEF Stores, RegisterStored
<1>2. OnScreen'
  BY Fields DEF OnScreen, RegisterStored
<1>3. Formed'
  BY Fields DEF Formed, FormType, RegisterStored
<1>4. Others'
  BY Fields DEF Others, RegisterStored
<1> QED  BY <1>1, <1>2, <1>3, <1>4, Parts

LEMMA RegisterUploadedTyped ==
    ASSUME Typed, RegisterUploaded
    PROVE  Typed'
<1>1. Stores'
  <2>1. rec' = rec \/ rec' = [rec EXCEPT ![form.a] = form.key.salt]
    BY DEF RegisterUploaded
  <2>2. rec' \in [Accounts -> Gen]
    BY <2>1, Fields
  <2> QED  BY <2>2, Fields DEF Stores, RegisterUploaded, disk, tabStore
<1>2. OnScreen'
  <2>1. form.a \in Accounts
    BY Fields DEF RegisterUploaded
  <2>2. Unlocked(form.a, form.desc, form.tok, form.key) \in UiType
    BY <2>1, Fields, Screens
  <2>3. ui' \in {ui, Unlocked(form.a, form.desc, form.tok, form.key)}
    BY DEF RegisterUploaded
  <2>4. Unlocked(form.a, form.desc, form.tok, form.key).status # "locked"
    BY DEF Unlocked
  <2> QED  BY <2>2, <2>3, <2>4, Fields DEF OnScreen
<1>3. Formed'
  BY Nothing DEF Formed, RegisterUploaded
<1>4. Others'
  BY Fields DEF Others, RegisterUploaded
<1> QED  BY <1>1, <1>2, <1>3, <1>4, Parts

LEMMA SubmitLoginTyped ==
    ASSUME Typed, NEW a \in Accounts, NEW pw \in 1..MaxGen, NEW keep \in BOOLEAN, SubmitLogin(a, pw, keep)
    PROVE  Typed'
<1>1. Stores'
  BY Fields DEF Stores, SubmitLogin, disk, tabStore
<1>2. OnScreen'
  BY Fields DEF OnScreen, SubmitLogin
<1>3. Formed'
  BY Shapes, Nothing, Bounds DEF Formed, FormType, Forms, SubmitLogin
<1>4. Others'
  BY Fields, Spent, Nothing DEF Others, SubmitLogin
<1> QED  BY <1>1, <1>2, <1>3, <1>4, Parts

LEMMA LoginServedTyped ==
    ASSUME Typed, LoginServed
    PROVE  Typed'
<1>1. Stores'
  BY Fields DEF Stores, LoginServed, disk, tabStore
<1>2. OnScreen'
  BY Fields, Screens DEF OnScreen, LoginServed
<1>3. Formed'
  <2>1. form.kind = "login" => KeyOf(form.key.pw, epoch[form.a]) \in Key
    BY Fields, Shapes
  <2> QED  BY Fields, Nothing, <2>1 DEF Formed, FormType, LoginServed, Rejected
<1>4. Others'
  BY Fields DEF Others, LoginServed
<1> QED  BY <1>1, <1>2, <1>3, <1>4, Parts

LEMMA LoginBackTyped ==
    ASSUME Typed, LoginBack
    PROVE  Typed'
<1>1. Stores'
  BY Fields, Shapes DEF Stores, LoginBack
<1>2. OnScreen'
  <2>1. /\ form.a \in Accounts /\ form.key.salt \in Gen /\ form.tok \in Gen
    BY Fields DEF LoginBack
  <2>2. Locked(form.a, DescOf(form.key.salt), form.tok, TRUE) \in UiType
    BY <2>1, Shapes, Screens
  <2>3. ui' \in {ui, Locked(form.a, DescOf(form.key.salt), form.tok, TRUE)}
    BY DEF LoginBack
  <2>4. Locked(form.a, DescOf(form.key.salt), form.tok, TRUE).acct = form.a
    BY DEF Locked
  <2> QED  BY <2>1, <2>2, <2>3, <2>4, Fields DEF OnScreen
<1>3. Formed'
  <2> DEFINE f == [form EXCEPT !.at = "open", !.desc = DescOf(form.key.salt)]
  <2>1. /\ form.a \in Accounts /\ form.kind \in Forms
        /\ DescOf(form.key.salt) \in Descriptor
    BY Fields, Shapes DEF LoginBack
  <2>2. f \in FormType /\ f.kind = form.kind /\ f.a = form.a
    BY <2>1, Fields DEF FormType
  <2>3. form' = NoForm \/ form' = f
    BY DEF LoginBack
  <2> HIDE DEF f
  <2> QED  BY <2>1, <2>2, <2>3, Nothing DEF Formed
<1>4. Others'
  BY Fields DEF Others, LoginBack
<1> QED  BY <1>1, <1>2, <1>3, <1>4, Parts

LEMMA LoginOpenedTyped ==
    ASSUME Typed, LoginOpened
    PROVE  Typed'
<1>1. Stores'
  BY Fields DEF Stores, LoginOpened, disk
<1>2. OnScreen'
  <2>1. form.a \in Accounts
    BY Fields DEF LoginOpened
  <2>2. Unlocked(form.a, form.desc, form.tok, form.key) \in UiType
    BY <2>1, Fields, Screens
  <2>3. ui' \in {ui, Unlocked(form.a, form.desc, form.tok, form.key)}
    BY DEF LoginOpened
  <2>4. Unlocked(form.a, form.desc, form.tok, form.key).status # "locked"
    BY DEF Unlocked
  <2> QED  BY <2>2, <2>3, <2>4, Fields DEF OnScreen
<1>3. Formed'
  BY Nothing DEF Formed, LoginOpened
<1>4. Others'
  BY Fields DEF Others, LoginOpened
<1> QED  BY <1>1, <1>2, <1>3, <1>4, Parts

LEMMA SubmitUnlockTyped ==
    ASSUME Typed, NEW pw \in 1..MaxGen, NEW keep \in BOOLEAN, SubmitUnlock(pw, keep)
    PROVE  Typed'
<1>1. Stores'
  BY Fields DEF Stores, SubmitUnlock, disk, tabStore
<1>2. OnScreen'
  BY Fields DEF OnScreen, SubmitUnlock
<1>3. Formed'
  <2>1. KeyOf(pw, desc[ui.acct].salt) \in Key /\ ui.acct \in Accounts
    BY Fields, Shapes, Bounds DEF SubmitUnlock
  <2> QED  BY Fields, <2>1 DEF Formed, FormType, Forms, SubmitUnlock
<1>4. Others'
  BY Fields, Spent, Nothing DEF Others, SubmitUnlock
<1> QED  BY <1>1, <1>2, <1>3, <1>4, Parts

LEMMA UnlockOpenedTyped ==
    ASSUME Typed, UnlockOpened
    PROVE  Typed'
<1>1. Stores'
  BY Fields DEF Stores, UnlockOpened, disk
<1>2. OnScreen'
  <2>1. UnlockShown(form.tok) \in UiType /\ UnlockShown(form.tok).status = "unlocked"
    BY Fields, Opening DEF UnlockOpened
  <2>2. ui' \in {ui, UnlockShown(form.tok)}
    BY DEF UnlockOpened
  <2> QED  BY <2>1, <2>2, Fields DEF OnScreen
<1>3. Formed'
  BY Fields, Nothing DEF Formed, FormType, UnlockOpened, Rejected
<1>4. Others'
  BY Fields DEF Others, UnlockOpened
<1> QED  BY <1>1, <1>2, <1>3, <1>4, Parts

LEMMA UnlockServedTyped ==
    ASSUME Typed, UnlockServed
    PROVE  Typed'
<1>1. Stores'
  BY Fields DEF Stores, UnlockServed, disk, tabStore
<1>2. OnScreen'
  BY Fields, Screens DEF OnScreen, UnlockServed, tabStore
<1>3. Formed'
  <2> DEFINE f == [form EXCEPT !.at = "answered", !.tok = epoch[form.a]]
  <2>1. form.a \in Accounts /\ form.kind \in Forms /\ epoch[form.a] \in Gen
    BY Fields DEF UnlockServed
  <2>2. f \in FormType /\ f.kind = form.kind /\ f.a = form.a
    BY <2>1, Fields DEF FormType
  <2>3. form' = NoForm \/ form' = f
    BY DEF UnlockServed, Rejected
  <2> HIDE DEF f
  <2> QED  BY <2>1, <2>2, <2>3, Nothing DEF Formed
<1>4. Others'
  BY Fields, Spent DEF Others, UnlockServed
<1> QED  BY <1>1, <1>2, <1>3, <1>4, Parts

LEMMA UnlockBackTyped ==
    ASSUME Typed, UnlockBack
    PROVE  Typed'
<1>1. Stores'
  BY Fields DEF Stores, UnlockBack, disk
<1>2. OnScreen'
  BY Fields, Opening DEF OnScreen, UnlockBack
<1>3. Formed'
  BY Nothing DEF Formed, UnlockBack
<1>4. Others'
  BY Fields DEF Others, UnlockBack
<1> QED  BY <1>1, <1>2, <1>3, <1>4, Parts

LEMMA OpenLinkTyped ==
    ASSUME Typed, NEW a \in Accounts, NEW fresh \in BOOLEAN, OpenLink(a, fresh)
    PROVE  Typed'
<1>1. Stores'
  <2>1. stash' \in [Accounts -> Key] /\ tok' \in [Accounts -> Gen]
    <3>1. CASE fresh
      BY <3>1, Shapes, Bounds DEF OpenLink
    <3>2. CASE ~fresh
      BY <3>2, Fields DEF OpenLink, tabStore
    <3> QED  BY <3>1, <3>2
  <2> QED  BY Fields, <2>1 DEF Stores, OpenLink, Cut, disk
<1>2. OnScreen'
  BY Screens DEF OnScreen, OpenLink, Cut, tabStore
<1>3. Formed'
  BY Nothing DEF Formed, OpenLink, Cut
<1>4. Others'
  BY Fields, Spent, Nothing DEF Others, CodeType, OpenLink, Cut
<1> QED  BY <1>1, <1>2, <1>3, <1>4, Parts

LEMMA SubmitResetTyped ==
    ASSUME Typed, SubmitReset
    PROVE  Typed'
<1>1. Stores'
  BY Fields DEF Stores, SubmitReset, disk, tabStore
<1>2. OnScreen'
  BY Fields DEF OnScreen, SubmitReset
<1>3. Formed'
  BY Fields, Nothing DEF Formed, FormType, Forms, SubmitReset
<1>4. Others'
  BY Fields, Spent DEF Others, SubmitReset
<1> QED  BY <1>1, <1>2, <1>3, <1>4, Parts

LEMMA ResetServedTyped ==
    ASSUME Typed, ResetServed
    PROVE  Typed'
<1>1. Stores'
  <2>1. epoch[form.a] < MaxGen => epoch[form.a] + 1 \in Gen
    BY Fields, Bounds DEF ResetServed
  <2> QED  BY Fields, <2>1 DEF Stores, ResetServed, disk, tabStore
<1>2. OnScreen'
  BY Fields DEF OnScreen, ResetServed
<1>3. Formed'
  <2>1. form.a \in Accounts
    BY Fields DEF ResetServed
  <2>2. CASE epoch[form.a] < MaxGen
    <3>1. epoch'[form.a] = epoch[form.a] + 1
      BY <2>2, Fields DEF ResetServed
    <3>2. epoch'[form.a] \in Gen /\ KeyOf(epoch'[form.a], epoch'[form.a]) \in Key
      BY <2>1, <2>2, <3>1, Fields, Bounds, Shapes
    <3> QED  BY <2>2, <3>2, Fields DEF Formed, FormType, ResetServed
  <2> QED  BY <2>2, Nothing DEF Formed, ResetServed, Rejected
<1>4. Others'
  BY Fields DEF Others, ResetServed
<1> QED  BY <1>1, <1>2, <1>3, <1>4, Parts

LEMMA ResetBackTyped ==
    ASSUME Typed, ResetBack
    PROVE  Typed'
<1>1. Stores'
  BY Fields, Leaving, Parked DEF Stores, ResetBack
<1>2. OnScreen'
  BY Fields, Leaving DEF OnScreen, ResetBack
<1>3. Formed'
  BY Nothing DEF Formed, ResetBack
<1>4. Others'
  BY Fields, Leaving, Parked DEF Others, PickType, CodeType, ResetBack
<1> QED  BY <1>1, <1>2, <1>3, <1>4, Parts

LEMMA SubmitCodeTyped ==
    ASSUME Typed, SubmitCode
    PROVE  Typed'
<1>1. Stores'
  BY Fields DEF Stores, SubmitCode, disk, tabStore
<1>2. OnScreen'
  BY Fields DEF OnScreen, SubmitCode
<1>3. Formed'
  <2>1. /\ KeyOf(code.pw, RebuiltSalt(ui.acct)) \in Key /\ ui.acct \in Accounts
        /\ tok[ui.acct] \in Gen
    BY Fields, Shapes DEF SubmitCode, RebuiltSalt
  <2> QED  BY Fields, <2>1 DEF Formed, FormType, Forms, SubmitCode
<1>4. Others'
  BY Fields, Spent DEF Others, SubmitCode
<1> QED  BY <1>1, <1>2, <1>3, <1>4, Parts

LEMMA RecoverServedTyped ==
    ASSUME Typed, RecoverServed
    PROVE  Typed'
<1>1. Stores'
  BY Fields DEF Stores, RecoverServed, disk, tabStore
<1>2. OnScreen'
  BY Fields DEF OnScreen, RecoverServed
<1>3. Formed'
  BY Fields, Nothing DEF Formed, FormType, RecoverServed, Rejected
<1>4. Others'
  BY Fields DEF Others, RecoverServed
<1> QED  BY <1>1, <1>2, <1>3, <1>4, Parts

LEMMA RecoverStoredTyped ==
    ASSUME Typed, RecoverStored
    PROVE  Typed'
<1>1. Stores'
  BY Fields DEF Stores, RecoverStored
<1>2. OnScreen'
  BY Fields DEF OnScreen, RecoverStored
<1>3. Formed'
  BY Fields DEF Formed, FormType, RecoverStored
<1>4. Others'
  BY Fields DEF Others, RecoverStored
<1> QED  BY <1>1, <1>2, <1>3, <1>4, Parts

LEMMA RecoverUploadedTyped ==
    ASSUME Typed, RecoverUploaded
    PROVE  Typed'
<1>1. Stores'
  BY Fields DEF Stores, RecoverUploaded, disk, tabStore
<1>2. OnScreen'
  <2>1. form.a \in Accounts
    BY Fields DEF RecoverUploaded
  <2>2. Unlocked(form.a, form.desc, form.tok, form.key) \in UiType
    BY <2>1, Fields, Screens
  <2>3. ui' \in {ui, Unlocked(form.a, form.desc, form.tok, form.key)}
    BY DEF RecoverUploaded
  <2>4. Unlocked(form.a, form.desc, form.tok, form.key).status # "locked"
    BY DEF Unlocked
  <2> QED  BY <2>2, <2>3, <2>4, Fields DEF OnScreen
<1>3. Formed'
  BY Nothing DEF Formed, RecoverUploaded
<1>4. Others'
  BY Fields, Nothing DEF Others, RecoverUploaded
<1> QED  BY <1>1, <1>2, <1>3, <1>4, Parts

LEMMA BackupTyped ==
    ASSUME Typed, Backup
    PROVE  Typed'
<1>1. Stores'
  BY Fields DEF Stores, Backup, disk, tabStore
<1>2. OnScreen'
  BY Fields DEF OnScreen, Backup, tabMemory
<1>3. Formed'
  BY Fields DEF Formed, Backup, tabMemory
<1>4. Others'
  <2>1. ui.status = "unlocked" /\ ui.acct \in Accounts
    BY Fields DEF Backup, Usable, Complete
  <2>2. file' \in FileType /\ file'.a = ui.acct
    BY Fields, <2>1 DEF Backup, FileType
  <2> QED  BY Fields, Spent, <2>1, <2>2 DEF Others, Backup, tabMemory
<1> QED  BY <1>1, <1>2, <1>3, <1>4, Parts

LEMMA SubmitRestoreTyped ==
    ASSUME Typed, SubmitRestore
    PROVE  Typed'
<1>1. Stores'
  BY Fields DEF Stores, SubmitRestore, tabStore
<1>2. OnScreen'
  BY Fields DEF OnScreen, SubmitRestore
<1>3. Formed'
  BY Fields, Bounds DEF Formed, FormType, Forms, SubmitRestore, tabStore
<1>4. Others'
  BY Fields, Spent, Nothing DEF Others, SubmitRestore
<1> QED  BY <1>1, <1>2, <1>3, <1>4, Parts

LEMMA RestoreStoredTyped ==
    ASSUME Typed, RestoreStored
    PROVE  Typed'
<1>1. Stores'
  BY Fields DEF Stores, RestoreStored, tabStore
<1>2. OnScreen'
  BY Screens DEF OnScreen, RestoreStored
<1>3. Formed'
  BY Nothing DEF Formed, RestoreStored
<1>4. Others'
  BY Fields, Nothing DEF Others, RestoreStored
<1> QED  BY <1>1, <1>2, <1>3, <1>4, Parts

LEMMA LogoutTyped ==
    ASSUME Typed, Logout
    PROVE  Typed'
<1>1. Stores'
  BY Fields, Shapes, Bounds, Leaving DEF Stores, Logout
<1>2. OnScreen'
  BY Screens DEF OnScreen, Logout
<1>3. Formed'
  BY Fields DEF Formed, Logout
<1>4. Others'
  BY Fields, Spent, Nothing DEF Others, Logout
<1> QED  BY <1>1, <1>2, <1>3, <1>4, Parts

LEMMA SelectTyped ==
    ASSUME Typed, NEW a \in Accounts, Select(a)
    PROVE  Typed'
<1>1. Stores'
  BY Fields, Leaving DEF Stores, Select
<1>2. OnScreen'
  BY Leaving DEF OnScreen, Select
<1>3. Formed'
  BY Fields DEF Formed, Select
<1>4. Others'
  BY Fields, Spent, Nothing, Leaving DEF Others, PickType, CodeType, Select
<1> QED  BY <1>1, <1>2, <1>3, <1>4, Parts

LEMMA SelectLandsTyped ==
    ASSUME Typed, SelectLands
    PROVE  Typed'
<1>1. Stores'
  BY Fields, Booting DEF Stores, SelectLands, disk
<1>2. OnScreen'
  <2>1. ui' = Shown(pick.a, pick.desc, pick.tok, pick.key)
    BY DEF SelectLands
  <2>2. /\ pick.a \in Accounts /\ pick.desc \in Descriptor /\ pick.tok \in Gen
        /\ pick.key \in Key
    BY Fields DEF SelectLands
  <2> QED  BY <2>1, <2>2, Booting DEF OnScreen
<1>3. Formed'
  BY Fields DEF Formed, SelectLands
<1>4. Others'
  BY Fields, Nothing DEF Others, SelectLands
<1> QED  BY <1>1, <1>2, <1>3, <1>4, Parts

LEMMA EraseTyped ==
    ASSUME Typed, Erase
    PROVE  Typed'
<1>1. Stores'
  BY Fields, Shapes, Bounds, Leaving DEF Stores, Erase
<1>2. OnScreen'
  BY Screens DEF OnScreen, Erase
<1>3. Formed'
  BY Fields DEF Formed, Erase
<1>4. Others'
  BY Fields, Spent, Nothing, Shapes DEF Others, Erase
<1> QED  BY <1>1, <1>2, <1>3, <1>4, Parts

LEMMA EraseSweptTyped ==
    ASSUME Typed, EraseSwept
    PROVE  Typed'
<1>1. Stores'
  BY Fields, Shapes DEF Stores, EraseSwept, Swept, tabStore
<1>2. OnScreen'
  BY Fields DEF OnScreen, EraseSwept
<1>3. Formed'
  BY Fields DEF Formed, EraseSwept
<1>4. Others'
  BY Fields, Spent DEF Others, EraseSwept
<1> QED  BY <1>1, <1>2, <1>3, <1>4, Parts

LEMMA StepTyped == Typed /\ [Next]_vars => Typed'
<1> SUFFICES ASSUME Typed, [Next]_vars PROVE Typed'
  OBVIOUS
<1>1. CASE UNCHANGED vars
  BY <1>1 DEF vars, Typed, TypeOK, Owned
<1>2. CASE Next
  BY <1>2, LoadTyped, ReloadTyped, NewTabTyped, RequestFailsTyped, StoreFailsTyped,
     ResetElsewhereTyped, SubmitRegisterTyped, RegisterServedTyped, RegisterBackTyped,
     RegisterStoredTyped, RegisterUploadedTyped, SubmitLoginTyped, LoginServedTyped,
     LoginBackTyped, LoginOpenedTyped, SubmitUnlockTyped, UnlockOpenedTyped,
     UnlockServedTyped, UnlockBackTyped, OpenLinkTyped, SubmitResetTyped,
     ResetServedTyped, ResetBackTyped, SubmitCodeTyped, RecoverServedTyped,
     RecoverStoredTyped, RecoverUploadedTyped, BackupTyped, SubmitRestoreTyped,
     RestoreStoredTyped, LogoutTyped, SelectTyped, SelectLandsTyped, EraseTyped,
     EraseSweptTyped DEF Next
<1> QED  BY <1>1, <1>2
\* Keys and descriptors by their fields.
LEMMA Records ==
    /\ Gen \subseteq Nat
    /\ NoKey.pw = 0 /\ NoKey.salt = 0 /\ NoDesc.salt = 0
    /\ \A k \in Key : k.pw \in Nat /\ k.salt \in Nat
    /\ \A k, l \in Key : k.pw = l.pw /\ k.salt = l.salt => k = l
    /\ \A p, s : KeyOf(p, s).pw = p /\ KeyOf(p, s).salt = s
    /\ \A d \in Descriptor : d.salt \in Nat
    /\ \A s : DescOf(s).salt = s /\ DescOf(s) # NoDesc
BY DEF Gen, Key, KeyOf, NoKey, NoDesc, Descriptor, DescOf

\* What the screens hold.
LEMMA Views ==
    /\ Anonymous.acct = None /\ Anonymous.vault = NoVault
    /\ Restoring.acct = None /\ Restoring.vault = NoVault
    /\ NoVault.owner = None /\ NoVault.key = NoKey
    /\ \A a, d, t, k :
        /\ Unlocked(a, d, t, k).status = "unlocked"
        /\ Unlocked(a, d, t, k).acct = a /\ Unlocked(a, d, t, k).desc = d
        /\ Unlocked(a, d, t, k).vault.owner = a /\ Unlocked(a, d, t, k).vault.key = k
    /\ \A a, d, t, i :
        /\ Locked(a, d, t, i).acct = a /\ Locked(a, d, t, i).desc = d
        /\ Locked(a, d, t, i).vault = NoVault
BY DEF Anonymous, Restoring, NoVault, Unlocked, Locked

\* What Typed says of each account.
LEMMA PerAccount ==
    ASSUME Typed
    PROVE  \A x \in Accounts :
               /\ epoch[x] \in Nat /\ desc[x] \in Descriptor /\ desc[x].salt \in Nat
               /\ sealed[x] \in Key /\ stash[x] \in Key
               /\ sealed[x].pw \in Nat /\ stash[x].pw \in Nat
BY Fields, Records
------------------------------------------------------------------------------
(* One step of a patient user                                               *)

LEMMA Waits ==
    ASSUME ~Hasty
    PROVE  /\ MaySubmit => Usable /\ form = NoForm /\ pick = NoPick /\ sweep = None
           /\ MayLeave => Usable /\ form = NoForm /\ pick = NoPick /\ sweep = None
           /\ Usable => ui.status # "restoring"
           /\ Usable /\ ui.status = "unlocked" => ui.acct # None
BY DEF MaySubmit, MayLeave, Still, Usable, Complete

LEMMA PatientKept ==
    ASSUME ~Hasty, Inv, Typed', [Next]_vars
    PROVE  Patient'
<1>1. CASE Load
  <2>1. /\ form = NoForm /\ pick = NoPick /\ sweep = None /\ code.pw = 0
        /\ UNCHANGED <<form, pick, sweep, code>>
    BY <1>1 DEF Inv, Patient, Load
  <2>2. ui'.status # "restoring"
    BY <1>1 DEF Load, Anonymous, Shown, Unlocked, Locked
  <2> QED  BY <2>1, <2>2, Nothing DEF Patient
<1>2. CASE Reload \/ NewTab \/ (\E a \in Accounts, fresh \in BOOLEAN : OpenLink(a, fresh)) \/
          RestoreStored
  BY <1>2, Nothing DEF Patient, Reload, Cut, NewTab, OpenLink, RestoreStored
<1>3. CASE RequestFails \/ StoreFails \/ (\E a \in Accounts : ResetElsewhere(a))
  BY <1>3, Nothing DEF Inv, Patient, tabMemory, RequestFails, Rejected, StoreFails,
     ResetElsewhere
<1>4. CASE \E a \in Accounts : SubmitRegister(a)
  BY <1>4, Waits, Nothing DEF Patient, SubmitRegister
<1>5. CASE \E a \in Accounts, pw \in 1..MaxGen, keep \in BOOLEAN : SubmitLogin(a, pw, keep)
  BY <1>5, Fields, Waits, Nothing DEF Inv, Patient, SubmitLogin
<1>6. CASE (\E pw \in 1..MaxGen, keep \in BOOLEAN : SubmitUnlock(pw, keep)) \/ SubmitRestore
  BY <1>6, Waits, Nothing DEF Patient, SubmitUnlock, SubmitRestore
<1>7. CASE SubmitReset
  BY <1>7, Waits DEF Patient, SubmitReset
<1>8. CASE SubmitCode
  BY <1>8, Waits DEF Patient, SubmitCode
<1>9. CASE RegisterServed \/ RegisterBack \/ RegisterStored
  BY <1>9, Fields, Nothing DEF Inv, Patient, FormType, RegisterServed, RegisterBack,
     RegisterStored
<1>10. CASE RegisterUploaded \/ RecoverUploaded \/ RecoverStored
  BY <1>10, Fields, Waits, Nothing DEF Inv, Patient, FormType, Unlocked, disk, tabStore,
     RegisterUploaded, RecoverUploaded, RecoverStored
<1>11. CASE LoginServed
  <2>1. CASE form.key.pw = epoch[form.a]
    BY <1>11, <2>1, Fields, Nothing DEF Inv, Patient, FormType, LoginServed
  <2>2. CASE ~(form.key.pw = epoch[form.a])
    BY <1>11, <2>2, Nothing DEF Inv, Patient, LoginServed, Rejected
  <2> QED  BY <2>1, <2>2
<1>12. CASE LoginBack
  <2>1. CASE desc[form.a] = NoDesc
    BY <1>12, <2>1, Nothing DEF Inv, Patient, LoginBack, Locked
  <2>2. CASE ~(desc[form.a] = NoDesc)
    BY <1>12, <2>2, Fields, Nothing DEF Inv, Patient, FormType, LoginBack
  <2> QED  BY <2>1, <2>2
<1>13. CASE LoginOpened
  BY <1>13, Nothing DEF Inv, Patient, Unlocked, LoginOpened
<1>14. CASE UnlockOpened
  <2>1. CASE sealed[form.a] # form.key
    BY <1>14, <2>1, Nothing DEF Inv, Patient, UnlockOpened, Rejected
  <2>2. CASE sealed[form.a] = form.key
    BY <1>14, <2>2, Fields, Nothing DEF Inv, Patient, FormType, UiType, UnlockOpened, UnlockShown
  <2> QED  BY <2>1, <2>2
<1>15. CASE UnlockServed
  <2>1. CASE form.desc.named /\ form.key.pw = epoch[form.a]
    BY <1>15, <2>1, Fields, Nothing DEF Inv, Patient, FormType, UnlockServed
  <2>2. CASE ~(form.desc.named /\ form.key.pw = epoch[form.a])
    BY <1>15, <2>2, Nothing DEF Inv, Patient, UnlockServed, Rejected
  <2> QED  BY <2>1, <2>2
<1>16. CASE UnlockBack
  BY <1>16, Nothing DEF Inv, Patient, UnlockBack, UnlockShown
<1>17. CASE ResetServed
  <2>1. CASE epoch[form.a] < MaxGen
    BY <1>17, <2>1, Fields, Nothing DEF Inv, Patient, FormType, ResetServed
  <2>2. CASE ~(epoch[form.a] < MaxGen)
    BY <1>17, <2>2, Nothing DEF Inv, Patient, ResetServed, Rejected
  <2> QED  BY <2>1, <2>2
<1>18. CASE ResetBack
  BY <1>18, Nothing DEF Inv, Patient, UiType, ResetBack, Wiped
<1>19. CASE RecoverServed
  <2>1. CASE form.tok = epoch[form.a] /\ rec[form.a] # 0
    BY <1>19, <2>1, Fields, Nothing DEF Inv, Patient, FormType, RecoverServed
  <2>2. CASE ~(form.tok = epoch[form.a] /\ rec[form.a] # 0)
    BY <1>19, <2>2, Nothing DEF Inv, Patient, RecoverServed, Rejected
  <2> QED  BY <2>1, <2>2
<1>20. CASE Backup \/ Logout \/ Erase \/ EraseSwept
  BY <1>20, Waits, Nothing DEF Inv, Patient, Anonymous, tabMemory, Backup, Logout, Erase,
     EraseSwept
<1>21. CASE \E a \in Accounts : Select(a)
  BY <1>21, Waits, Nothing DEF Patient, Select, Wiped
<1>22. CASE SelectLands
  BY <1>22, Nothing DEF Inv, Patient, Unlocked, Locked, SelectLands, Shown
<1>23. CASE UNCHANGED vars
  BY <1>23 DEF Inv, Patient, vars
<1> QED  BY <1>1, <1>2, <1>3, <1>4, <1>5, <1>6, <1>7, <1>8, <1>9, <1>10, <1>11, <1>12,
   <1>13, <1>14, <1>15, <1>16, <1>17, <1>18, <1>19, <1>20, <1>21, <1>22, <1>23 DEF Next
------------------------------------------------------------------------------
(* What every step keeps: what it does, field by field, and then each part   *)
(* of the invariant it can disturb                                           *)

Agreeing ==
    /\ Screen
    /\ \A a \in Accounts : Ages(a)
    /\ FileAges /\ FormAges /\ CodeAges
    /\ Sweeping /\ ErasedIsGone /\ Current

LEMMA LoadKept ==
    ASSUME ~Hasty, Inv, Typed', Patient', Load
    PROVE  Agreeing'
<1>1. CASE active = None \/ desc[active] = NoDesc
  <2>1. /\ ui.status = "restoring"
        /\ ui' = Anonymous
        /\ UNCHANGED <<epoch, desc, active, sealed, stash, tok, form, pick, sweep, code,
               file, torn>>
    BY <1>1 DEF Load, disk
  <2> QED  BY <1>1, <2>1, Views DEF Agreeing, FormAges, Inv, Patient, Screen, Ages,
     HalfRestored, FileAges, Registering, LoggingIn, Unlocking, Resetting, Recovering,
     RestoringFile, Begun, CodeAges, Sweeping, ErasedIsGone, Current
<1>2. CASE active # None /\ desc[active] # NoDesc /\ Resumes(active, stash[active])
  <2>1. /\ ui.status = "restoring" /\ active \in Accounts
        /\ stash[active] # NoKey /\ sealed[active] = stash[active]
        /\ ui' = Unlocked(active, desc[active], tok[active], stash[active])
        /\ UNCHANGED <<epoch, desc, active, sealed, stash, tok, form, pick, sweep, code,
               file, torn>>
    BY <1>2, Fields DEF Inv, Load, Shown, Resumes, StashResumed, disk
  <2>2. Screen'
    BY <1>2, <2>1, Nothing, Views DEF Inv, Patient, Screen, Ages
  <2>3. (\A x \in Accounts : Ages(x))' /\ FileAges' /\ CodeAges' /\ Sweeping' /\
        ErasedIsGone' /\ Current' /\ FormAges'
    BY <1>2, <2>1, Nothing, Views DEF FormAges, Inv, Patient, Ages, HalfRestored, FileAges,
       Registering, LoggingIn, Unlocking, Resetting, Recovering, RestoringFile, CodeAges,
       Sweeping, ErasedIsGone, Current
  <2> QED  BY <2>2, <2>3 DEF Agreeing
<1>3. CASE active # None /\ desc[active] # NoDesc /\ ~Resumes(active, stash[active])
  <2>1. /\ ui.status = "restoring" /\ active \in Accounts
    BY <1>3, Fields DEF Inv, Load
  <2>2. /\ (\E i \in BOOLEAN : ui' = Locked(active, desc[active], tok[active], i))
    BY <1>3 DEF Load, Shown
  <2>3. /\ (\A x \in Accounts : stash'[x] \in {stash[x], NoKey})
    BY <1>3, Fields DEF Inv, Load, StashResumed
  <2>4. /\ UNCHANGED <<epoch, desc, active, sealed, tok, form, pick, sweep, code, file,
               torn>>
    BY <1>3 DEF Load, disk
  <2>5. Screen'
    BY <1>3, <2>1, <2>2, <2>3, <2>4, Nothing, Views DEF Inv, Patient, Screen
  <2>6. (\A x \in Accounts : Ages(x))'
    BY <1>3, <2>1, <2>2, <2>3, <2>4, PerAccount, Records DEF Inv, Ages, HalfRestored
  <2>7. FileAges' /\ CodeAges' /\ Sweeping' /\ ErasedIsGone' /\ Current'
    BY <1>3, <2>1, <2>2, <2>3, <2>4, Views DEF Inv, Patient, FileAges, CodeAges, Sweeping,
       ErasedIsGone, Current
  <2>8. FormAges'
    BY <1>3, <2>1, <2>2, <2>3, <2>4, Nothing DEF FormAges, Inv, Patient, Registering,
       LoggingIn, Unlocking, Resetting, Recovering, RestoringFile
  <2> QED  BY <2>5, <2>6, <2>7, <2>8 DEF Agreeing
<1> QED  BY <1>1, <1>2, <1>3

LEMMA ReloadKept ==
    ASSUME ~Hasty, Inv, Typed', Patient', Reload
    PROVE  Agreeing'
<1>1. /\ ui' = Restoring
      /\ form' = NoForm /\ pick' = NoPick /\ sweep' = None
      /\ code' = NoCode
      /\ (torn' = torn \cup (IF form.kind = "restore" THEN {form.a} ELSE {}) \cup (IF sweep
             # None THEN {sweep} ELSE {}))
      /\ UNCHANGED <<epoch, desc, active, sealed, stash, tok, file>>
  BY DEF Reload, Cut, disk, tabStore
<1> QED  BY <1>1, Nothing, Views DEF Agreeing, FormAges, Inv, Screen, Ages, HalfRestored,
   FileAges, Registering, LoggingIn, Unlocking, Resetting, Recovering, RestoringFile,
   CodeAges, Sweeping, ErasedIsGone, Current

LEMMA NewTabKept ==
    ASSUME ~Hasty, Inv, Typed', Patient', NewTab
    PROVE  Agreeing'
<1>1. /\ ui' = Restoring
      /\ form' = NoForm /\ pick' = NoPick /\ sweep' = None
      /\ code' = NoCode
      /\ (torn' = torn \cup (IF form.kind = "restore" THEN {form.a} ELSE {}) \cup (IF sweep
             # None THEN {sweep} ELSE {}))
      /\ (\A x \in Accounts : stash'[x] = NoKey /\ tok'[x] = 0)
      /\ UNCHANGED <<epoch, desc, active, sealed, file>>
  BY DEF NewTab, Cut, disk
<1> QED  BY <1>1, PerAccount, Records, Nothing, Views DEF Agreeing, FormAges, Inv, Screen,
   Ages, HalfRestored, FileAges, Registering, LoggingIn, Unlocking, Resetting, Recovering,
   RestoringFile, CodeAges, Sweeping, ErasedIsGone, Current

LEMMA RequestFailsKept ==
    ASSUME ~Hasty, Inv, Typed', Patient', RequestFails
    PROVE  Agreeing'
<1>1. /\ form.kind # "restore"
      /\ form' = NoForm
      /\ UNCHANGED <<epoch, desc, active, sealed, stash, tok, ui, pick, sweep, code, file,
             torn>>
  BY DEF Inv, Patient, RequestFails, Rejected, disk, tabStore
<1> QED  BY <1>1, Nothing DEF Agreeing, FormAges, Inv, Screen, Ages, HalfRestored, FileAges,
   Registering, LoggingIn, Unlocking, Resetting, Recovering, RestoringFile, CodeAges,
   Sweeping, ErasedIsGone, Current

LEMMA StoreFailsKept ==
    ASSUME ~Hasty, Inv, Typed', Patient', StoreFails
    PROVE  Agreeing'
<1>1. /\ form' = NoForm
      /\ (torn' = IF form.kind = "restore" THEN torn \cup {form.a} ELSE torn)
      /\ UNCHANGED <<epoch, desc, active, sealed, stash, tok, ui, pick, sweep, code, file>>
  BY DEF StoreFails, Rejected, disk, tabStore
<1> QED  BY <1>1, Nothing DEF Agreeing, FormAges, Inv, Screen, Ages, HalfRestored, FileAges,
   Registering, LoggingIn, Unlocking, Resetting, Recovering, RestoringFile, CodeAges,
   Sweeping, ErasedIsGone, Current

LEMMA ResetElsewhereKept ==
    ASSUME ~Hasty, Inv, Typed', Patient', NEW a \in Accounts, ResetElsewhere(a)
    PROVE  Agreeing'
<1>1. /\ epoch[a] # 0
      /\ (\A x \in Accounts : epoch'[x] = IF x = a THEN epoch[a] + 1 ELSE epoch[x])
      /\ UNCHANGED <<desc, active, sealed, stash, tok, ui, form, pick, sweep, code, file,
             torn>>
  BY Fields DEF Inv, ResetElsewhere, disk, tabStore, tabMemory
<1>2. Screen'
  BY <1>1, Fields, PerAccount, Records DEF Inv, Screen
<1>3. (\A x \in Accounts : Ages(x))'
  BY <1>1, PerAccount DEF Inv, Ages, HalfRestored
<1>4. FileAges'
  BY <1>1, Fields, PerAccount, Records DEF Inv, FileAges
<1>5. CodeAges' /\ Sweeping'
  BY <1>1, Fields, PerAccount, Records, Nothing DEF Inv, CodeAges, Sweeping
<1>6. ErasedIsGone'
  BY <1>1 DEF Inv, ErasedIsGone
<1>7. Current'
  BY <1>1, PerAccount DEF Inv, Screen, HalfRestored, Current
<1>8. FormAges'
  BY <1>1, Fields, PerAccount, Records, Views DEF FormAges, Inv, Registering, LoggingIn,
     Unlocking, Resetting, Recovering, RestoringFile, Begun, CodeAges
<1> QED  BY <1>2, <1>3, <1>4, <1>5, <1>6, <1>7, <1>8 DEF Agreeing

LEMMA SubmitRegisterKept ==
    ASSUME ~Hasty, Inv, Typed', Patient', NEW a \in Accounts, SubmitRegister(a)
    PROVE  Agreeing'
<1>1. /\ ui.status = "anonymous" /\ epoch[a] = 0 /\ form = NoForm
      /\ form'.kind = "register" /\ form'.at = "asked" /\ form'.a = a
      /\ code' = NoCode
      /\ UNCHANGED <<epoch, desc, active, sealed, stash, tok, ui, pick, sweep, file, torn>>
  BY Waits DEF SubmitRegister, disk, tabStore
<1> QED  BY <1>1, Fields, Records, Nothing DEF Agreeing, FormAges, Inv, Screen, Ages,
   HalfRestored, FileAges, Registering, LoggingIn, Unlocking, Resetting, Recovering,
   RestoringFile, CodeAges, Sweeping, ErasedIsGone, Current

LEMMA RegisterServedKept ==
    ASSUME ~Hasty, Inv, Typed', Patient', RegisterServed
    PROVE  Agreeing'
<1>1. /\ form.kind = "register" /\ form.at = "asked"
      /\ (\A x \in Accounts : epoch'[x] = IF x = form.a THEN 1 ELSE epoch[x])
      /\ form'.kind = form.kind /\ form'.at = "answered" /\ form'.a = form.a
      /\ form'.key = KeyOf(1, 1) /\ form'.tok = 1 /\ form'.desc = form.desc
      /\ UNCHANGED <<desc, active, sealed, stash, tok, ui, pick, sweep, code, file, torn>>
  BY Fields DEF Inv, RegisterServed, disk, tabStore
<1>2. Screen'
  BY <1>1 DEF Inv, Patient, Screen
<1>3. (\A x \in Accounts : Ages(x))'
  BY <1>1, PerAccount DEF Inv, Ages, HalfRestored, Registering, FormAges
<1>4. FileAges' /\ CodeAges' /\ Sweeping'
  BY <1>1, Fields, Records, Views DEF Inv, Patient, FileAges, Registering, FormAges,
     CodeAges, Sweeping
<1>5. ErasedIsGone'
  BY <1>1 DEF Inv, ErasedIsGone
<1>6. Current' /\ FormAges'
  BY <1>1, Fields DEF FormAges, Inv, Patient, Screen, Registering, LoggingIn, Unlocking,
     Resetting, Recovering, RestoringFile, Current
<1> QED  BY <1>2, <1>3, <1>4, <1>5, <1>6 DEF Agreeing

LEMMA RegisterBackKept ==
    ASSUME ~Hasty, Inv, Typed', Patient', RegisterBack
    PROVE  Agreeing'
<1>1. /\ form.kind = "register" /\ form.at = "answered"
      /\ (\A x \in Accounts : desc'[x] = IF x = form.a THEN DescOf(form.key.salt) ELSE
             desc[x])
      /\ form'.kind = form.kind /\ form'.at = "store" /\ form'.a = form.a
      /\ form'.key = form.key /\ form'.tok = form.tok /\ form'.desc = DescOf(form.key.salt)
      /\ UNCHANGED <<epoch, active, sealed, stash, tok, ui, pick, sweep, code, file, torn>>
  BY Fields DEF Inv, RegisterBack, tabStore
<1>2. Screen'
  BY <1>1, Fields, Records DEF Inv, Patient, Screen
<1>3. (\A x \in Accounts : Ages(x))'
  BY <1>1, PerAccount, Records DEF Inv, Ages, HalfRestored, Registering, FormAges
<1>4. FileAges' /\ CodeAges' /\ Sweeping'
  BY <1>1, Fields, Records DEF Inv, Patient, FileAges, CodeAges, Sweeping
<1>5. ErasedIsGone'
  BY <1>1, Records DEF Inv, ErasedIsGone, FormAges, Registering
<1>6. FormAges'
  BY <1>1, Fields, Records DEF FormAges, Inv, Registering, LoggingIn, Unlocking, Resetting,
     Recovering, RestoringFile
<1>7. Current'
  BY <1>1, Fields, Records DEF Inv, Patient, Screen, Current
<1> QED  BY <1>2, <1>3, <1>4, <1>5, <1>6, <1>7 DEF Agreeing

LEMMA RegisterStoredKept ==
    ASSUME ~Hasty, Inv, Typed', Patient', RegisterStored
    PROVE  Agreeing'
<1>1. /\ form.kind = "register" /\ form.at = "store"
      /\ (\A x \in Accounts : sealed'[x] = IF x = form.a THEN form.key ELSE sealed[x])
      /\ (\A x \in Accounts : stash'[x] = IF x = form.a THEN form.key ELSE stash[x])
      /\ (\A x \in Accounts : tok'[x] = IF x = form.a THEN form.tok ELSE tok[x])
      /\ active' = form.a
      /\ form'.kind = form.kind /\ form'.at = "upload" /\ form'.a = form.a
      /\ form'.key = form.key /\ form'.tok = form.tok /\ form'.desc = form.desc
      /\ UNCHANGED <<epoch, desc, ui, pick, sweep, code, file, torn>>
  BY Fields DEF Inv, RegisterStored
<1>2. Screen'
  BY <1>1 DEF Inv, Screen
<1>3. (\A x \in Accounts : Ages(x))'
  BY <1>1, Records DEF Inv, Ages, HalfRestored, Registering, FormAges
<1>4. FileAges' /\ CodeAges' /\ Sweeping' /\ ErasedIsGone' /\ Current'
  BY <1>1, Records DEF Inv, Patient, Screen, FileAges, Registering, FormAges, CodeAges,
     Sweeping, ErasedIsGone, Current
<1>5. FormAges'
  BY <1>1, Fields DEF FormAges, Inv, Registering, LoggingIn, Unlocking, Resetting,
     Recovering, RestoringFile
<1> QED  BY <1>2, <1>3, <1>4, <1>5 DEF Agreeing

LEMMA RegisterUploadedKept ==
    ASSUME ~Hasty, Inv, Typed', Patient', RegisterUploaded
    PROVE  Agreeing'
<1>1. CASE form.tok = epoch[form.a]
  <2>1. /\ form.kind = "register" /\ form.at = "upload"
        /\ ui' = Unlocked(form.a, form.desc, form.tok, form.key)
        /\ form' = NoForm
        /\ UNCHANGED <<epoch, desc, active, sealed, stash, tok, pick, sweep, code, file,
               torn>>
    BY <1>1 DEF RegisterUploaded, disk, tabStore
  <2>2. Screen'
    BY <1>1, <2>1, Fields, PerAccount, Records, Nothing, Views DEF Inv, Patient, Screen,
       Registering, FormAges
  <2>3. (\A x \in Accounts : Ages(x))' /\ FileAges' /\ CodeAges' /\ Sweeping' /\
        ErasedIsGone' /\ Current' /\ FormAges'
    BY <1>1, <2>1, Nothing, Views DEF FormAges, Inv, Patient, Ages, HalfRestored, FileAges,
       Registering, LoggingIn, Unlocking, Resetting, Recovering, RestoringFile, CodeAges,
       Sweeping, ErasedIsGone, Current
  <2> QED  BY <2>2, <2>3 DEF Agreeing
<1>2. CASE form.tok # epoch[form.a]
  <2>1. /\ form.kind = "register" /\ form.at = "upload"
        /\ form' = NoForm
        /\ UNCHANGED <<epoch, desc, active, sealed, stash, tok, ui, pick, sweep, code, file,
               torn>>
    BY <1>2 DEF RegisterUploaded, disk, tabStore
  <2> QED  BY <1>2, <2>1, Nothing DEF Agreeing, FormAges, Inv, Screen, Ages, HalfRestored,
     FileAges, Registering, LoggingIn, Unlocking, Resetting, Recovering, RestoringFile,
     CodeAges, Sweeping, ErasedIsGone, Current
<1> QED  BY <1>1, <1>2

LEMMA SubmitLoginKept ==
    ASSUME ~Hasty, Inv, Typed', Patient', NEW a \in Accounts, NEW pw \in 1..MaxGen, NEW keep \in BOOLEAN,
           SubmitLogin(a, pw, keep)
    PROVE  Agreeing'
<1>1. /\ ui.status = "anonymous" /\ form = NoForm
      /\ form'.kind = "login" /\ form'.at = "asked" /\ form'.a = a
      /\ form'.key = KeyOf(pw, 0) /\ pw # 0
      /\ code' = NoCode
      /\ UNCHANGED <<epoch, desc, active, sealed, stash, tok, ui, pick, sweep, file, torn>>
  BY Waits DEF SubmitLogin, disk, tabStore
<1> QED  BY <1>1, Records, Nothing DEF Agreeing, FormAges, Inv, Screen, Ages, HalfRestored,
   FileAges, Registering, LoggingIn, Unlocking, Resetting, Recovering, RestoringFile,
   CodeAges, Sweeping, ErasedIsGone, Current

LEMMA LoginServedKept ==
    ASSUME ~Hasty, Inv, Typed', Patient', LoginServed
    PROVE  Agreeing'
<1>1. CASE form.key.pw = epoch[form.a]
  <2>1. form' = [form EXCEPT !.at = "answered", !.tok = epoch[form.a],
                     !.key = KeyOf(form.key.pw, epoch[form.a])]
    BY <1>1 DEF LoginServed
  <2>2. /\ form.kind = "login" /\ form.at = "asked"
        /\ form'.kind = form.kind /\ form'.at = "answered" /\ form'.a = form.a
        /\ form'.key = KeyOf(form.key.pw, epoch[form.a]) /\ form'.tok = epoch[form.a]
        /\ form'.desc = form.desc
        /\ UNCHANGED <<epoch, desc, active, sealed, stash, tok, ui, pick, sweep, code, file,
               torn>>
    BY <1>1, <2>1 DEF LoginServed, disk, tabStore
  <2>3. Screen' /\ (\A x \in Accounts : Ages(x))' /\ FileAges' /\ CodeAges' /\ Sweeping'
        /\ ErasedIsGone' /\ Current' /\ Registering' /\ Unlocking' /\ Resetting' /\
        Recovering' /\ RestoringFile'
    BY <1>1, <2>2 DEF Inv, Screen, Ages, HalfRestored, FileAges, Registering, Unlocking,
       Resetting, Recovering, RestoringFile, CodeAges, Sweeping, ErasedIsGone, Current
  <2>4. LoggingIn'
    BY <1>1, <2>2, Fields, Records DEF Inv, Ages, LoggingIn, FormAges, Begun
  <2> QED  BY <2>3, <2>4 DEF Agreeing, FormAges
<1>2. CASE form.key.pw # epoch[form.a]
  <2>1. /\ form.kind = "login" /\ form.at = "asked"
        /\ form' = NoForm
        /\ UNCHANGED <<epoch, desc, active, sealed, stash, tok, ui, pick, sweep, code, file,
               torn>>
    BY <1>2 DEF LoginServed, Rejected, disk, tabStore
  <2> QED  BY <1>2, <2>1, Nothing DEF Agreeing, FormAges, Inv, Screen, Ages, HalfRestored,
     FileAges, Registering, LoggingIn, Unlocking, Resetting, Recovering, RestoringFile,
     CodeAges, Sweeping, ErasedIsGone, Current
<1> QED  BY <1>1, <1>2

LEMMA LoginBackKept ==
    ASSUME ~Hasty, Inv, Typed', Patient', LoginBack
    PROVE  Agreeing'
<1>1. CASE desc[form.a] = NoDesc
  <2>1. /\ form.kind = "login" /\ form.at = "answered"
        /\ (\A x \in Accounts : desc'[x] = IF x = form.a THEN DescOf(form.key.salt) ELSE
               desc[x])
        /\ (\A x \in Accounts : tok'[x] = IF x = form.a THEN form.tok ELSE tok[x])
        /\ active' = form.a /\ torn' = torn \ {form.a}
        /\ ui'.status = "locked" /\ ui'.acct = form.a /\ ui'.desc = DescOf(form.key.salt)
        /\ ui'.vault = NoVault
        /\ form' = NoForm
        /\ UNCHANGED <<epoch, sealed, stash, pick, sweep, code, file>>
    BY <1>1, Fields DEF Inv, LoginBack, Locked
  <2>2. Screen'
    BY <1>1, <2>1, Records, Nothing, Views DEF Inv, Patient, Screen
  <2>3. (\A x \in Accounts : Ages(x))' /\ Sweeping' /\ ErasedIsGone'
    BY <1>1, <2>1, Records DEF Inv, Patient, Ages, HalfRestored, LoggingIn, FormAges, Begun,
       Sweeping, ErasedIsGone
  <2>4. FileAges' /\ CodeAges'
    BY <1>1, <2>1 DEF Inv, Patient, FileAges, CodeAges
  <2>5. Current'
    BY <1>1, <2>1, Views DEF Current
  <2>6. FormAges'
    BY <1>1, <2>1, Nothing DEF FormAges, Registering, LoggingIn, Unlocking, Resetting,
       Recovering, RestoringFile
  <2> QED  BY <2>2, <2>3, <2>4, <2>5, <2>6 DEF Agreeing
<1>2. CASE desc[form.a] # NoDesc
  <2>1. form' = [form EXCEPT !.at = "open", !.desc = DescOf(form.key.salt)]
    BY <1>2 DEF LoginBack
  <2>2. /\ form.kind = "login" /\ form.at = "answered"
        /\ (\A x \in Accounts : desc'[x] = IF x = form.a THEN DescOf(form.key.salt) ELSE
               desc[x])
        /\ (\A x \in Accounts : tok'[x] = IF x = form.a THEN form.tok ELSE tok[x])
        /\ active' = form.a /\ torn' = torn \ {form.a}
        /\ form'.kind = form.kind /\ form'.at = "open" /\ form'.a = form.a
        /\ form'.key = form.key /\ form'.tok = form.tok
        /\ form'.desc = DescOf(form.key.salt)
        /\ UNCHANGED <<epoch, sealed, stash, ui, pick, sweep, code, file>>
    BY <1>2, Fields, <2>1 DEF Inv, LoginBack
  <2> QED  BY <1>2, <2>2, Fields, Records DEF Agreeing, FormAges, Inv, Patient, Screen,
     Ages, HalfRestored, FileAges, Registering, LoggingIn, Unlocking, Resetting, Recovering,
     RestoringFile, Begun, CodeAges, Sweeping, ErasedIsGone, Current
<1> QED  BY <1>1, <1>2

LEMMA LoginOpenedKept ==
    ASSUME ~Hasty, Inv, Typed', Patient', LoginOpened
    PROVE  Agreeing'
<1>1. CASE sealed[form.a] = form.key
  <2>1. /\ form.kind = "login" /\ form.at = "open"
        /\ ui' = Unlocked(form.a, form.desc, form.tok, form.key)
        /\ (\A x \in Accounts : stash'[x] = stash[x] \/ (x = form.a /\ stash'[x] =
               form.key))
        /\ form' = NoForm
        /\ UNCHANGED <<epoch, desc, active, sealed, tok, pick, sweep, code, file, torn>>
    BY <1>1, Fields DEF Inv, LoginOpened, disk
  <2>2. Screen'
    BY <1>1, <2>1, Fields, Nothing, Views DEF Inv, Patient, Screen, LoggingIn, FormAges,
       Begun
  <2>3. (\A x \in Accounts : Ages(x))' /\ FileAges' /\ CodeAges' /\ Sweeping' /\
        ErasedIsGone' /\ Current' /\ FormAges'
    BY <1>1, <2>1, Nothing, Views DEF FormAges, Inv, Patient, Ages, HalfRestored, FileAges,
       Registering, LoggingIn, Unlocking, Resetting, Recovering, RestoringFile, CodeAges,
       Sweeping, ErasedIsGone, Current
  <2> QED  BY <2>2, <2>3 DEF Agreeing
<1>2. CASE sealed[form.a] # form.key
  <2>1. /\ form.kind = "login" /\ form.at = "open"
        /\ form' = NoForm
        /\ UNCHANGED <<epoch, desc, active, sealed, stash, tok, ui, pick, sweep, code, file,
               torn>>
    BY <1>2 DEF LoginOpened, disk
  <2> QED  BY <1>2, <2>1, Nothing DEF Agreeing, FormAges, Inv, Screen, Ages, HalfRestored,
     FileAges, Registering, LoggingIn, Unlocking, Resetting, Recovering, RestoringFile,
     CodeAges, Sweeping, ErasedIsGone, Current
<1> QED  BY <1>1, <1>2

LEMMA SubmitUnlockKept ==
    ASSUME ~Hasty, Inv, Typed', Patient', NEW pw \in 1..MaxGen, NEW keep \in BOOLEAN,
           SubmitUnlock(pw, keep)
    PROVE  Agreeing'
<1>1. /\ ui.status = "locked" /\ form = NoForm /\ desc[ui.acct] # NoDesc
      /\ pw <= epoch[ui.acct]
      /\ form'.kind = "unlock" /\ form'.at = "open" /\ form'.a = ui.acct
      /\ form'.key = KeyOf(pw, desc[ui.acct].salt)
      /\ code' = NoCode
      /\ UNCHANGED <<epoch, desc, active, sealed, stash, tok, ui, pick, sweep, file, torn>>
  BY Waits DEF SubmitUnlock, disk, tabStore
<1> QED  BY <1>1, Records, Nothing DEF Agreeing, FormAges, Inv, Screen, Ages, HalfRestored,
   FileAges, Registering, LoggingIn, Unlocking, Resetting, Recovering, RestoringFile,
   CodeAges, Sweeping, ErasedIsGone, Current

LEMMA UnlockOpenedKept ==
    ASSUME ~Hasty, Inv, Typed', Patient', UnlockOpened
    PROVE  Agreeing'
<1>1. CASE sealed[form.a] # form.key
  <2>1. /\ form.kind = "unlock" /\ form.at = "open"
        /\ form' = NoForm
        /\ UNCHANGED <<epoch, desc, active, sealed, stash, tok, ui, pick, sweep, code, file,
               torn>>
    BY <1>1 DEF UnlockOpened, Rejected, disk
  <2> QED  BY <1>1, <2>1, Nothing DEF Agreeing, FormAges, Inv, Screen, Ages, HalfRestored,
     FileAges, Registering, LoggingIn, Unlocking, Resetting, Recovering, RestoringFile,
     CodeAges, Sweeping, ErasedIsGone, Current
<1>2. CASE sealed[form.a] = form.key /\ form.tok # 0
  <2>1. ui' = UnlockShown(form.tok)
    BY <1>2 DEF UnlockOpened
  <2>2. stash' = stash \/ stash' = [stash EXCEPT ![form.a] = form.key]
    BY <1>2 DEF UnlockOpened
  <2>3. /\ form.kind = "unlock" /\ form.at = "open"
        /\ ui'.status = "unlocked" /\ ui'.acct = ui.acct /\ ui'.desc = ui.desc
        /\ ui'.vault.owner = form.a /\ ui'.vault.key = form.key
        /\ (\A x \in Accounts : stash'[x] = stash[x] \/ (x = form.a /\ stash'[x] =
               form.key))
        /\ form' = NoForm
        /\ UNCHANGED <<epoch, desc, active, sealed, tok, pick, sweep, code, file, torn>>
    BY <1>2, Fields, <2>1 DEF Inv, UnlockOpened, UnlockShown, disk
  <2> QED  BY <1>2, <2>3, Fields, PerAccount, Nothing DEF Agreeing, FormAges, Inv, Patient,
     Screen, Ages, HalfRestored, FileAges, Registering, LoggingIn, Unlocking, Resetting,
     Recovering, RestoringFile, CodeAges, Sweeping, ErasedIsGone, Current
<1>3. CASE sealed[form.a] = form.key /\ form.tok = 0
  <2>1. /\ form.kind = "unlock" /\ form.at = "open"
        /\ (\A x \in Accounts : stash'[x] = stash[x] \/ (x = form.a /\ stash'[x] =
               form.key))
        /\ form'.kind = form.kind /\ form'.at = "asked" /\ form'.a = form.a
        /\ form'.key = form.key /\ form'.tok = form.tok /\ form'.desc = form.desc
        /\ UNCHANGED <<epoch, desc, active, sealed, tok, ui, pick, sweep, code, file, torn>>
    BY <1>3, Fields DEF Inv, UnlockOpened, disk, FormType
  <2>2. Screen'
    BY <1>3, <2>1 DEF Inv, Screen
  <2>3. (\A x \in Accounts : Ages(x))'
    BY <1>3, <2>1 DEF Inv, Ages, HalfRestored
  <2>4. FileAges' /\ CodeAges' /\ Sweeping' /\ ErasedIsGone' /\ Current'
    BY <1>3, <2>1 DEF Inv, Patient, HalfRestored, FileAges, CodeAges, Sweeping,
       ErasedIsGone, Current
  <2>5. FormAges'
    BY <1>3, <2>1 DEF FormAges, Inv, Registering, LoggingIn, Unlocking, Resetting,
       Recovering, RestoringFile
  <2> QED  BY <2>2, <2>3, <2>4, <2>5 DEF Agreeing
<1> QED  BY <1>1, <1>2, <1>3

LEMMA UnlockServedKept ==
    ASSUME ~Hasty, Inv, Typed', Patient', UnlockServed
    PROVE  Agreeing'
<1>1. CASE form.desc.named /\ form.key.pw = epoch[form.a]
  <2>1. form' = [form EXCEPT !.at = "answered", !.tok = epoch[form.a]]
    BY <1>1 DEF UnlockServed
  <2>2. /\ form.kind = "unlock" /\ form.at = "asked"
        /\ form'.kind = form.kind /\ form'.at = "answered" /\ form'.a = form.a
        /\ form'.key = form.key /\ form'.tok = epoch[form.a] /\ form'.desc = form.desc
        /\ UNCHANGED <<epoch, desc, active, sealed, stash, tok, ui, pick, sweep, code, file,
               torn>>
    BY <1>1, <2>1 DEF UnlockServed, disk, tabStore
  <2> QED  BY <1>1, <2>2 DEF Agreeing, FormAges, Inv, Screen, Ages, HalfRestored, FileAges,
     Registering, LoggingIn, Unlocking, Resetting, Recovering, RestoringFile, CodeAges,
     Sweeping, ErasedIsGone, Current
<1>2. CASE ~(form.desc.named /\ form.key.pw = epoch[form.a])
  <2>1. /\ form.kind = "unlock" /\ form.at = "asked"
        /\ form' = NoForm
        /\ UNCHANGED <<epoch, desc, active, sealed, stash, tok, ui, pick, sweep, code, file,
               torn>>
    BY <1>2 DEF UnlockServed, Rejected, disk, tabStore
  <2> QED  BY <1>2, <2>1, Nothing DEF Agreeing, FormAges, Inv, Screen, Ages, HalfRestored,
     FileAges, Registering, LoggingIn, Unlocking, Resetting, Recovering, RestoringFile,
     CodeAges, Sweeping, ErasedIsGone, Current
<1> QED  BY <1>1, <1>2

LEMMA UnlockBackKept ==
    ASSUME ~Hasty, Inv, Typed', Patient', UnlockBack
    PROVE  Agreeing'
<1>1. /\ form.kind = "unlock" /\ form.at = "answered"
      /\ (\A x \in Accounts : tok'[x] = IF x = form.a THEN form.tok ELSE tok[x])
      /\ ui'.status = "unlocked" /\ ui'.acct = ui.acct /\ ui'.desc = ui.desc
      /\ ui'.vault.owner = form.a /\ ui'.vault.key = form.key
      /\ form' = NoForm
      /\ UNCHANGED <<epoch, desc, active, sealed, stash, pick, sweep, code, file, torn>>
  BY Fields DEF Inv, UnlockBack, UnlockShown, disk
<1> QED  BY <1>1, Fields, Nothing DEF Agreeing, FormAges, Inv, Patient, Screen, Ages,
   HalfRestored, FileAges, Registering, LoggingIn, Unlocking, Resetting, Recovering,
   RestoringFile, CodeAges, Sweeping, ErasedIsGone, Current

LEMMA OpenLinkKept ==
    ASSUME ~Hasty, Inv, Typed', Patient', NEW a \in Accounts, NEW fresh \in BOOLEAN,
           OpenLink(a, fresh)
    PROVE  Agreeing'
<1>1. /\ ui' = Restoring
      /\ form' = NoForm /\ pick' = NoPick /\ sweep' = None
      /\ code'.pw = 0
      /\ (torn' = torn \cup (IF form.kind = "restore" THEN {form.a} ELSE {}) \cup (IF sweep
             # None THEN {sweep} ELSE {}))
      /\ (\A x \in Accounts : stash'[x] \in {stash[x], NoKey} /\ tok'[x] \in {tok[x], 0})
      /\ UNCHANGED <<epoch, desc, active, sealed, file>>
  BY DEF OpenLink, Cut, disk, tabStore
<1>2. Screen'
  BY <1>1, Nothing, Views DEF Screen
<1>3. (\A x \in Accounts : Ages(x))'
  BY <1>1, PerAccount, Nothing, Records DEF Inv, Ages, HalfRestored
<1>4. FileAges' /\ CodeAges' /\ Sweeping'
  BY <1>1 DEF Inv, FileAges, CodeAges, Sweeping
<1>5. ErasedIsGone'
  BY <1>1 DEF Inv, ErasedIsGone
<1>6. Current' /\ FormAges'
  BY <1>1, Nothing, Views DEF FormAges, Registering, LoggingIn, Unlocking, Resetting,
     Recovering, RestoringFile, Current
<1> QED  BY <1>2, <1>3, <1>4, <1>5, <1>6 DEF Agreeing

LEMMA SubmitResetKept ==
    ASSUME ~Hasty, Inv, Typed', Patient', SubmitReset
    PROVE  Agreeing'
<1>1. /\ form = NoForm
      /\ form'.kind = "reset" /\ form'.at = "asked" /\ form'.a = code.a
      /\ UNCHANGED <<epoch, desc, active, sealed, stash, tok, ui, pick, sweep, code, file,
             torn>>
  BY Waits DEF SubmitReset, disk, tabStore
<1> QED  BY <1>1, Nothing DEF Agreeing, FormAges, Inv, Screen, Ages, HalfRestored, FileAges,
   Registering, LoggingIn, Unlocking, Resetting, Recovering, RestoringFile, CodeAges,
   Sweeping, ErasedIsGone, Current

LEMMA ResetServedKept ==
    ASSUME ~Hasty, Inv, Typed', Patient', ResetServed
    PROVE  Agreeing'
<1>1. CASE epoch[form.a] < MaxGen
  <2>1. epoch' = [epoch EXCEPT ![form.a] = @ + 1]
    BY <1>1 DEF ResetServed
  <2>2. form.a \in Accounts /\ epoch \in [Accounts -> Gen]
    BY Fields DEF Inv, ResetServed
  <2>3. epoch'[form.a] = epoch[form.a] + 1
    BY <2>1, <2>2
  <2>4. form' = [form EXCEPT !.at = "answered", !.tok = epoch'[form.a],
                     !.key = KeyOf(epoch'[form.a], epoch'[form.a])]
    BY <1>1 DEF ResetServed
  <2>5. /\ form.kind = "reset" /\ form.at = "asked"
        /\ (\A x \in Accounts : epoch'[x] = IF x = form.a THEN epoch[form.a] + 1 ELSE
               epoch[x])
        /\ form'.kind = form.kind /\ form'.at = "answered" /\ form'.a = form.a
        /\ form'.key = KeyOf(epoch[form.a] + 1, epoch[form.a] + 1)
        /\ form'.tok = epoch[form.a] + 1 /\ form'.desc = form.desc
        /\ UNCHANGED <<desc, active, sealed, stash, tok, ui, pick, sweep, code, file, torn>>
    BY <1>1, Fields, <2>4 DEF Inv, ResetServed, disk, tabStore
  <2>6. Screen'
    BY <1>1, <2>5, Fields, PerAccount, Records DEF Inv, Screen
  <2>7. (\A x \in Accounts : Ages(x))'
    BY <1>1, <2>5, PerAccount DEF Inv, Ages, HalfRestored
  <2>8. FileAges'
    BY <1>1, <2>5, Fields, PerAccount, Records DEF Inv, FileAges
  <2>9. CodeAges' /\ Sweeping' /\ ErasedIsGone'
    BY <1>1, <2>5, Fields, PerAccount, Records, Nothing DEF Inv, CodeAges, Sweeping,
       ErasedIsGone
  <2>10. Current'
    BY <1>1, <2>5, PerAccount DEF Inv, Screen, HalfRestored, Current
  <2>11. FormAges'
    BY <1>1, <2>5, Fields, PerAccount, Records DEF FormAges, Inv, Ages, Registering,
       LoggingIn, Unlocking, Resetting, Recovering, RestoringFile, Begun
  <2> QED  BY <2>6, <2>7, <2>8, <2>9, <2>10, <2>11 DEF Agreeing
<1>2. CASE ~(epoch[form.a] < MaxGen)
  <2>1. /\ form.kind = "reset" /\ form.at = "asked"
        /\ form' = NoForm
        /\ UNCHANGED <<epoch, desc, active, sealed, stash, tok, ui, pick, sweep, code, file,
               torn>>
    BY <1>2 DEF ResetServed, Rejected, disk, tabStore
  <2> QED  BY <1>2, <2>1, Nothing DEF Agreeing, FormAges, Inv, Screen, Ages, HalfRestored,
     FileAges, Registering, LoggingIn, Unlocking, Resetting, Recovering, RestoringFile,
     CodeAges, Sweeping, ErasedIsGone, Current
<1> QED  BY <1>1, <1>2

LEMMA ResetBackKept ==
    ASSUME ~Hasty, Inv, Typed', Patient', ResetBack
    PROVE  Agreeing'
<1>1. /\ form.kind = "reset" /\ form.at = "answered"
      /\ \A x \in Accounts : IF x = form.a THEN desc'[x].salt = form.key.salt
                             ELSE desc'[x] = desc[x]
      /\ (\A x \in Accounts : tok'[x] = IF x = form.a THEN form.tok ELSE tok[x])
      /\ active' = form.a /\ torn' = torn \ {form.a}
      /\ (\A x \in Accounts : stash'[x] \in {stash[x], NoKey})
      /\ ui'.status = ui.status /\ ui'.acct = ui.acct /\ ui'.desc = ui.desc
      /\ ui'.vault.owner = ui.vault.owner /\ ui'.vault.key = NoKey
      /\ pick' # NoPick /\ pick'.a = form.a /\ pick'.desc = desc'[form.a]
      /\ pick'.tok = form.tok /\ pick'.key = stash'[form.a]
      /\ code'.a = form.a /\ code'.pw = form.key.pw
      /\ form' = NoForm
      /\ UNCHANGED <<epoch, sealed, sweep, file>>
  BY SessionAssumption, Fields DEF Inv, ResetBack, StashLocked, Wiped, ParkedDesc, UiType,
     Vault, NoPick
<1>2. Screen'
  BY <1>1, Fields, Records DEF Inv, Patient, Screen, Resetting, FormAges, Begun
<1>3. (\A x \in Accounts : Ages(x))'
  <2>1. /\ form.a \in Accounts /\ form.key.pw \in Nat
        /\ form.key.pw = form.key.salt /\ form.key.pw <= epoch[form.a]
        /\ sealed[form.a].pw < form.key.pw
    BY <1>1, Fields, Records DEF Inv, FormAges, Resetting, Begun
  <2>2. \A x \in Accounts : stash'[x].pw \in {stash[x].pw, 0} /\ epoch[x] \in Nat
    BY <1>1, Records, PerAccount DEF Inv
  <2>3. ASSUME NEW x \in Accounts, x = form.a
        PROVE  Ages(x)'
    BY <1>1, <2>1, <2>2, <2>3, PerAccount DEF Inv, Ages
  <2>4. ASSUME NEW x \in Accounts, x # form.a
        PROVE  Ages(x)'
    <3>1. HalfRestored(x) <=> HalfRestored(x)'
      BY <1>1, <2>4, Nothing DEF HalfRestored
    <3>2. desc'[x] = desc[x] /\ epoch' = epoch /\ sealed' = sealed /\ Ages(x)
      BY <1>1, <2>4 DEF Inv
    <3> QED  BY <2>2, <2>4, <3>1, <3>2 DEF Ages
  <2> QED  BY <2>3, <2>4
<1>4. FileAges' /\ Sweeping' /\ ErasedIsGone'
  BY <1>1, Records DEF Inv, Patient, FileAges, Resetting, FormAges, Begun, Sweeping,
     ErasedIsGone
<1>5. CodeAges'
  <2>1. /\ form.a \in Accounts /\ form.key.pw \in Nat /\ form.key.pw # 0
        /\ form.key.pw = form.key.salt /\ form.key.pw <= epoch[form.a]
        /\ stash[form.a].pw < form.key.pw
    BY <1>1, Fields, Records DEF Inv, FormAges, Resetting, Begun
  <2>2. /\ code'.a = form.a /\ code'.pw = form.key.pw /\ epoch' = epoch
        /\ pick' # NoPick /\ pick'.a = form.a /\ pick'.desc.salt = form.key.pw
    BY <1>1, <2>1
  <2>3. pick'.key.pw < form.key.pw
    <3>1. pick'.key \in {stash[form.a], NoKey}
      BY <1>1, <2>1
    <3> QED  BY <2>1, <3>1, Records
  <2> QED  BY <2>1, <2>2, <2>3 DEF CodeAges
<1>6. Current'
  BY <1>1 DEF Current
<1>7. FormAges'
  BY <1>1, Nothing DEF FormAges, Registering, LoggingIn, Unlocking, Resetting, Recovering,
     RestoringFile
<1> QED  BY <1>2, <1>3, <1>4, <1>5, <1>6, <1>7 DEF Agreeing

LEMMA SubmitCodeKept ==
    ASSUME ~Hasty, Inv, Typed', Patient', SubmitCode
    PROVE  Agreeing'
<1>1. /\ form = NoForm /\ pick = NoPick /\ code.pw # 0 /\ ui.acct \in Accounts
      /\ form'.kind = "recover" /\ form'.at = "asked" /\ form'.a = ui.acct
      /\ form'.key = KeyOf(code.pw, ui.desc.salt) /\ form'.desc = ui.desc
      /\ UNCHANGED <<epoch, desc, active, sealed, stash, tok, ui, pick, sweep, code, file,
             torn>>
  BY Fields, Waits DEF Inv, SubmitCode, RebuiltSalt, disk, tabStore
<1> QED  BY <1>1, Records DEF Agreeing, FormAges, Inv, Patient, Screen, Ages, HalfRestored,
   FileAges, Registering, LoggingIn, Unlocking, Resetting, Recovering, RestoringFile, Begun,
   CodeAges, Sweeping, ErasedIsGone, Current

LEMMA RecoverServedKept ==
    ASSUME ~Hasty, Inv, Typed', Patient', RecoverServed
    PROVE  Agreeing'
<1>1. CASE form.tok = epoch[form.a] /\ rec[form.a] # 0
  <2>1. /\ form.kind = "recover" /\ form.at = "asked"
        /\ form'.kind = form.kind /\ form'.at = "store" /\ form'.a = form.a
        /\ form'.key = form.key /\ form'.tok = form.tok /\ form'.desc = form.desc
        /\ UNCHANGED <<epoch, desc, active, sealed, stash, tok, ui, pick, sweep, code, file,
               torn>>
    BY <1>1, Fields DEF Inv, RecoverServed, disk, tabStore, FormType
  <2> QED  BY <1>1, <2>1 DEF Agreeing, FormAges, Inv, Screen, Ages, HalfRestored, FileAges,
     Registering, LoggingIn, Unlocking, Resetting, Recovering, RestoringFile, Begun,
     CodeAges, Sweeping, ErasedIsGone, Current
<1>2. CASE ~(form.tok = epoch[form.a] /\ rec[form.a] # 0)
  <2>1. /\ form.kind = "recover" /\ form.at = "asked"
        /\ form' = NoForm
        /\ UNCHANGED <<epoch, desc, active, sealed, stash, tok, ui, pick, sweep, code, file,
               torn>>
    BY <1>2 DEF RecoverServed, Rejected, disk, tabStore
  <2> QED  BY <1>2, <2>1, Nothing DEF Agreeing, FormAges, Inv, Screen, Ages, HalfRestored,
     FileAges, Registering, LoggingIn, Unlocking, Resetting, Recovering, RestoringFile,
     CodeAges, Sweeping, ErasedIsGone, Current
<1> QED  BY <1>1, <1>2

LEMMA RecoverStoredKept ==
    ASSUME ~Hasty, Inv, Typed', Patient', RecoverStored
    PROVE  Agreeing'
<1>1. /\ form.kind = "recover" /\ form.at = "store"
      /\ (\A x \in Accounts : sealed'[x] = IF x = form.a THEN form.key ELSE sealed[x])
      /\ (\A x \in Accounts : stash'[x] = IF x = form.a THEN form.key ELSE stash[x])
      /\ (\A x \in Accounts : desc'[x] = IF x = form.a THEN form.desc ELSE desc[x])
      /\ form'.kind = form.kind /\ form'.at = "upload" /\ form'.a = form.a
      /\ form'.key = form.key /\ form'.tok = form.tok /\ form'.desc = form.desc
      /\ UNCHANGED <<epoch, active, tok, ui, pick, sweep, code, file, torn>>
  BY Fields DEF Inv, RecoverStored
<1> QED  BY <1>1, Fields, Records, Views, SMTT(30) DEF Agreeing, FormAges, Inv, Patient, Screen, Ages,
   HalfRestored, FileAges, Registering, LoggingIn, Unlocking, Resetting, Recovering,
   RestoringFile, Begun, CodeAges, Sweeping, ErasedIsGone, Current

LEMMA RecoverUploadedKept ==
    ASSUME ~Hasty, Inv, Typed', Patient', RecoverUploaded
    PROVE  Agreeing'
<1>1. CASE form.tok = epoch[form.a]
  <2>1. /\ form.kind = "recover" /\ form.at = "upload"
        /\ ui' = Unlocked(form.a, form.desc, form.tok, form.key)
        /\ form' = NoForm /\ code' = NoCode
        /\ UNCHANGED <<epoch, desc, active, sealed, stash, tok, pick, sweep, file, torn>>
    BY <1>1 DEF RecoverUploaded, disk, tabStore
  <2>2. Screen'
    BY <1>1, <2>1, Fields, Nothing, Views DEF Inv, Patient, Screen, Recovering, FormAges,
       Begun
  <2>3. (\A x \in Accounts : Ages(x))' /\ FileAges' /\ CodeAges' /\ Sweeping' /\
        ErasedIsGone' /\ Current' /\ FormAges'
    BY <1>1, <2>1, Nothing, Views DEF FormAges, Inv, Ages, HalfRestored, FileAges,
       Registering, LoggingIn, Unlocking, Resetting, Recovering, RestoringFile, CodeAges,
       Sweeping, ErasedIsGone, Current
  <2> QED  BY <2>2, <2>3 DEF Agreeing
<1>2. CASE form.tok # epoch[form.a]
  <2>1. /\ form.kind = "recover" /\ form.at = "upload"
        /\ form' = NoForm
        /\ UNCHANGED <<epoch, desc, active, sealed, stash, tok, ui, pick, sweep, code, file,
               torn>>
    BY <1>2 DEF RecoverUploaded, disk, tabStore
  <2> QED  BY <1>2, <2>1, Nothing DEF Agreeing, FormAges, Inv, Screen, Ages, HalfRestored,
     FileAges, Registering, LoggingIn, Unlocking, Resetting, Recovering, RestoringFile,
     CodeAges, Sweeping, ErasedIsGone, Current
<1> QED  BY <1>1, <1>2

LEMMA BackupKept ==
    ASSUME ~Hasty, Inv, Typed', Patient', Backup
    PROVE  Agreeing'
<1>1. /\ ui.acct \in Accounts /\ desc[ui.acct] # NoDesc
      /\ file'.a = ui.acct /\ file'.desc = desc[ui.acct] /\ file'.key = sealed[ui.acct]
      /\ UNCHANGED <<epoch, desc, active, sealed, stash, tok, ui, form, pick, sweep, code,
             torn>>
  BY Fields, Waits DEF Inv, Backup, disk, tabStore, tabMemory
<1> QED  BY <1>1 DEF Agreeing, FormAges, Inv, Screen, Ages, HalfRestored, FileAges,
   Registering, LoggingIn, Unlocking, Resetting, Recovering, RestoringFile, Begun, CodeAges,
   Sweeping, ErasedIsGone, Current

LEMMA SubmitRestoreKept ==
    ASSUME ~Hasty, Inv, Typed', Patient', SubmitRestore
    PROVE  Agreeing'
<1>1. /\ form = NoForm /\ pick = NoPick /\ sweep = None /\ file # NoFile
      /\ (\A x \in Accounts : desc'[x] = IF x = file.a THEN file.desc ELSE desc[x])
      /\ form'.kind = "restore" /\ form'.a = file.a /\ form'.key = file.key
      /\ form'.desc = file.desc
      /\ code' = NoCode
      /\ UNCHANGED <<epoch, active, sealed, stash, tok, ui, pick, sweep, file, torn>>
  BY Fields, Waits DEF Inv, SubmitRestore, tabStore
<1> QED  BY <1>1, Fields, Nothing DEF Agreeing, FormAges, Inv, Screen, Ages, HalfRestored,
   FileAges, Registering, LoggingIn, Unlocking, Resetting, Recovering, RestoringFile,
   CodeAges, Sweeping, ErasedIsGone, Current

LEMMA RestoreStoredKept ==
    ASSUME ~Hasty, Inv, Typed', Patient', RestoreStored
    PROVE  Agreeing'
<1>1. /\ form.kind = "restore" /\ form.at = "store"
      /\ sweep = None
      /\ (\A x \in Accounts : sealed'[x] = IF x = form.a THEN form.key ELSE sealed[x])
      /\ active' = form.a
      /\ (torn' = IF form.desc.salt = form.key.salt THEN torn \ {form.a} ELSE torn \cup
             {form.a})
      /\ ui' = Restoring
      /\ form' = NoForm /\ pick' = NoPick /\ sweep' = None /\ code' = NoCode
      /\ UNCHANGED <<epoch, desc, stash, tok, file>>
  BY Fields, Nothing DEF Inv, Patient, RestoreStored, tabStore
<1> QED  BY <1>1, PerAccount, Nothing, Views DEF Agreeing, FormAges, Inv, Screen, Ages,
   HalfRestored, FileAges, Registering, LoggingIn, Unlocking, Resetting, Recovering,
   RestoringFile, CodeAges, Sweeping, ErasedIsGone, Current

LEMMA LogoutKept ==
    ASSUME ~Hasty, Inv, Typed', Patient', Logout
    PROVE  Agreeing'
<1>1. /\ form = NoForm /\ pick = NoPick /\ sweep = None /\ ui.acct # None
      /\ (\A x \in Accounts : stash'[x] \in {stash[x], NoKey})
      /\ (\A x \in Accounts : tok'[x] = IF x = ui.acct THEN 0 ELSE tok[x])
      /\ active' = None /\ ui' = Anonymous /\ code' = NoCode
      /\ UNCHANGED <<epoch, desc, sealed, form, pick, sweep, file, torn>>
  BY SessionAssumption, Fields, Waits DEF Inv, Logout, StashLocked
<1>2. Screen' /\ (\A x \in Accounts : Ages(x))'
  BY <1>1, PerAccount, Records, Nothing, Views DEF Inv, Screen, Ages, HalfRestored
<1>3. FileAges' /\ CodeAges' /\ Sweeping'
  BY <1>1, Nothing DEF Inv, FileAges, CodeAges, Sweeping
<1>4. ErasedIsGone'
  BY <1>1 DEF Inv, ErasedIsGone
<1>5. Current' /\ FormAges'
  BY <1>1, Nothing, Views DEF FormAges, Registering, LoggingIn, Unlocking, Resetting,
     Recovering, RestoringFile, Current
<1> QED  BY <1>2, <1>3, <1>4, <1>5 DEF Agreeing

LEMMA SelectKept ==
    ASSUME ~Hasty, Inv, Typed', Patient', NEW a \in Accounts, Select(a)
    PROVE  Agreeing'
<1>1. /\ form = NoForm /\ pick = NoPick /\ sweep = None /\ desc[a] # NoDesc
      /\ (\A x \in Accounts : stash'[x] \in {stash[x], NoKey})
      /\ active' = a
      /\ ui'.status = ui.status /\ ui'.acct = ui.acct /\ ui'.desc = ui.desc
      /\ ui'.vault.owner = ui.vault.owner /\ ui'.vault.key = NoKey
      /\ pick'.a = a /\ pick'.desc = desc[a] /\ pick'.tok = tok[a] /\ pick'.key = stash'[a]
      /\ code' = NoCode
      /\ UNCHANGED <<epoch, desc, sealed, tok, form, sweep, file, torn>>
  BY Fields, Waits DEF Inv, Select, StashLocked, Wiped, Vault
<1>2. Screen'
  BY <1>1 DEF Inv, Screen
<1>3. (\A x \in Accounts : Ages(x))'
  BY <1>1, PerAccount, Nothing, Records DEF Inv, Ages, HalfRestored
<1>4. FileAges' /\ CodeAges' /\ Sweeping'
  BY <1>1, Nothing DEF Inv, FileAges, CodeAges, Sweeping
<1>5. ErasedIsGone'
  BY <1>1 DEF Inv, ErasedIsGone
<1>6. Current' /\ FormAges'
  BY <1>1, Nothing DEF FormAges, Registering, LoggingIn, Unlocking, Resetting, Recovering,
     RestoringFile, Current
<1> QED  BY <1>2, <1>3, <1>4, <1>5, <1>6 DEF Agreeing

LEMMA SelectLandsKept ==
    ASSUME ~Hasty, Inv, Typed', Patient', SelectLands
    PROVE  Agreeing'
<1>1. CASE Resumes(pick.a, pick.key)
  <2>1. /\ pick # NoPick /\ form = NoForm /\ sweep = None /\ pick.a \in Accounts
        /\ code' \in {code, NoCode} /\ pick' = NoPick
        /\ pick.key # NoKey /\ sealed[pick.a] = pick.key
        /\ ui' = Unlocked(pick.a, pick.desc, pick.tok, pick.key)
        /\ UNCHANGED <<epoch, desc, active, sealed, stash, tok, form, sweep, file, torn>>
    BY <1>1, Fields DEF Inv, Patient, SelectLands, Shown, Resumes, StashResumed, disk
  <2>2. Screen'
    BY <1>1, <2>1, Nothing, Views DEF Inv, Screen, Ages
  <2>3. (\A x \in Accounts : Ages(x))' /\ FileAges' /\ CodeAges' /\ Sweeping' /\
        ErasedIsGone' /\ Current' /\ FormAges'
    BY <1>1, <2>1, Nothing, Views DEF FormAges, Inv, Ages, HalfRestored, FileAges,
       Registering, LoggingIn, Unlocking, Resetting, Recovering, RestoringFile, CodeAges,
       Sweeping, ErasedIsGone, Current
  <2> QED  BY <2>2, <2>3 DEF Agreeing
<1>2. CASE ~Resumes(pick.a, pick.key)
  <2>1. /\ pick # NoPick /\ form = NoForm /\ sweep = None /\ pick.a \in Accounts
    BY <1>2, Fields DEF Inv, Patient, SelectLands
  <2>2. /\ code' \in {code, NoCode} /\ pick' = NoPick
    BY <1>2 DEF SelectLands
  <2>3. /\ (\E i \in BOOLEAN : ui' = Locked(pick.a, pick.desc, pick.tok, i))
    BY <1>2 DEF SelectLands, Shown
  <2>4. /\ (\A x \in Accounts : stash'[x] \in {stash[x], NoKey})
    BY <1>2 DEF SelectLands, StashResumed
  <2>5. /\ UNCHANGED <<epoch, desc, active, sealed, tok, form, sweep, file, torn>>
    BY <1>2 DEF SelectLands, disk
  <2>6. Screen'
    BY <1>2, <2>1, <2>2, <2>3, <2>4, <2>5, Nothing, Views DEF Inv, Screen
  <2>7. (\A x \in Accounts : Ages(x))'
    BY <1>2, <2>1, <2>2, <2>3, <2>4, <2>5, PerAccount, Records DEF Inv, Ages, HalfRestored
  <2>8. FileAges' /\ CodeAges' /\ Sweeping' /\ ErasedIsGone' /\ Current'
    BY <1>2, <2>1, <2>2, <2>3, <2>4, <2>5, Fields, Records, Nothing, Views DEF Inv,
       FileAges, CodeAges, Sweeping, ErasedIsGone, Current
  <2>9. FormAges'
    BY <1>2, <2>1, <2>2, <2>3, <2>4, <2>5, Nothing DEF FormAges, Registering, LoggingIn,
       Unlocking, Resetting, Recovering, RestoringFile
  <2> QED  BY <2>6, <2>7, <2>8, <2>9 DEF Agreeing
<1> QED  BY <1>1, <1>2

LEMMA EraseKept ==
    ASSUME ~Hasty, Inv, Typed', Patient', Erase
    PROVE  Agreeing'
<1>1. /\ form = NoForm /\ pick = NoPick /\ sweep = None /\ ui.acct \in Accounts
      /\ (\A x \in Accounts : desc'[x] = IF x = ui.acct THEN NoDesc ELSE desc[x])
      /\ (\A x \in Accounts : tok'[x] = IF x = ui.acct THEN 0 ELSE tok[x])
      /\ (\A x \in Accounts : stash'[x] \in {stash[x], NoKey})
      /\ stash'[ui.acct] = NoKey
      /\ active' = None /\ ui' = Anonymous /\ sweep' = ui.acct /\ code' = NoCode
      /\ UNCHANGED <<epoch, sealed, form, pick, file, torn>>
  BY Fields, Waits DEF Inv, Erase, StashLocked
<1>2. Screen' /\ (\A x \in Accounts : Ages(x))' /\ Current'
  BY <1>1, PerAccount, Records, Nothing, Views DEF Inv, Screen, Ages, HalfRestored, Current
<1>3. FileAges' /\ CodeAges' /\ Sweeping'
  BY <1>1, Nothing DEF Inv, FileAges, CodeAges, Sweeping
<1>4. ErasedIsGone'
  BY <1>1, SessionAssumption DEF Inv, ErasedIsGone
<1>5. FormAges'
  BY <1>1, Nothing DEF FormAges, Registering, LoggingIn, Unlocking, Resetting, Recovering,
     RestoringFile
<1> QED  BY <1>2, <1>3, <1>4, <1>5 DEF Agreeing

LEMMA EraseSweptKept ==
    ASSUME ~Hasty, Inv, Typed', Patient', EraseSwept
    PROVE  Agreeing'
<1>1. /\ sweep # None /\ sweep \in Accounts
      /\ (\A x \in Accounts : sealed'[x] = IF x = sweep THEN NoKey ELSE sealed[x])
      /\ torn' = torn \ {sweep} /\ sweep' = None
      /\ UNCHANGED <<epoch, desc, active, stash, tok, ui, form, pick, code, file>>
  BY Fields DEF Inv, EraseSwept, Swept, tabStore
<1> QED  BY <1>1, Records, Nothing DEF Agreeing, FormAges, Inv, Patient, Screen, Ages,
   HalfRestored, FileAges, Registering, LoggingIn, Unlocking, Resetting, Recovering,
   RestoringFile, CodeAges, Sweeping, ErasedIsGone, Current

LEMMA IdleKept == Inv /\ UNCHANGED vars => Agreeing'
BY DEF Inv, vars, Agreeing, Screen, Ages, HalfRestored, FileAges, FormAges, Registering,
   LoggingIn, Unlocking, Resetting, Recovering, RestoringFile, Begun, CodeAges, Sweeping,
   ErasedIsGone, Current
------------------------------------------------------------------------------
(* The invariant                                                            *)

LEMMA InitInv == Init => Inv
<1> SUFFICES ASSUME Init PROVE Inv
  OBVIOUS
<1>1. Typed
  BY InitTyped
<1>2. /\ ui = Restoring /\ ui.status = "restoring" /\ ui.acct = None
      /\ ui.vault.owner = None /\ ui.vault.key = NoKey
      /\ form = NoForm /\ form.kind = "none" /\ pick = NoPick /\ sweep = None
      /\ code = NoCode /\ code.pw = 0 /\ file = NoFile /\ active = None
  BY Nothing, Views, Screens DEF Init, Restoring
<1>3. \A a \in Accounts : /\ epoch[a] = 0 /\ sealed[a] = NoKey /\ stash[a] = NoKey
                          /\ tok[a] = 0 /\ desc[a] = NoDesc
  BY DEF Init
<1>4. Patient /\ Screen
  BY <1>2 DEF Patient, Screen
<1>5. \A a \in Accounts : Ages(a)
  BY <1>3, Records DEF Ages
<1>6. FileAges /\ FormAges /\ CodeAges /\ Sweeping /\ Current
  BY <1>2 DEF FileAges, FormAges, Registering, LoggingIn, Unlocking, Resetting, Recovering,
     RestoringFile, CodeAges, Sweeping, Current
<1>7. ErasedIsGone
  BY <1>2, <1>3, SessionAssumption DEF ErasedIsGone
<1> QED  BY <1>1, <1>4, <1>5, <1>6, <1>7 DEF Inv

LEMMA StepInv ==
    ASSUME ~Hasty, Inv, [Next]_vars
    PROVE  Inv'
<1>1. Typed'
  BY StepTyped DEF Inv
<1>2. Patient'
  BY <1>1, PatientKept
<1>3. Agreeing'
  <2>1. CASE UNCHANGED vars
    BY <2>1, IdleKept
  <2>2. CASE Next
    BY <1>1, <1>2, <2>2, LoadKept, ReloadKept, NewTabKept, RequestFailsKept, StoreFailsKept,
       ResetElsewhereKept, SubmitRegisterKept, RegisterServedKept, RegisterBackKept,
       RegisterStoredKept, RegisterUploadedKept, SubmitLoginKept, LoginServedKept,
       LoginBackKept, LoginOpenedKept, SubmitUnlockKept, UnlockOpenedKept, UnlockServedKept,
       UnlockBackKept, OpenLinkKept, SubmitResetKept, ResetServedKept, ResetBackKept,
       SubmitCodeKept, RecoverServedKept, RecoverStoredKept, RecoverUploadedKept,
       BackupKept, SubmitRestoreKept, RestoreStoredKept, LogoutKept, SelectKept,
       SelectLandsKept, EraseKept, EraseSweptKept DEF Next
  <2> QED  BY <2>1, <2>2
<1> QED  BY <1>1, <1>2, <1>3 DEF Inv, Agreeing

LEMMA Patience ==
    ASSUME ~Hasty
    PROVE  Spec => []Inv
<1>1. Inv /\ [Next]_vars => Inv'
  BY StepInv
<1> QED  BY InitInv, <1>1, PTL DEF Spec

------------------------------------------------------------------------------
(* The theorems                                                             *)

\* What localStorage, IndexedDB, sessionStorage, React and the form's coroutine
\* hold keeps its type, whatever the user does to a busy screen.
THEOREM TypeCorrect == Spec => []TypeOK
<1>1. Typed => TypeOK
  BY DEF Typed
<1> QED  BY InitTyped, StepTyped, <1>1, PTL DEF Spec

\* For a user who waits for a busy screen, an open vault is that of the account
\* shown: no account of the profile sees another's ("neither see nor decrypt
\* each other's state", vault/storage.ts).
THEOREM OneAccountOnScreen ==
    ASSUME ~Hasty
    PROVE  Spec => []Matched
<1>1. Inv => Matched
  BY DEF Inv, Screen, Matched
<1> QED  BY Patience, <1>1, PTL

\* For such a user, a vault that is open under the account's current password is
\* the one on disk, and its salt is in the descriptor: the password opens it again
\* after a lock (register, login, unlock and recoverWithCode in session.tsx).
THEOREM VaultsReopen ==
    ASSUME ~Hasty
    PROVE  Spec => []VaultReopens
<1>1. Inv => VaultReopens
  <2>1. SUFFICES ASSUME Inv, NEW v, v = ui.vault, v.key # NoKey,
                        v.key.pw = epoch[v.owner], ~HalfRestored(v.owner)
                 PROVE  sealed[v.owner] = v.key /\ desc[v.owner].salt = v.key.salt
    BY DEF VaultReopens
  <2>2. sealed[v.owner] = v.key
    BY <2>1 DEF Inv, Current
  <2>3. v.owner \in Accounts /\ desc[v.owner] # NoDesc
    BY <2>1 DEF Inv, Screen
  <2>4. /\ sealed[v.owner].pw = sealed[v.owner].salt
        /\ sealed[v.owner].pw <= desc[v.owner].salt
        /\ desc[v.owner].salt <= epoch[v.owner]
    BY <2>1, <2>3 DEF Inv, Ages
  <2>5. epoch[v.owner] \in Nat /\ desc[v.owner].salt \in Nat
    BY <2>1, <2>3, PerAccount DEF Inv
  <2> QED  BY <2>1, <2>2, <2>4, <2>5
<1> QED  BY Patience, <1>1, PTL

\* For such a user, a vault sealed with the account's current password carries the
\* salt the server hands out and the descriptor holds ("Three places have to
\* agree on this value", session.tsx): login, reset and rebuild move them together.
THEOREM SaltsStayTogether ==
    ASSUME ~Hasty
    PROVE  Spec => []SaltsAgree
<1>1. Inv => SaltsAgree
  <2>1. SUFFICES ASSUME Inv, NEW a \in Accounts,
                        sealed[a].pw = epoch[a], epoch[a] # 0, ~HalfRestored(a)
                 PROVE  /\ sealed[a].salt = epoch[a]
                        /\ desc[a] # NoDesc => desc[a].salt = epoch[a]
    BY DEF SaltsAgree
  <2>2. Ages(a)
    BY <2>1 DEF Inv
  <2>3. epoch[a] \in Nat /\ desc[a].salt \in Nat
    BY <2>1, PerAccount DEF Inv
  <2> QED  BY <2>1, <2>2, <2>3 DEF Ages
<1> QED  BY Patience, <1>1, PTL

\* For such a user, an account the device no longer lists has left no ciphertext,
\* key or token on it, unless the sweep was cut short (forgetAccount).
THEOREM RemovedIsGone ==
    ASSUME ~Hasty
    PROVE  Spec => []ErasedIsGone
<1>1. Inv => ErasedIsGone
  BY DEF Inv
<1> QED  BY Patience, <1>1, PTL
==============================================================================
