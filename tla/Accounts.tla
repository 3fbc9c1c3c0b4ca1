------------------------------ MODULE Accounts ------------------------------
(***************************************************************************)
(* The operator's account and sessions: auth.py and its handlers in        *)
(* main.py.  The user record is held in memory (_DATA) and in users.json;  *)
(* a session is a signed token with the user's name and token_version, and *)
(* may be presented by any browser that holds the cookie.                  *)
(*                                                                         *)
(* A request passes auth_guard and is handled later, when its body has     *)
(* been read; other requests may be guarded and handled in between.  A     *)
(* handler itself runs on the event loop without interruption.             *)
(*                                                                         *)
(* Left out: the lockout after failed logins, the CSRF comparison, the     *)
(* age of a token, preferences (which are only seen as a save).            *)
(***************************************************************************)
EXTENDS Naturals

CONSTANTS
    Requests,       \* requests that may be under way at once
    Names,          \* names that validate_username accepts
    InvalidName,    \* one it does not
    Passwords,      \* passwords that validate_password accepts
    DefaultName, DefaultPassword,   \* those of _default_user()
    None,           \* no process, no file, no request
    MaxVersion,     \* bound: token_version
    MaxSecrets      \* bound: how often users.json is created

ASSUME AccountsAssumption ==
    /\ DefaultName \in Names /\ InvalidName \notin Names
    /\ DefaultPassword \notin Passwords
    /\ MaxVersion \in Nat \ {0} /\ MaxSecrets \in Nat
    /\ None \notin {"logout", "change", "rename", "preferences", "other"}

Operations == {"logout", "change", "rename", "preferences", "other"}
ForcedAllow == {"logout", "change"}         \* _FORCED_ALLOW
Tokens == [secret : 1 .. MaxSecrets, name : Names, version : 1 .. MaxVersion]
Users == [secret : 1 .. MaxSecrets, name : Names, version : 1 .. MaxVersion,
          password : Passwords \cup {DefaultPassword}, must_change : BOOLEAN]

ASSUME NoneAssumption == None \notin Users

VARIABLES
    memory,     \* _DATA: the secret and the user, None while not loaded
    disk,       \* users.json
    secrets,    \* secrets generated so far
    handling,   \* the operation of each request that has passed the guard
    \* history: read by no action
    issued,     \* tokens a browser has been sent
    ended,      \* tokens that a client was told are no longer valid
    known       \* the password last confirmed and those tried after it

history == <<issued, ended, known>>
vars == <<memory, disk, secrets, handling, history>>

Init ==
    /\ memory = None
    /\ disk = None
    /\ secrets = 0
    /\ handling = [r \in Requests |-> None]
    /\ issued = {} /\ ended = {}
    /\ known = {DefaultPassword}

TokenOf(user) ==
    [secret |-> user.secret, name |-> user.name, version |-> user.version]
Accepts(user, token) == user # None /\ token = TokenOf(user)

-----------------------------------------------------------------------------
(* _load, called by lifespan.                                              *)

Load ==
    /\ memory = None /\ disk # None
    /\ memory' = disk
    /\ UNCHANGED <<disk, secrets, handling, history>>

NewUser(secret) ==
    [secret |-> secret, name |-> DefaultName, version |-> 1,
     password |-> DefaultPassword, must_change |-> TRUE]

\* Seeded fault: the new store is signed with the old secret.
CreateWithOldSecret ==
    /\ memory = None /\ disk = None
    /\ secrets < MaxSecrets
    /\ secrets' = IF secrets = 0 THEN 1 ELSE secrets
    /\ memory' = NewUser(secrets') /\ disk' = memory'
    /\ ended' = issued
    /\ known' = {DefaultPassword}
    /\ UNCHANGED <<handling, issued>>

\* No file: a fresh secret and admin/admin.  If it cannot be written, lifespan
\* raises and the process ends.
Create ==
    /\ memory = None /\ disk = None
    /\ secrets < MaxSecrets
    /\ secrets' = secrets + 1
    /\ memory' = NewUser(secrets') /\ disk' = memory'
    /\ ended' = issued
    /\ known' = {DefaultPassword}
    /\ UNCHANGED <<handling, issued>>

Crash ==
    /\ memory # None
    /\ memory' = None
    /\ handling' = [r \in Requests |-> None]
    /\ UNCHANGED <<disk, secrets, history>>

\* "delete it manually to intentionally reset login": at any time.
DeleteFile ==
    /\ disk # None
    /\ secrets < MaxSecrets
    /\ disk' = None
    /\ UNCHANGED <<memory, secrets, handling, history>>

-----------------------------------------------------------------------------
(* auth_login and auth_guard.                                              *)

\* Seeded fault: mark_login only sets last_login.
LoginUnsaved(name, password) ==
    /\ memory # None
    /\ name = memory.name /\ password = memory.password
    /\ issued' = issued \cup {TokenOf(memory)}
    /\ UNCHANGED <<memory, disk, secrets, handling, ended, known>>

\* mark_login saves the whole store before the token is issued.  If it
\* raises, nothing has changed.
Login(name, password) ==
    /\ memory # None
    /\ name = memory.name /\ password = memory.password
    /\ disk' = memory
    /\ issued' = issued \cup {TokenOf(memory)}
    /\ UNCHANGED <<memory, secrets, handling, ended, known>>

\* Seeded fault: the forced change of the password is left to the client.
GuardUnforced(r, op, token) ==
    /\ handling[r] = None
    /\ Accepts(memory, token)
    /\ handling' = [handling EXCEPT ![r] = op]
    /\ UNCHANGED <<memory, disk, secrets, history>>

Guard(r, op, token) ==
    /\ handling[r] = None
    /\ Accepts(memory, token)
    /\ memory.must_change => op \in ForcedAllow
    /\ handling' = [handling EXCEPT ![r] = op]
    /\ UNCHANGED <<memory, disk, secrets, history>>

-----------------------------------------------------------------------------
(* The handlers.  Each changes the user in memory and then saves.          *)

Handle(r, op) ==
    /\ handling[r] = op
    /\ handling' = [handling EXCEPT ![r] = None]
    /\ UNCHANGED secrets

\* The new record is in memory whether or not it is saved.
Store(user, saved) ==
    /\ memory' = user
    /\ disk' = IF saved THEN user ELSE disk

Bumped == [memory EXCEPT !.version = @ + 1]

\* Seeded fault: the new version is not saved.
LogoutUnsaved(r) ==
    /\ Handle(r, "logout")
    /\ memory.version < MaxVersion
    /\ Store(Bumped, FALSE)
    /\ ended' = issued
    /\ UNCHANGED <<issued, known>>

Logout(r) ==
    /\ Handle(r, "logout")
    /\ memory.version < MaxVersion
    /\ \E saved \in BOOLEAN :
          /\ Store(Bumped, saved)
          /\ ended' = IF saved THEN issued ELSE ended
    /\ UNCHANGED <<issued, known>>

\* The wrong current password, or a new one that is not accepted.
ChangeRejected(r) ==
    /\ Handle(r, "change")
    /\ UNCHANGED <<memory, disk, history>>

\* Seeded fault: the answer does not wait for the save.
ChangePasswordUnsaved(r, new) ==
    /\ Handle(r, "change")
    /\ new \in Passwords
    /\ memory.version < MaxVersion
    /\ \E saved \in BOOLEAN :
          LET user == [Bumped EXCEPT !.password = new, !.must_change = FALSE] IN
          /\ Store(user, saved)
          /\ known' = {new}
          /\ ended' = issued
          /\ issued' = issued \cup {TokenOf(user)}

\* change_password: the browser that asked gets a token of the new version.
ChangePassword(r, new) ==
    /\ Handle(r, "change")
    /\ new \in Passwords
    /\ memory.version < MaxVersion
    /\ \E saved \in BOOLEAN :
          LET user == [Bumped EXCEPT !.password = new, !.must_change = FALSE] IN
          /\ Store(user, saved)
          /\ IF saved
             THEN /\ known' = {new}
                  /\ ended' = issued
                  /\ issued' = issued \cup {TokenOf(user)}
             ELSE /\ known' = known \cup {new}
                  /\ UNCHANGED <<ended, issued>>

\* update_account with a new name.
Rename(r, new) ==
    /\ Handle(r, "rename")
    /\ new \in Names /\ new # memory.name
    /\ memory.version < MaxVersion
    /\ \E saved \in BOOLEAN :
          LET user == [Bumped EXCEPT !.name = new] IN
          /\ Store(user, saved)
          /\ IF saved
             THEN ended' = issued /\ issued' = issued \cup {TokenOf(user)}
             ELSE UNCHANGED <<ended, issued>>
    /\ UNCHANGED known

RenameRejected(r, new) ==
    /\ Handle(r, "rename")
    /\ new \notin Names
    /\ UNCHANGED <<memory, disk, history>>

\* save_preferences, and update_account without a new name.
SavePreferences(r) ==
    /\ Handle(r, "preferences")
    /\ \E saved \in BOOLEAN : Store(memory, saved)
    /\ UNCHANGED history

\* Any other handler.
Other(r) ==
    /\ Handle(r, "other")
    /\ UNCHANGED <<memory, disk, history>>

-----------------------------------------------------------------------------
Next ==
    \/ Load \/ Create \/ Crash \/ DeleteFile
    \/ \E name \in Names, password \in Passwords \cup {DefaultPassword} :
          Login(name, password)
    \/ \E r \in Requests :
          \/ \E op \in Operations, token \in issued : Guard(r, op, token)
          \/ Logout(r) \/ ChangeRejected(r)
          \/ \E new \in Passwords : ChangePassword(r, new)
          \/ \E new \in Names \cup {InvalidName} :
                Rename(r, new) \/ RenameRejected(r, new)
          \/ SavePreferences(r) \/ Other(r)

Spec == Init /\ [][Next]_vars

-----------------------------------------------------------------------------
(* Properties.                                                             *)

\* The value of each variable is one the code can give it.
TypeOK ==
    /\ memory \in Users \cup {None}
    /\ disk \in Users \cup {None}
    /\ secrets \in 0 .. MaxSecrets
    /\ handling \in [Requests -> Operations \cup {None}]
    /\ issued \subseteq Tokens /\ ended \subseteq issued
    /\ known \subseteq Passwords \cup {DefaultPassword}

\* A token that a client was told has ended, by a logout, a change of the
\* password or the name, or a new store, is never accepted again, also not
\* after writes that failed and restarts from what is on disk (logout_user,
\* change_password, update_account, verify_token, _load).
EndedStaysEnded == \A token \in ended : ~Accepts(memory, token)

\* A session that is accepted is accepted after a restart as well: a token is
\* only issued when the version it carries has been saved (mark_login,
\* _set_session_cookies), even if earlier versions could not be.  The file
\* must not have been deleted.
SessionsSurviveRestart ==
    disk # None => \A token \in issued : Accepts(memory, token) => Accepts(disk, token)

\* The password in force, in memory and after a restart, is one the operator
\* knows: the one last confirmed or one tried since (change_password).
PasswordIsKnown ==
    \A user \in {memory, disk} \ {None} : user.password \in known

\* While the default password is in force nothing is handled but its change
\* and the logout, in whatever order requests are guarded and handled
\* (auth_guard, change_password).
DefaultPasswordIsConfined ==
    \A r \in Requests :
        handling[r] \notin ForcedAllow \cup {None} =>
            memory.password # DefaultPassword
=============================================================================
