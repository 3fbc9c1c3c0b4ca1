--------------------------- MODULE AccountsProofs ---------------------------
(***************************************************************************)
(* What Accounts promises for any number of requests, names, passwords,    *)
(* versions and stores.  The argument compares versions: what is on disk   *)
(* is never ahead of memory, no token is ahead of what is on disk, and a   *)
(* token that has ended is behind it.                                      *)
(***************************************************************************)
EXTENDS Accounts, TLAPS

Stores == {memory, disk} \ {None}

\* A request is handled by the process that has guarded it, and its guard
\* still holds.
RunInv ==
    \A r \in Requests : handling[r] # None =>
        /\ memory # None
        /\ handling[r] \notin ForcedAllow => ~memory.must_change

\* The mark goes with the default password, and passwords are known.
UserInv ==
    \A user \in Stores :
        /\ user.must_change <=> user.password = DefaultPassword
        /\ user.password \in known

\* Memory is ahead of the disk only by versions it has not saved.
DiskInv ==
    /\ \A user \in Stores : user.secret <= secrets
    /\ memory # None /\ disk # None =>
          /\ memory.secret = disk.secret
          /\ disk.version < memory.version \/ disk = memory

\* No token is ahead of a store with its secret.
TokenInv ==
    \A token \in issued :
        /\ token.secret <= secrets
        /\ \A user \in Stores :
              token.secret = user.secret => token.version <= user.version

\* A token that has ended is behind every store with its secret.
EndInv ==
    \A token \in ended : \A user \in Stores :
        token.secret = user.secret => token.version < user.version

IInv == TypeOK /\ RunInv /\ UserInv /\ DiskInv /\ TokenInv /\ EndInv

\* What logout, a change of the password and a new name have in common.
Bump(saved) ==
    /\ memory # None /\ memory' \in Users
    /\ memory'.secret = memory.secret
    /\ memory'.version = memory.version + 1
    /\ disk' = IF saved THEN memory' ELSE disk
    /\ IF saved
       THEN ended' = issued /\ issued' \in {issued, issued \cup {TokenOf(memory')}}
       ELSE ended' = ended /\ issued' = issued
    /\ secrets' = secrets

\* What the handlers that leave the account alone have in common.
Untouched == UNCHANGED <<memory, disk, secrets, history>>

-----------------------------------------------------------------------------
\* The handlers that change the version.
LEMMA Bumps ==
    ASSUME TypeOK, RunInv, NEW r \in Requests, NEW new,
           Logout(r) \/ ChangePassword(r, new) \/ Rename(r, new)
    PROVE  \E saved \in BOOLEAN : Bump(saved)
<1>1. CASE Logout(r)
  <2>1. memory # None /\ memory \in Users
    BY <1>1, AccountsAssumption DEF Logout, Handle, RunInv, TypeOK
  <2>2. PICK saved \in BOOLEAN :
           /\ Store(Bumped, saved)
           /\ ended' = IF saved THEN issued ELSE ended
    BY <1>1 DEF Logout
  <2>3. memory.version < MaxVersion /\ secrets' = secrets /\ issued' = issued
    BY <1>1 DEF Logout, Handle
  <2>4. memory' \in Users /\ memory'.secret = memory.secret
        /\ memory'.version = memory.version + 1
    BY <2>1, <2>2, <2>3, AccountsAssumption DEF Store, Bumped, Users
  <2> QED
    BY <2>1, <2>2, <2>3, <2>4 DEF Bump, Store
<1>2. CASE ChangePassword(r, new)
  <2> DEFINE user == [Bumped EXCEPT !.password = new, !.must_change = FALSE]
  <2>1. memory # None /\ memory \in Users
    BY <1>2, AccountsAssumption DEF ChangePassword, Handle, RunInv, TypeOK
  <2>2. PICK saved \in BOOLEAN :
           /\ Store(user, saved)
           /\ IF saved THEN ended' = issued /\ issued' = issued \cup {TokenOf(user)}
              ELSE UNCHANGED <<ended, issued>>
    BY <1>2 DEF ChangePassword
  <2>3. memory.version < MaxVersion /\ secrets' = secrets /\ new \in Passwords
    BY <1>2 DEF ChangePassword, Handle
  <2>5. Bumped \in Users /\ Bumped.secret = memory.secret
        /\ Bumped.version = memory.version + 1
    BY <2>1, <2>3, AccountsAssumption DEF Bumped, Users
  <2>4. user \in Users /\ user.secret = memory.secret
        /\ user.version = memory.version + 1
    BY <2>5, <2>3 DEF Users
  <2> QED
    BY <2>1, <2>2, <2>3, <2>4 DEF Bump, Store
<1>3. CASE Rename(r, new)
  <2> DEFINE user == [Bumped EXCEPT !.name = new]
  <2>1. memory # None /\ memory \in Users
    BY <1>3, AccountsAssumption DEF Rename, Handle, RunInv, TypeOK
  <2>2. PICK saved \in BOOLEAN :
           /\ Store(user, saved)
           /\ IF saved THEN ended' = issued /\ issued' = issued \cup {TokenOf(user)}
              ELSE UNCHANGED <<ended, issued>>
    BY <1>3 DEF Rename
  <2>3. memory.version < MaxVersion /\ secrets' = secrets /\ new \in Names
    BY <1>3 DEF Rename, Handle
  <2>5. Bumped \in Users /\ Bumped.secret = memory.secret
        /\ Bumped.version = memory.version + 1
    BY <2>1, <2>3, AccountsAssumption DEF Bumped, Users
  <2>4. user \in Users /\ user.secret = memory.secret
        /\ user.version = memory.version + 1
    BY <2>5, <2>3 DEF Users
  <2> QED
    BY <2>1, <2>2, <2>3, <2>4 DEF Bump, Store
<1> QED
  BY <1>1, <1>2, <1>3

\* Every step is a step of the store, a guard, a handler that changes the
\* version, or one that does not.
LEMMA Shapes ==
    ASSUME TypeOK, RunInv, [Next]_vars
    PROVE  \/ Load \/ Create \/ Crash \/ DeleteFile
           \/ \E name, password : Login(name, password)
           \/ \E saved \in BOOLEAN : Bump(saved)
           \/ memory # None /\ disk' = memory /\ UNCHANGED <<memory, secrets, history>>
           \/ Untouched
<1>1. ASSUME NEW r \in Requests, NEW new,
             Logout(r) \/ ChangePassword(r, new) \/ Rename(r, new)
      PROVE  \E saved \in BOOLEAN : Bump(saved)
  BY <1>1, Bumps
<1>2. ASSUME NEW r \in Requests, SavePreferences(r)
      PROVE  \/ memory # None /\ disk' = memory
                /\ UNCHANGED <<memory, secrets, history>>
             \/ Untouched
  <2>1. memory # None
    BY <1>2, AccountsAssumption DEF SavePreferences, Handle, RunInv
  <2> QED
    BY <1>2, <2>1 DEF SavePreferences, Handle, Store, Untouched
<1>3. ASSUME NEW r \in Requests, NEW new,
             ChangeRejected(r) \/ RenameRejected(r, new) \/ Other(r)
      PROVE  Untouched
  BY <1>3 DEF ChangeRejected, RenameRejected, Other, Handle, Untouched
<1>4. ASSUME NEW r \in Requests, NEW op, NEW token, Guard(r, op, token)
      PROVE  Untouched
  BY <1>4 DEF Guard, Untouched
<1>5. UNCHANGED vars => Untouched
  BY DEF vars, Untouched, history
<1> QED
  BY <1>1, <1>2, <1>3, <1>4, <1>5 DEF Next

\* Versions on disk stay behind those in memory.
LEMMA DiskInvStep ==
    ASSUME TypeOK, RunInv, DiskInv, [Next]_vars
    PROVE  DiskInv'
<1>1. CASE Load
  BY <1>1 DEF Load, DiskInv, Stores
<1>2. CASE Create
  BY <1>2, NoneAssumption DEF Create, DiskInv, Stores, NewUser, TypeOK
<1>3. CASE Crash \/ DeleteFile
  BY <1>3 DEF Crash, DeleteFile, DiskInv, Stores
<1>4. CASE \E name, password : Login(name, password)
  BY <1>4 DEF Login, DiskInv, Stores
<1>5. CASE \E saved \in BOOLEAN : Bump(saved)
  BY <1>5 DEF Bump, DiskInv, Stores, TypeOK, Users
<1>6. CASE memory # None /\ disk' = memory /\ UNCHANGED <<memory, secrets, history>>
  BY <1>6 DEF DiskInv, Stores
<1>7. CASE Untouched
  BY <1>7 DEF Untouched, DiskInv, Stores
<1> QED
  BY <1>1, <1>2, <1>3, <1>4, <1>5, <1>6, <1>7, Shapes

\* Tokens stay behind the store they are saved in.
LEMMA TokenInvStep ==
    ASSUME TypeOK, RunInv, DiskInv, TokenInv, [Next]_vars
    PROVE  TokenInv'
<1>1. CASE Load
  BY <1>1 DEF Load, TokenInv, Stores, history
<1>2. CASE Create
  <2>1. /\ issued' = issued /\ secrets' = secrets + 1 /\ secrets \in Nat
        /\ memory' = NewUser(secrets + 1) /\ disk' = NewUser(secrets + 1)
    BY <1>2 DEF Create, TypeOK
  <2>2. \A token \in issued : token.secret \in Nat
    BY AccountsAssumption DEF TypeOK, Tokens
  <2> QED
    BY <2>1, <2>2 DEF TokenInv, Stores, NewUser
<1>3. CASE Crash \/ DeleteFile
  BY <1>3 DEF Crash, DeleteFile, TokenInv, Stores, history
<1>4. CASE \E name, password : Login(name, password)
  <2>1. /\ memory # None /\ disk' = memory /\ UNCHANGED <<memory, secrets>>
        /\ issued' = issued \cup {TokenOf(memory)}
    BY <1>4 DEF Login
  <2>2. memory.version \in Nat /\ memory.secret \in Nat /\ memory.secret <= secrets
    BY <2>1, AccountsAssumption DEF TypeOK, Users, DiskInv, Stores
  <2> QED
    BY <2>1, <2>2 DEF TokenInv, Stores, TokenOf
<1>5. CASE \E saved \in BOOLEAN : Bump(saved)
  <2>1. PICK saved \in BOOLEAN : Bump(saved)
    BY <1>5
  <2>2. /\ memory # None /\ memory.version \in Nat
        /\ memory.secret \in Nat /\ memory.secret <= secrets
        /\ memory'.version = memory.version + 1 /\ memory'.secret = memory.secret
        /\ secrets' = secrets
    BY <2>1, AccountsAssumption DEF Bump, TypeOK, Users, DiskInv, Stores
  <2>3. \A token \in issued : token.version \in Nat /\ token.secret \in Nat
    BY AccountsAssumption DEF TypeOK, Tokens
  <2>4. \A token \in issued : /\ token.secret <= secrets
                              /\ token.secret = memory.secret =>
                                    token.version <= memory'.version
    BY <2>2, <2>3 DEF TokenInv, Stores
  <2>5. CASE saved
    <3>1. issued' \subseteq issued \cup {TokenOf(memory')} /\ disk' = memory'
      BY <2>1, <2>5 DEF Bump
    <3> QED
      BY <3>1, <2>2, <2>3, <2>4 DEF TokenInv, Stores, TokenOf
  <2>6. CASE ~saved
    <3>1. issued' = issued /\ disk' = disk
      BY <2>1, <2>6 DEF Bump
    <3> QED
      BY <3>1, <2>2, <2>3, <2>4 DEF TokenInv, Stores
  <2> QED
    BY <2>5, <2>6
<1>6. CASE memory # None /\ disk' = memory /\ UNCHANGED <<memory, secrets, history>>
  BY <1>6 DEF TokenInv, Stores, history
<1>7. CASE Untouched
  BY <1>7 DEF Untouched, TokenInv, Stores, history
<1> QED
  BY <1>1, <1>2, <1>3, <1>4, <1>5, <1>6, <1>7, Shapes

\* An ended token stays behind the store.
LEMMA EndInvStep ==
    ASSUME TypeOK, RunInv, DiskInv, TokenInv, EndInv, [Next]_vars
    PROVE  EndInv'
<1>1. CASE Load
  BY <1>1 DEF Load, EndInv, Stores, history
<1>2. CASE Create
  <2>1. /\ ended' = issued /\ secrets' = secrets + 1 /\ secrets \in Nat
        /\ memory' = NewUser(secrets + 1) /\ disk' = NewUser(secrets + 1)
    BY <1>2 DEF Create, TypeOK
  <2>2. \A token \in issued : token.secret \in Nat /\ token.secret <= secrets
    BY AccountsAssumption DEF TypeOK, Tokens, TokenInv
  <2> QED
    BY <2>1, <2>2 DEF EndInv, Stores, NewUser
<1>3. CASE Crash \/ DeleteFile
  BY <1>3 DEF Crash, DeleteFile, EndInv, Stores, history
<1>4. CASE \E name, password : Login(name, password)
  BY <1>4 DEF Login, EndInv, Stores
<1>5. CASE \E saved \in BOOLEAN : Bump(saved)
  <2>1. PICK saved \in BOOLEAN : Bump(saved)
    BY <1>5
  <2>2. /\ memory # None /\ memory.version \in Nat
        /\ memory'.version = memory.version + 1 /\ memory'.secret = memory.secret
    BY <2>1, AccountsAssumption DEF Bump, TypeOK, Users
  <2>3. \A token \in issued : token.version \in Nat
    BY AccountsAssumption DEF TypeOK, Tokens
  <2>4. \A token \in issued :
           token.secret = memory.secret => token.version < memory'.version
    BY <2>2, <2>3 DEF TokenInv, Stores
  <2>5. CASE saved
    BY <2>1, <2>2, <2>4, <2>5 DEF Bump, EndInv, Stores
  <2>6. CASE ~saved
    <3>1. ended' = ended /\ disk' = disk /\ ended \subseteq issued
      BY <2>1, <2>6 DEF Bump, TypeOK
    <3> QED
      BY <3>1, <2>2, <2>4 DEF EndInv, Stores
  <2> QED
    BY <2>5, <2>6
<1>6. CASE memory # None /\ disk' = memory /\ UNCHANGED <<memory, secrets, history>>
  BY <1>6 DEF EndInv, Stores, history
<1>7. CASE Untouched
  BY <1>7 DEF Untouched, EndInv, Stores, history
<1> QED
  BY <1>1, <1>2, <1>3, <1>4, <1>5, <1>6, <1>7, Shapes

\* The mark of the default password, and the passwords the operator knows.
LEMMA UserInvStep ==
    ASSUME TypeOK, RunInv, UserInv, [Next]_vars
    PROVE  UserInv'
<1>1. UNCHANGED <<memory, disk, known>> => UserInv'
  BY DEF UserInv, Stores
<1>2. ASSUME memory # None, memory' = memory, disk' \in {memory, disk},
             known' = known
      PROVE  UserInv'
  BY <1>2 DEF UserInv, Stores
<1>3. CASE Load
  BY <1>3 DEF Load, UserInv, Stores, history
<1>4. CASE Create
  BY <1>4 DEF Create, UserInv, Stores, NewUser
<1>5. CASE Crash \/ DeleteFile
  BY <1>5 DEF Crash, DeleteFile, UserInv, Stores, history
<1>6. ASSUME NEW name, NEW password, Login(name, password) PROVE UserInv'
  BY <1>6, <1>2 DEF Login
<1>7. ASSUME NEW r \in Requests, NEW new \in Passwords, ChangePassword(r, new)
      PROVE  UserInv'
  <2> DEFINE user == [Bumped EXCEPT !.password = new, !.must_change = FALSE]
  <2>1. memory # None /\ memory \in Users
    BY <1>7, AccountsAssumption DEF ChangePassword, Handle, RunInv, TypeOK
  <2>2. user.password = new /\ user.must_change = FALSE /\ new # DefaultPassword
    BY <2>1, AccountsAssumption DEF Bumped, Users
  <2>3. /\ memory' = user /\ disk' \in {user, disk}
        /\ new \in known'
        /\ disk' # user => known \subseteq known'
    BY <1>7 DEF ChangePassword, Store
  <2> HIDE DEF user
  <2> QED
    BY <2>2, <2>3 DEF UserInv, Stores
<1>8. ASSUME NEW r \in Requests, NEW new, Logout(r) \/ Rename(r, new)
      PROVE  UserInv'
  <2>1. memory # None /\ memory \in Users
    BY <1>8, AccountsAssumption DEF Logout, Rename, Handle, RunInv, TypeOK
  <2>2. /\ memory'.password = memory.password
        /\ memory'.must_change = memory.must_change
    BY <1>8, <2>1 DEF Logout, Rename, Store, Bumped, Users
  <2>3. disk' \in {memory', disk} /\ known' = known
    BY <1>8 DEF Logout, Rename, Store
  <2> QED
    BY <2>1, <2>2, <2>3 DEF UserInv, Stores
<1>9. ASSUME NEW r \in Requests, SavePreferences(r) PROVE UserInv'
  <2>1. memory # None
    BY <1>9, AccountsAssumption DEF SavePreferences, Handle, RunInv
  <2> QED
    BY <1>9, <2>1, <1>2 DEF SavePreferences, Store, history
<1>10. ASSUME NEW r \in Requests, NEW op, NEW token, NEW new,
              \/ Guard(r, op, token) \/ ChangeRejected(r)
              \/ RenameRejected(r, new) \/ Other(r)
       PROVE  UserInv'
  BY <1>10, <1>1 DEF Guard, ChangeRejected, RenameRejected, Other, history
<1>11. CASE UNCHANGED vars
  BY <1>11, <1>1 DEF vars, history
<1> QED
  BY <1>3, <1>4, <1>5, <1>6, <1>7, <1>8, <1>9, <1>10, <1>11 DEF Next

\* What a guard has seen still holds when the request is handled.
LEMMA RunInvStep ==
    ASSUME TypeOK, RunInv, [Next]_vars
    PROVE  RunInv'
<1>1. ASSUME memory' = memory, \A r \in Requests : handling'[r] \in {handling[r], None}
      PROVE  RunInv'
  BY <1>1 DEF RunInv
<1>2. ASSUME NEW r \in Requests, NEW op, Handle(r, op)
      PROVE  \A q \in Requests : handling'[q] \in {handling[q], None}
  BY <1>2 DEF Handle, TypeOK
<1>3. CASE Load \/ Create
  BY <1>3 DEF Load, Create, RunInv
<1>4. CASE Crash
  BY <1>4 DEF Crash, RunInv
<1>5. ASSUME DeleteFile \/ UNCHANGED vars \/ \E name, password : Login(name, password)
      PROVE  RunInv'
  BY <1>5, <1>1 DEF DeleteFile, vars, Login
<1>6. ASSUME NEW r \in Requests, NEW op, NEW token \in issued, Guard(r, op, token)
      PROVE  RunInv'
  BY <1>6 DEF Guard, Accepts, RunInv, TypeOK
<1>7. ASSUME NEW r \in Requests, NEW new,
             \/ ChangeRejected(r) \/ RenameRejected(r, new)
             \/ SavePreferences(r) \/ Other(r)
      PROVE  RunInv'
  BY <1>7, <1>1, <1>2
  DEF ChangeRejected, RenameRejected, SavePreferences, Other, Store
<1>8. ASSUME NEW r \in Requests, NEW new,
             Logout(r) \/ ChangePassword(r, new) \/ Rename(r, new)
      PROVE  RunInv'
  <2>1. memory # None /\ memory \in Users
    BY <1>8, AccountsAssumption
    DEF Logout, ChangePassword, Rename, Handle, RunInv, TypeOK
  <2>2. memory' # None
    BY <1>8, Bumps, NoneAssumption DEF Bump
  <2>3. memory'.must_change \in {memory.must_change, FALSE}
    BY <1>8, <2>1 DEF Logout, ChangePassword, Rename, Store, Bumped, Users
  <2>4. \A q \in Requests : handling'[q] \in {handling[q], None}
    BY <1>8, <1>2 DEF Logout, ChangePassword, Rename
  <2> QED
    BY <2>2, <2>3, <2>4 DEF RunInv
<1> QED
  BY <1>3, <1>4, <1>5, <1>6, <1>7, <1>8 DEF Next

\* The fields keep their types; the history only names what was sent.
LEMMA TypeOKStep ==
    ASSUME TypeOK, RunInv, [Next]_vars
    PROVE  TypeOK'
<1>1. ASSUME NEW r \in Requests, NEW op, Handle(r, op)
      PROVE  handling' \in [Requests -> Operations \cup {None}]
  BY <1>1 DEF Handle, TypeOK
<1>2. CASE Load \/ Crash \/ DeleteFile
  BY <1>2 DEF Load, Crash, DeleteFile, TypeOK, history
<1>3. CASE Create
  <2>1. NewUser(secrets + 1) \in Users /\ secrets' = secrets + 1
        /\ secrets + 1 \in 0 .. MaxSecrets
    BY <1>3, AccountsAssumption DEF Create, NewUser, Users, TypeOK
  <2> QED
    BY <1>3, <2>1 DEF Create, TypeOK
<1>4. ASSUME NEW name, NEW password, Login(name, password) PROVE TypeOK'
  BY <1>4, AccountsAssumption DEF Login, TypeOK, TokenOf, Users, Tokens
<1>5. ASSUME NEW r \in Requests, NEW op \in Operations, NEW token, Guard(r, op, token)
      PROVE  TypeOK'
  BY <1>5 DEF Guard, TypeOK, history
<1>6. ASSUME NEW r \in Requests, NEW new,
             Logout(r) \/ ChangePassword(r, new) \/ Rename(r, new)
      PROVE  TypeOK'
  <2>1. PICK saved \in BOOLEAN : Bump(saved)
    BY <1>6, Bumps
  <2>2. handling' \in [Requests -> Operations \cup {None}]
    BY <1>6, <1>1 DEF Logout, ChangePassword, Rename
  <2>3. memory' \in Users /\ TokenOf(memory') \in Tokens
    BY <2>1 DEF Bump, Users, TokenOf, Tokens
  <2>4. known' \subseteq Passwords \cup {DefaultPassword}
    BY <1>6 DEF Logout, ChangePassword, Rename, TypeOK
  <2>5. issued' \subseteq Tokens /\ ended' \subseteq issued'
    BY <2>1, <2>3 DEF Bump, TypeOK
  <2>6. disk' \in Users \cup {None} /\ secrets' \in 0 .. MaxSecrets
    BY <2>1, <2>3 DEF Bump, TypeOK
  <2> QED
    BY <2>2, <2>3, <2>4, <2>5, <2>6 DEF TypeOK
<1>7. ASSUME NEW r \in Requests, NEW new,
             \/ ChangeRejected(r) \/ RenameRejected(r, new)
             \/ SavePreferences(r) \/ Other(r)
      PROVE  TypeOK'
  <2>1. memory' = memory /\ disk' \in {memory, disk} /\ UNCHANGED history
        /\ secrets' = secrets
    BY <1>7 DEF ChangeRejected, RenameRejected, SavePreferences, Other, Store,
         Handle, history
  <2>2. handling' \in [Requests -> Operations \cup {None}]
    BY <1>7, <1>1 DEF ChangeRejected, RenameRejected, SavePreferences, Other
  <2> QED
    BY <2>1, <2>2 DEF TypeOK, history
<1>8. CASE UNCHANGED vars
  BY <1>8 DEF vars, TypeOK, history
<1> QED
  BY <1>2, <1>3, <1>4, <1>5, <1>6, <1>7, <1>8 DEF Next

-----------------------------------------------------------------------------
\* Nothing is loaded, nothing has been issued.
LEMMA InitIInv == Init => IInv
  BY AccountsAssumption
  DEF Init, IInv, TypeOK, RunInv, UserInv, DiskInv, TokenInv, EndInv, Stores

\* Every step keeps all parts of the invariant.
LEMMA NextIInv == IInv /\ [Next]_vars => IInv'
<1> SUFFICES ASSUME IInv, [Next]_vars PROVE IInv'
  OBVIOUS
<1>1. TypeOK /\ RunInv /\ UserInv /\ DiskInv /\ TokenInv /\ EndInv
  BY DEF IInv
<1> QED
  BY <1>1, TypeOKStep, RunInvStep, UserInvStep, DiskInvStep, TokenInvStep,
     EndInvStep
  DEF IInv

\* IInv holds throughout.
THEOREM Invariance == Spec => []IInv
  BY InitIInv, NextIInv, PTL DEF Spec

\* Type correctness of the account store, for all values of the constants.
THEOREM AccountsTypeCorrect == Spec => []TypeOK
<1>1. IInv => TypeOK
  BY DEF IInv
<1> QED
  BY <1>1, Invariance, PTL

\* A token that has ended is behind memory, so it is not accepted.
THEOREM EndedSessionsStayEnded == Spec => []EndedStaysEnded
<1>1. IInv => EndedStaysEnded
  <2> SUFFICES ASSUME IInv, NEW token \in ended, Accepts(memory, token)
               PROVE  FALSE
    BY DEF EndedStaysEnded
  <2>1. /\ memory # None /\ memory \in Users
        /\ token.secret = memory.secret /\ token.version = memory.version
    BY DEF Accepts, TokenOf, IInv, TypeOK
  <2>2. memory.version \in Nat
    BY <2>1, AccountsAssumption DEF Users
  <2>3. token.version < memory.version
    BY <2>1 DEF IInv, EndInv, Stores
  <2> QED
    BY <2>1, <2>2, <2>3
<1> QED
  BY <1>1, Invariance, PTL

\* An accepted token is not ahead of the disk, and the disk is not ahead of
\* memory: both hold the same user.
THEOREM RestartKeepsSessions == Spec => []SessionsSurviveRestart
<1>1. IInv => SessionsSurviveRestart
  <2> SUFFICES ASSUME IInv, disk # None,
                      NEW token \in issued, Accepts(memory, token)
               PROVE  Accepts(disk, token)
    BY DEF SessionsSurviveRestart
  <2>1. /\ memory # None /\ memory \in Users /\ disk \in Users
        /\ token.secret = memory.secret /\ token.version = memory.version
    BY DEF Accepts, TokenOf, IInv, TypeOK
  <2>2. memory.version \in Nat /\ disk.version \in Nat
    BY <2>1, AccountsAssumption DEF Users
  <2>3. disk.secret = memory.secret /\ (disk.version < memory.version \/ disk = memory)
    BY <2>1 DEF IInv, DiskInv
  <2>4. token.version <= disk.version
    BY <2>1, <2>3 DEF IInv, TokenInv, Stores
  <2>5. disk = memory
    BY <2>1, <2>2, <2>3, <2>4
  <2> QED
    BY <2>5
<1> QED
  BY <1>1, Invariance, PTL

\* The password in force, now or after a restart, is known to the operator.
THEOREM OperatorKnowsPassword == Spec => []PasswordIsKnown
<1>1. IInv => PasswordIsKnown
  BY DEF IInv, UserInv, PasswordIsKnown, Stores
<1> QED
  BY <1>1, Invariance, PTL

\* With the default password, only its change and the logout are handled.
THEOREM DefaultPasswordOnlyChanges == Spec => []DefaultPasswordIsConfined
<1>1. IInv => DefaultPasswordIsConfined
  BY DEF IInv, RunInv, UserInv, Stores, DefaultPasswordIsConfined
<1> QED
  BY <1>1, Invariance, PTL
=============================================================================
