---------------------------- MODULE AccountsProofs ----------------------------
(***************************************************************************)
(* Proofs about accounts, sessions and reset links, for any addresses, any *)
(* number of requests in flight and any bounds; and about the rate limiter *)
(* in front of login and signup, for any keys, limit and window.           *)
(*                                                                         *)
(* Session ids are at most as many as sessions were opened and no two      *)
(* sessions bear the same, although ids are given away again: what is new  *)
(* is larger than all that are in use.  Tokens are drawn once each, so the *)
(* link a reset has read is in force for no other account when it is       *)
(* burnt.                                                                  *)
(***************************************************************************)
EXTENDS Accounts, Limiter, FiniteSetTheorems, WellFoundedInduction, TLAPS

Rows == [role : Roles, active : BOOLEAN, pw : 1..(changes + 1)]

(* The tables: ids in use, and passwords no newer than the changes so far. *)
Tables ==
  /\ DOMAIN accounts \subseteq Users
  /\ accounts \in [DOMAIN accounts -> Rows]
  /\ sessions \subseteq [id : 1..opened, user : DOMAIN accounts, pw : 1..(changes + 1)]
  /\ opened \in 0..MaxSessions /\ changes \in 0..MaxChanges

UniqueIds == \A s, t \in sessions : s.id = t.id => s = t

(* What suspended handlers and the last changes of passwords remember. *)
Memories ==
  /\ req \in [Requests -> [who : DOMAIN accounts, sid : 1..MaxSessions] \union {NoReq}]
  /\ kept \in [Users -> 0..MaxSessions]
  /\ cut \subseteq DOMAIN accounts
  /\ stale \in BOOLEAN

(* Links in force are of existing accounts and of no two the same; neither  *)
(* is the one a reset has read in force for another account.                *)
Tokens ==
  /\ printed \in 0..MaxLinks
  /\ links \in [Users -> 0..printed]
  /\ spent \subseteq 1..printed
  /\ loop \in [user : DOMAIN accounts, tok : 0..printed] \union {NoReset}
  /\ \A u \in Users : links[u] # 0 => u \in DOMAIN accounts
  /\ \A u, v \in Users : links[u] # 0 /\ links[u] = links[v] => u = v
  /\ \A u \in Users : loop.tok # 0 /\ links[u] = loop.tok => u = loop.user

IInv ==
  /\ Tables /\ UniqueIds /\ Memories /\ Tokens
  /\ OldPasswordsOpenNothing /\ AdminRemains /\ LinksSingleUse

USE AccountsAssumption

-----------------------------------------------------------------------------
(* Fresh ids *)

(* A non-empty set of naturals with a bound has a largest element. *)
LEMMA MaxIsLargest ==
  ASSUME NEW n \in Nat, NEW S \in SUBSET (1..n), S # {}
  PROVE  Max(S) \in S /\ \A x \in S : x <= Max(S)
<1> DEFINE gaps == {k \in Nat : n - k \in S}
           less == {ss \in Nat \X Nat : ss[1] < ss[2]}
<1>1. gaps \subseteq Nat /\ gaps # {}
  <2>1. PICK x \in S : TRUE
    OBVIOUS
  <2>2. n - x \in gaps
    BY <2>1
  <2> QED BY <2>2
<1>2. IsWellFoundedOn({ss \in Nat \X Nat : ss[1] < ss[2]}, Nat)
  BY NatLessThanWellFounded DEF OpToRel
<1>3. PICK least \in gaps : \A k \in gaps : ~(<<k, least>> \in less)
  <2> HIDE DEF gaps, less
  <2> QED BY <1>1, <1>2, WFMin DEF less
<1>4. ASSUME NEW k \in gaps PROVE least <= k
  <2>1. ~(<<k, least>> \in less) /\ least \in Nat /\ k \in Nat
    BY <1>3
  <2>2. <<k, least>> \in Nat \X Nat /\ <<k, least>>[1] = k /\ <<k, least>>[2] = least
    BY <2>1
  <2>3. ~(k < least)
    BY <2>1, <2>2
  <2> QED BY <2>1, <2>3
<1>5. \A x \in S : n - x \in gaps
  OBVIOUS
<1>6. n - least \in S /\ \A x \in S : n - least >= x
  BY <1>4, <1>5
<1>7. \E m \in S : \A x \in S : m >= x
  BY <1>6
<1> QED
  BY <1>7 DEF Max

(* create_session draws an id no session bears. *)
LEMMA NewIdIsFresh ==
  ASSUME Tables
  PROVE  NewId \in 1..(opened + 1) /\ \A s \in sessions : s.id # NewId
<1>1. CASE sessions = {}
  BY <1>1 DEF NewId, Tables
<1>2. CASE sessions # {}
  <2> DEFINE ids == {s.id : s \in sessions}
  <2>1. ids \in SUBSET (1..opened) /\ ids # {} /\ opened \in Nat
    BY <1>2 DEF Tables
  <2>2. Max(ids) \in ids /\ \A x \in ids : x <= Max(ids)
    <3> HIDE DEF ids
    <3> QED BY <2>1, MaxIsLargest
  <2>3. NewId = 1 + Max(ids)
    BY <1>2 DEF NewId
  <2>4. \A s \in sessions : s.id \in ids
    OBVIOUS
  <2> HIDE DEF ids
  <2>5. \A s \in sessions : s.id \in 1..opened /\ s.id <= Max(ids)
    BY <2>1, <2>2, <2>4
  <2>6. Max(ids) \in 1..opened
    BY <2>1, <2>2
  <2> QED
    BY <2>1, <2>3, <2>5, <2>6
<1> QED
  BY <1>1, <1>2

-----------------------------------------------------------------------------
(* What several handlers do *)

(* _start_session: the new row keeps ids apart. *)
LEMMA StartSessionStep ==
  ASSUME Tables, UniqueIds, NEW u, NEW pw, StartSession(u, pw)
  PROVE  /\ UniqueIds'
         /\ opened' = opened + 1 /\ opened' \in 0..MaxSessions
         /\ \E id \in 1..opened' :
              sessions' = sessions \union {[id |-> id, user |-> u, pw |-> pw]}
<1>1. NewId \in 1..(opened + 1) /\ \A s \in sessions : s.id # NewId
  BY NewIdIsFresh
<1>2. opened' = opened + 1 /\ opened' \in 0..MaxSessions
  BY DEF StartSession, Tables
<1>3. sessions' = sessions \union {[id |-> NewId, user |-> u, pw |-> pw]}
  BY DEF StartSession
<1> HIDE DEF NewId
<1>4. UniqueIds'
  BY <1>1, <1>3 DEF UniqueIds
<1> QED
  BY <1>1, <1>2, <1>3, <1>4

(* create_user: one more row, and the others as they were. *)
LEMMA WithUserStep ==
  ASSUME Tables, NEW u \in Users, u \notin DOMAIN accounts, NEW role \in Roles,
         accounts' = WithUser(u, role), changes' = changes
  PROVE  /\ DOMAIN accounts' = DOMAIN accounts \union {u}
         /\ accounts' \in [DOMAIN accounts' -> Rows']
         /\ accounts'[u] = Account(role)
         /\ \A v \in DOMAIN accounts : accounts'[v] = accounts[v]
  BY DEF Tables, WithUser, Rows, Account

(* update_password_hash: a password of the account's own, all else as it was. *)
LEMMA SetPasswordStep ==
  ASSUME Tables, NEW u \in DOMAIN accounts, SetPassword(u)
  PROVE  /\ DOMAIN accounts' = DOMAIN accounts
         /\ changes' = changes + 1 /\ changes' \in 0..MaxChanges
         /\ accounts' \in [DOMAIN accounts' -> Rows']
         /\ \A v \in DOMAIN accounts : /\ accounts'[v].role = accounts[v].role
                                       /\ accounts'[v].active = accounts[v].active
                                       /\ v # u => accounts'[v].pw = accounts[v].pw
  BY DEF Tables, SetPassword, Rows

-----------------------------------------------------------------------------
(* Every step preserves the invariant *)

LEMMA InitIInv == Init => IInv
<1> SUFFICES ASSUME Init PROVE IInv
  OBVIOUS
<1> USE DEF Init
<1>1. Tables
  BY DEF Tables, Rows
<1>2. UniqueIds
  BY DEF UniqueIds
<1>3. Memories
  <2>1. stale \in BOOLEAN
    OBVIOUS
  <2>2. /\ req \in [Requests -> [who : DOMAIN accounts, sid : 1..MaxSessions] \union {NoReq}]
        /\ kept \in [Users -> 0..MaxSessions]
        /\ cut \subseteq DOMAIN accounts
    OBVIOUS
  <2> QED BY <2>1, <2>2, Zenon DEF Memories
<1>4. Tokens
  BY DEF Tokens, NoReset
<1>5. OldPasswordsOpenNothing /\ AdminRemains /\ LinksSingleUse
  BY DEF OldPasswordsOpenNothing, AdminRemains, LinksSingleUse
<1> QED
  BY <1>1, <1>2, <1>3, <1>4, <1>5 DEF IInv

(* Sessions end and handlers begin or finish: the tables only shrink. *)
LEMMA FewerSessionsStep ==
  ASSUME IInv, sessions' \subseteq sessions,
         req' \in [Requests -> [who : DOMAIN accounts, sid : 1..MaxSessions] \union {NoReq}],
         UNCHANGED <<accounts, changes, links, loop, opened, printed, spent, kept, cut, stale>>
  PROVE  IInv'
<1> USE DEF IInv
<1>1. Tables'
  BY DEF Tables, Rows
<1>2. UniqueIds'
  BY DEF UniqueIds
<1>3. Memories'
  BY DEF Memories
<1>4. Tokens'
  BY DEF Tokens
<1>5. OldPasswordsOpenNothing'
  BY DEF OldPasswordsOpenNothing
<1>6. AdminRemains'
  BY DEF AdminRemains, ActiveAdmin
<1>7. LinksSingleUse'
  BY DEF LinksSingleUse
<1> QED
  BY <1>1, <1>2, <1>3, <1>4, <1>5, <1>6, <1>7

LEMMA LoginStep == ASSUME IInv, NEW u \in Users, NEW pw \in Passwords, Login(u, pw) PROVE IInv'
<1>1. /\ UNCHANGED <<accounts, changes, links, req, loop, printed, spent, kept, cut, stale>>
      /\ u \in DOMAIN accounts /\ pw = accounts[u].pw /\ StartSession(u, pw)
  BY DEF Login
<1>2. /\ UniqueIds' /\ opened' = opened + 1 /\ opened' \in 0..MaxSessions
      /\ \E id \in 1..opened' : sessions' = sessions \union {[id |-> id, user |-> u, pw |-> pw]}
  BY <1>1, StartSessionStep DEF IInv
<1>3. PICK id \in 1..opened' : sessions' = sessions \union {[id |-> id, user |-> u, pw |-> pw]}
  BY <1>2
<1>4. Tables'
  BY <1>1, <1>2, <1>3 DEF IInv, Tables, Rows
<1>5. Memories' /\ Tokens'
  BY <1>1 DEF IInv, Memories, Tokens
<1>6. OldPasswordsOpenNothing'
  BY <1>1, <1>3 DEF IInv, OldPasswordsOpenNothing
<1>7. AdminRemains' /\ LinksSingleUse'
  BY <1>1 DEF IInv, AdminRemains, ActiveAdmin, LinksSingleUse
<1> QED
  BY <1>2, <1>4, <1>5, <1>6, <1>7 DEF IInv

(* An account is created, by its owner or by an administrator, with or      *)
(* without its first session: it is an administrator's if it is the first.  *)
LEMMA NewAccountStep ==
  ASSUME IInv, NEW u \in Users, u \notin DOMAIN accounts, NEW role \in Roles,
         accounts' = WithUser(u, role),
         DOMAIN accounts = {} => role = "admin" \/ stale',
         UniqueIds', opened' \in 0..MaxSessions, opened <= opened',
         sessions' \subseteq sessions \union [id : 1..opened', user : {u}, pw : {1}],
         stale' \in BOOLEAN, stale => stale',
         req' \in [Requests -> [who : DOMAIN accounts, sid : 1..MaxSessions] \union {NoReq}],
         UNCHANGED <<changes, links, loop, printed, spent, kept, cut>>
  PROVE  IInv'
<1>1. /\ DOMAIN accounts' = DOMAIN accounts \union {u}
      /\ accounts' \in [DOMAIN accounts' -> Rows']
      /\ accounts'[u] = Account(role)
      /\ \A v \in DOMAIN accounts : accounts'[v] = accounts[v]
  BY WithUserStep DEF IInv
<1>2. Tables'
  <2>1. DOMAIN accounts' \subseteq Users /\ changes' \in 0..MaxChanges
    BY <1>1 DEF IInv, Tables
  <2>2. ASSUME NEW s \in sessions'
        PROVE  s \in [id : 1..opened', user : DOMAIN accounts', pw : 1..(changes' + 1)]
    <3>1. CASE s \in sessions
      <4>1. s \in [id : 1..opened, user : DOMAIN accounts, pw : 1..(changes + 1)]
        BY <3>1 DEF IInv, Tables
      <4>2. opened \in Nat /\ opened' \in Nat /\ changes' = changes
        BY DEF IInv, Tables
      <4> QED BY <4>1, <4>2, <1>1
    <3>2. CASE s \in [id : 1..opened', user : {u}, pw : {1}]
      BY <3>2, <1>1 DEF IInv, Tables
    <3> QED BY <3>1, <3>2
  <2> QED BY <1>1, <2>1, <2>2 DEF Tables
<1>3. Memories'
  BY <1>1 DEF IInv, Memories
<1>4. Tokens'
  BY <1>1 DEF IInv, Tokens
<1>5. OldPasswordsOpenNothing'
  BY <1>1 DEF IInv, Tables, OldPasswordsOpenNothing, Account
<1>6. AdminRemains'
  <2> SUFFICES ASSUME ~stale' PROVE \E v \in Users : ActiveAdmin(v)'
    BY DEF AdminRemains
  <2>1. CASE DOMAIN accounts = {}
    BY <2>1, <1>1 DEF ActiveAdmin, Account
  <2>2. CASE DOMAIN accounts # {}
    <3>1. PICK v \in Users : ActiveAdmin(v)
      BY <2>2 DEF IInv, AdminRemains
    <3> QED BY <3>1, <1>1 DEF ActiveAdmin
  <2> QED BY <2>1, <2>2
<1>7. LinksSingleUse'
  BY DEF IInv, LinksSingleUse
<1> QED
  BY <1>2, <1>3, <1>4, <1>5, <1>6, <1>7 DEF IInv

LEMMA SignupStep == ASSUME IInv, NEW u \in Users, Signup(u) PROVE IInv'
<1>1. /\ u \notin DOMAIN accounts /\ accounts' = WithUser(u, SignupRole) /\ StartSession(u, 1)
      /\ UNCHANGED <<changes, links, req, loop, printed, spent, kept, cut, stale>>
  BY DEF Signup
<1>2. /\ UniqueIds' /\ opened' = opened + 1 /\ opened' \in 0..MaxSessions
      /\ \E id \in 1..opened' : sessions' = sessions \union {[id |-> id, user |-> u, pw |-> 1]}
  BY <1>1, StartSessionStep DEF IInv
<1>3. opened <= opened' /\ sessions' \subseteq sessions \union [id : 1..opened', user : {u}, pw : {1}]
  BY <1>2 DEF IInv, Tables
<1>4. SignupRole \in Roles /\ (DOMAIN accounts = {} => SignupRole = "admin")
  BY DEF SignupRole, Roles
<1>5. /\ req' \in [Requests -> [who : DOMAIN accounts, sid : 1..MaxSessions] \union {NoReq}]
      /\ stale' \in BOOLEAN /\ (stale => stale')
  BY <1>1, Zenon DEF IInv, Memories
<1> HIDE DEF SignupRole
<1> QED
  BY <1>1, <1>2, <1>3, <1>4, <1>5, NewAccountStep

LEMMA CreateUserStep ==
  ASSUME IInv, NEW r \in Requests, NEW u \in Users, NEW role \in Roles, CreateUser(r, u, role)
  PROVE  IInv'
<1>1. /\ u \notin DOMAIN accounts /\ accounts' = WithUser(u, role)
      /\ stale' = (stale \/ ~ActiveAdmin(req[r].who))
      /\ req[r] # NoReq /\ req' = [req EXCEPT ![r] = NoReq]
      /\ UNCHANGED <<changes, sessions, opened, kept, cut, links, loop, printed, spent>>
  BY DEF CreateUser, Resume
<1>2. UniqueIds' /\ opened' \in 0..MaxSessions /\ opened <= opened'
  BY <1>1 DEF IInv, Tables, UniqueIds
<1>3. req' \in [Requests -> [who : DOMAIN accounts, sid : 1..MaxSessions] \union {NoReq}]
  BY <1>1 DEF IInv, Memories
<1>4. DOMAIN accounts # {}
  BY <1>1 DEF IInv, Memories
<1>5. stale' \in BOOLEAN /\ (stale => stale')
  BY <1>1, Zenon
<1> QED
  BY <1>1, <1>2, <1>3, <1>4, <1>5, NewAccountStep

LEMMA KillInSignupStep == ASSUME IInv, NEW u \in Users, KillInSignup(u) PROVE IInv'
<1>1. /\ u \notin DOMAIN accounts /\ accounts' = WithUser(u, SignupRole)
      /\ req' = [r \in Requests |-> NoReq]
      /\ UNCHANGED <<changes, sessions, opened, kept, cut, stale, links, loop, printed, spent>>
  BY DEF KillInSignup, Die
<1>2. UniqueIds' /\ opened' \in 0..MaxSessions /\ opened <= opened'
  BY <1>1 DEF IInv, Tables, UniqueIds
<1>3. req' \in [Requests -> [who : DOMAIN accounts, sid : 1..MaxSessions] \union {NoReq}]
  BY <1>1
<1>4. SignupRole \in Roles /\ (DOMAIN accounts = {} => SignupRole = "admin")
  BY DEF SignupRole, Roles
<1>5. stale' \in BOOLEAN /\ (stale => stale')
  BY <1>1, Zenon DEF IInv, Memories
<1> HIDE DEF SignupRole
<1> QED
  BY <1>1, <1>2, <1>3, <1>4, <1>5, NewAccountStep

(* A password is changed: what the handler leaves of the account's sessions *)
(* is the one kept, unless a kill has cut the change short.                 *)
LEMMA NewPasswordStep ==
  ASSUME IInv, NEW u \in DOMAIN accounts, SetPassword(u), sessions' \subseteq sessions,
         \/ /\ \A s \in sessions' : s.user # u \/ s.id = kept'[u]
            /\ cut' = cut \ {u}
            /\ \E id \in 0..MaxSessions : kept' = [kept EXCEPT ![u] = id]
         \/ cut' = cut \union {u} /\ kept' = kept,
         req' \in [Requests -> [who : DOMAIN accounts, sid : 1..MaxSessions] \union {NoReq}],
         UNCHANGED <<opened, printed, stale>>
  PROVE  Tables' /\ UniqueIds' /\ Memories' /\ OldPasswordsOpenNothing' /\ AdminRemains'
<1>1. /\ DOMAIN accounts' = DOMAIN accounts
      /\ changes' = changes + 1 /\ changes' \in 0..MaxChanges
      /\ accounts' \in [DOMAIN accounts' -> Rows']
      /\ \A v \in DOMAIN accounts : /\ accounts'[v].role = accounts[v].role
                                    /\ accounts'[v].active = accounts[v].active
                                    /\ v # u => accounts'[v].pw = accounts[v].pw
  BY SetPasswordStep DEF IInv
<1>2. Tables'
  <2>1. ASSUME NEW s \in sessions'
        PROVE  s \in [id : 1..opened', user : DOMAIN accounts', pw : 1..(changes' + 1)]
    <3>1. s \in [id : 1..opened, user : DOMAIN accounts, pw : 1..(changes + 1)]
      BY DEF IInv, Tables
    <3>2. changes \in Nat /\ changes' = changes + 1
      BY <1>1 DEF IInv, Tables
    <3> QED BY <3>1, <3>2, <1>1
  <2> QED BY <1>1, <2>1 DEF IInv, Tables
<1>3. UniqueIds'
  BY DEF IInv, UniqueIds
<1>4. Memories'
  <2>1. kept' \in [Users -> 0..MaxSessions]
    BY DEF IInv, Memories
  <2>2. cut' \subseteq DOMAIN accounts'
    BY <1>1 DEF IInv, Memories
  <2>3. stale' \in BOOLEAN
    BY Zenon DEF IInv, Memories
  <2> QED BY <1>1, <2>1, <2>2, <2>3, Zenon DEF Memories
<1>5. OldPasswordsOpenNothing'
  <2> SUFFICES ASSUME NEW s \in sessions'
               PROVE  s.pw = accounts'[s.user].pw \/ s.id = kept'[s.user] \/ s.user \in cut'
    BY DEF OldPasswordsOpenNothing
  <2>1. s \in sessions /\ s.user \in DOMAIN accounts /\ DOMAIN accounts \subseteq Users
    BY DEF IInv, Tables
  <2>2. CASE s.user = u
    BY <2>1, <2>2
  <2>3. CASE s.user # u
    <3>1. s.pw = accounts[s.user].pw \/ s.id = kept[s.user] \/ s.user \in cut
      BY <2>1 DEF IInv, OldPasswordsOpenNothing
    <3>2. kept'[s.user] = kept[s.user]
      BY <2>1, <2>3 DEF IInv, Memories
    <3>3. s.user \in cut => s.user \in cut'
      BY <2>3
    <3> QED BY <2>1, <2>3, <3>1, <3>2, <3>3, <1>1
  <2> QED BY <2>2, <2>3
<1>6. AdminRemains'
  <2> SUFFICES ASSUME ~stale' PROVE \E v \in Users : ActiveAdmin(v)'
    BY DEF AdminRemains
  <2>1. PICK v \in Users : ActiveAdmin(v)
    BY DEF IInv, AdminRemains
  <2> QED BY <1>1, <2>1 DEF ActiveAdmin
<1> QED
  BY <1>2, <1>3, <1>4, <1>5, <1>6

(* The links are left alone, and no account goes. *)
LEMMA SameLinksStep ==
  ASSUME IInv, UNCHANGED <<links, loop, printed, spent>>, DOMAIN accounts \subseteq DOMAIN accounts'
  PROVE  Tokens' /\ LinksSingleUse'
<1>1. Tokens'
  BY DEF IInv, Tokens
<1> QED
  BY <1>1 DEF IInv, LinksSingleUse

LEMMA ChangePasswordStep == ASSUME IInv, NEW r \in Requests, ChangePassword(r) PROVE IInv'
<1> DEFINE u == req[r].who
<1>1. /\ req[r] # NoReq /\ req' = [req EXCEPT ![r] = NoReq]
      /\ SetPassword(u) /\ sessions' = WithoutOthers(u, req[r].sid)
      /\ kept' = [kept EXCEPT ![u] = req[r].sid] /\ cut' = cut \ {u}
      /\ UNCHANGED <<opened, stale, links, loop, printed, spent>>
  BY DEF ChangePassword, Resume
<1>2. u \in DOMAIN accounts /\ u \in Users /\ req[r].sid \in 0..MaxSessions
  BY <1>1 DEF IInv, Memories, Tables
<1>3. req' \in [Requests -> [who : DOMAIN accounts, sid : 1..MaxSessions] \union {NoReq}]
  BY <1>1 DEF IInv, Memories
<1>4. kept'[u] = req[r].sid
  BY <1>1, <1>2 DEF IInv, Memories
<1>5. sessions' \subseteq sessions /\ \A s \in sessions' : s.user # u \/ s.id = kept'[u]
  BY <1>1, <1>4 DEF WithoutOthers
<1>6. DOMAIN accounts' = DOMAIN accounts
  BY <1>1, <1>2, SetPasswordStep DEF IInv
<1>7. Tokens' /\ LinksSingleUse'
  BY <1>1, <1>6, SameLinksStep
<1> HIDE DEF u
<1>8. Tables' /\ UniqueIds' /\ Memories' /\ OldPasswordsOpenNothing' /\ AdminRemains'
  BY <1>1, <1>2, <1>3, <1>5, NewPasswordStep
<1> QED
  BY <1>7, <1>8 DEF IInv

LEMMA KillInChangeStep == ASSUME IInv, NEW r \in Requests, KillInChange(r) PROVE IInv'
<1> DEFINE u == req[r].who
<1>1. /\ req[r] # NoReq /\ req' = [q \in Requests |-> NoReq]
      /\ SetPassword(u) /\ cut' = cut \union {u} /\ sessions' \subseteq sessions
      /\ UNCHANGED <<opened, kept, stale, links, loop, printed, spent>>
  BY DEF KillInChange, Die
<1>2. u \in DOMAIN accounts
  BY <1>1 DEF IInv, Memories
<1>3. req' \in [Requests -> [who : DOMAIN accounts, sid : 1..MaxSessions] \union {NoReq}]
  BY <1>1
<1>4. DOMAIN accounts' = DOMAIN accounts
  BY <1>1, <1>2, SetPasswordStep DEF IInv
<1>5. Tokens' /\ LinksSingleUse'
  BY <1>1, <1>4, SameLinksStep
<1> HIDE DEF u
<1>6. Tables' /\ UniqueIds' /\ Memories' /\ OldPasswordsOpenNothing' /\ AdminRemains'
  BY <1>1, <1>2, <1>3, NewPasswordStep
<1> QED
  BY <1>5, <1>6 DEF IInv

(* The administrator who acts is not the one who is deactivated; if he has  *)
(* lost the right to, that is noted.                                        *)
LEMMA ToggleActiveStep ==
  ASSUME IInv, NEW r \in Requests, NEW u \in Users, ToggleActive(r, u) PROVE IInv'
<1> DEFINE me == req[r].who
<1>1. /\ req[r] # NoReq /\ req' = [req EXCEPT ![r] = NoReq]
      /\ u \in DOMAIN accounts \ {me}
      /\ accounts' = [accounts EXCEPT ![u].active = ~@]
      /\ stale' = (stale \/ ~ActiveAdmin(me))
      /\ UNCHANGED <<changes, sessions, opened, kept, cut, links, loop, printed, spent>>
  BY DEF ToggleActive, Resume
<1>2. me \in DOMAIN accounts /\ DOMAIN accounts \subseteq Users
  BY <1>1 DEF IInv, Memories, Tables
<1>3. /\ DOMAIN accounts' = DOMAIN accounts
      /\ accounts'[me] = accounts[me]
      /\ \A v \in DOMAIN accounts : accounts'[v].pw = accounts[v].pw
  BY <1>1, <1>2 DEF IInv, Tables, Rows
<1>4. accounts' \in [DOMAIN accounts' -> Rows']
  <2>1. ASSUME NEW v \in DOMAIN accounts' PROVE accounts'[v] \in Rows
    <3>1. accounts[v] \in Rows
      BY <1>3 DEF IInv, Tables
    <3>2. CASE v # u
      BY <1>1, <1>3, <3>1, <3>2
    <3>3. CASE v = u
      <4>1. accounts'[u] = [accounts[u] EXCEPT !.active = ~@]
        BY <1>1
      <4>2. \A a \in Rows : [a EXCEPT !.active = ~@] \in Rows
        BY DEF Rows
      <4> QED BY <3>1, <3>3, <4>1, <4>2
    <3> QED BY <3>2, <3>3
  <2>2. accounts' = [v \in DOMAIN accounts' |-> accounts'[v]]
    BY <1>1
  <2>3. Rows' = Rows
    BY <1>1 DEF Rows
  <2> QED BY <2>1, <2>2, <2>3
<1>5. Tables'
  BY <1>1, <1>3, <1>4 DEF IInv, Tables
<1>6. UniqueIds'
  BY <1>1 DEF IInv, UniqueIds
<1>7. Memories'
  <2>1. stale' \in BOOLEAN
    BY <1>1, Zenon
  <2>2. req' \in [Requests -> [who : DOMAIN accounts, sid : 1..MaxSessions] \union {NoReq}]
    BY <1>1 DEF IInv, Memories
  <2> QED BY <1>1, <1>3, <2>1, <2>2, Zenon DEF IInv, Memories
<1>8. OldPasswordsOpenNothing'
  BY <1>1, <1>3 DEF IInv, Tables, OldPasswordsOpenNothing
<1>9. AdminRemains'
  <2> SUFFICES ASSUME ~stale' PROVE \E v \in Users : ActiveAdmin(v)'
    BY DEF AdminRemains
  <2>1. ActiveAdmin(me)
    BY <1>1, Zenon
  <2> QED BY <2>1, <1>2, <1>3 DEF ActiveAdmin
<1>10. Tokens' /\ LinksSingleUse'
  BY <1>1, <1>3, SameLinksStep
<1> QED
  BY <1>5, <1>6, <1>7, <1>8, <1>9, <1>10 DEF IInv

(* Only links move: what concerns accounts and sessions stays. *)
LEMMA OnlyLinksStep ==
  ASSUME IInv, UNCHANGED <<accounts, changes, sessions, opened, kept, cut, stale>>,
         req' \in [Requests -> [who : DOMAIN accounts, sid : 1..MaxSessions] \union {NoReq}]
  PROVE  Tables' /\ UniqueIds' /\ Memories' /\ OldPasswordsOpenNothing' /\ AdminRemains'
<1>1. Tables'
  BY DEF IInv, Tables, Rows
<1>2. UniqueIds'
  BY DEF IInv, UniqueIds
<1>3. Memories'
  BY Zenon DEF IInv, Memories
<1>4. OldPasswordsOpenNothing'
  BY DEF IInv, OldPasswordsOpenNothing
<1>5. AdminRemains'
  BY DEF IInv, AdminRemains, ActiveAdmin
<1> QED
  BY <1>1, <1>2, <1>3, <1>4, <1>5

LEMMA PrintLinkStep == ASSUME IInv, NEW u \in Users, PrintLink(u) PROVE IInv'
<1>1. /\ u \in DOMAIN accounts /\ printed < MaxLinks /\ printed' = printed + 1
      /\ links' = [links EXCEPT ![u] = printed + 1]
      /\ UNCHANGED <<accounts, changes, sessions, req, loop, opened, spent, kept, cut, stale>>
  BY DEF PrintLink
<1>2. Tables' /\ UniqueIds' /\ Memories' /\ OldPasswordsOpenNothing' /\ AdminRemains'
  BY <1>1, OnlyLinksStep DEF IInv, Memories
<1>3. Tokens'
  BY <1>1 DEF IInv, Tokens, NoReset
<1>4. LinksSingleUse'
  BY <1>1 DEF IInv, Tokens, LinksSingleUse
<1> QED
  BY <1>2, <1>3, <1>4 DEF IInv

LEMMA ResetReadStep ==
  ASSUME IInv, NEW u \in Users, NEW tok \in 1..MaxLinks, NEW expired \in BOOLEAN,
         ResetRead(u, tok, expired)
  PROVE  IInv'
<1>1. /\ links[u] # 0 /\ (expired \/ tok = links[u])
      /\ loop' = [user |-> u, tok |-> IF expired THEN 0 ELSE tok]
      /\ UNCHANGED <<accounts, changes, sessions, links, req, opened, printed, spent, kept, cut, stale>>
  BY DEF ResetRead
<1>2. Tables' /\ UniqueIds' /\ Memories' /\ OldPasswordsOpenNothing' /\ AdminRemains'
  BY <1>1, OnlyLinksStep DEF IInv, Memories
<1>3. Tokens'
  <2>1. CASE expired
    BY <1>1, <2>1 DEF IInv, Tokens
  <2>2. CASE ~expired
    BY <1>1, <2>2 DEF IInv, Tokens
  <2> QED BY <2>1, <2>2
<1>4. LinksSingleUse'
  BY <1>1 DEF IInv, LinksSingleUse
<1> QED
  BY <1>2, <1>3, <1>4 DEF IInv

(* The link that was read is in force for nobody once it is burnt. *)
LEMMA BurnStep ==
  ASSUME IInv, NEW changed \in BOOLEAN, Burn(changed), printed' = printed,
         DOMAIN accounts' = DOMAIN accounts
  PROVE  Tokens' /\ LinksSingleUse' /\ loop.user \in DOMAIN accounts /\ loop.user \in Users
<1>1. /\ loop # NoReset /\ links' = [links EXCEPT ![loop.user] = 0]
      /\ spent' = spent \union ({loop.tok} \ {0}) /\ loop' = NoReset
  BY DEF Burn
<1>2. loop.user \in DOMAIN accounts /\ loop.user \in Users /\ loop.tok \in 0..printed
  BY <1>1 DEF IInv, Tokens, Tables
<1>3. Tokens'
  <2>1. \A v \in Users : links'[v] = IF v = loop.user THEN 0 ELSE links[v]
    BY <1>1 DEF IInv, Tokens
  <2>2. links' \in [Users -> 0..printed] /\ spent' \subseteq 1..printed
    <3>1. printed \in Nat /\ links \in [Users -> 0..printed] /\ spent \subseteq 1..printed
      BY DEF IInv, Tokens
    <3>2. links' \in [Users -> 0..printed]
      <4>1. 0 \in 0..printed
        BY <3>1
      <4>2. \A v \in Users : [links EXCEPT ![v] = 0] \in [Users -> 0..printed]
        BY <3>1, <4>1
      <4> QED BY <1>1, <1>2, <4>2
    <3>3. \A n \in {loop.tok} \ {0} : n \in 1..printed
      BY <1>2, <3>1
    <3> QED BY <1>1, <3>1, <3>2, <3>3
  <2>3. loop'.tok = 0
    BY <1>1 DEF NoReset
  <2> QED BY <1>1, <2>1, <2>2, <2>3 DEF IInv, Tokens
<1>4. LinksSingleUse'
  BY <1>1, <1>2 DEF IInv, Tokens, LinksSingleUse
<1> QED
  BY <1>2, <1>3, <1>4

LEMMA ResetFinishStep == ASSUME IInv, NEW changed \in BOOLEAN, ResetFinish(changed) PROVE IInv'
<1> DEFINE u == loop.user
<1>1. Burn(changed) /\ UNCHANGED <<req, opened, printed, stale>> /\ u \in DOMAIN accounts
  BY DEF ResetFinish, Burn, IInv, Tokens
<1>2. req' \in [Requests -> [who : DOMAIN accounts, sid : 1..MaxSessions] \union {NoReq}]
  BY <1>1 DEF IInv, Memories
<1>3. CASE changed
  <2>1. /\ SetPassword(u) /\ sessions' = WithoutOthers(u, 0)
        /\ kept' = [kept EXCEPT ![u] = 0] /\ cut' = cut \ {u}
    BY <1>3 DEF ResetFinish
  <2>2. sessions' \subseteq sessions /\ \A s \in sessions' : s.user # u
    BY <2>1 DEF WithoutOthers, IInv, Tables
  <2>3. DOMAIN accounts' = DOMAIN accounts
    BY <1>1, <2>1, SetPasswordStep DEF IInv
  <2>4. Tokens' /\ LinksSingleUse'
    BY <1>1, <2>3, BurnStep
  <2>5. 0 \in 0..MaxSessions
    OBVIOUS
  <2> HIDE DEF u
  <2>6. Tables' /\ UniqueIds' /\ Memories' /\ OldPasswordsOpenNothing' /\ AdminRemains'
    BY <1>1, <1>2, <2>1, <2>2, <2>5, NewPasswordStep
  <2> QED BY <2>4, <2>6 DEF IInv
<1>4. CASE ~changed
  <2>1. UNCHANGED <<accounts, changes, sessions, kept, cut>>
    BY <1>4 DEF ResetFinish
  <2>2. Tokens' /\ LinksSingleUse'
    BY <1>1, <2>1, BurnStep
  <2>3. Tables' /\ UniqueIds' /\ Memories' /\ OldPasswordsOpenNothing' /\ AdminRemains'
    BY <1>1, <1>2, <2>1, OnlyLinksStep
  <2> QED BY <2>2, <2>3 DEF IInv
<1> QED
  BY <1>3, <1>4

LEMMA KillInResetStep == ASSUME IInv, NEW changed \in BOOLEAN, KillInReset(changed) PROVE IInv'
<1> DEFINE u == loop.user
<1>1. /\ Burn(changed) /\ UNCHANGED <<sessions, opened, printed, kept, stale>>
      /\ u \in DOMAIN accounts /\ sessions' \subseteq sessions
  BY DEF KillInReset, Die, Burn, IInv, Tokens
<1>2. req' \in [Requests -> [who : DOMAIN accounts, sid : 1..MaxSessions] \union {NoReq}]
  BY DEF KillInReset, Die
<1>3. CASE changed
  <2>1. SetPassword(u) /\ cut' = cut \union {u}
    BY <1>3 DEF KillInReset
  <2>2. DOMAIN accounts' = DOMAIN accounts
    BY <1>1, <2>1, SetPasswordStep DEF IInv
  <2>3. Tokens' /\ LinksSingleUse'
    BY <1>1, <2>2, BurnStep
  <2> HIDE DEF u
  <2>4. Tables' /\ UniqueIds' /\ Memories' /\ OldPasswordsOpenNothing' /\ AdminRemains'
    BY <1>1, <1>2, <2>1, NewPasswordStep
  <2> QED BY <2>3, <2>4 DEF IInv
<1>4. CASE ~changed
  <2>1. UNCHANGED <<accounts, changes, cut>>
    BY <1>4 DEF KillInReset
  <2>2. Tokens' /\ LinksSingleUse'
    BY <1>1, <2>1, BurnStep
  <2>3. Tables' /\ UniqueIds' /\ Memories' /\ OldPasswordsOpenNothing' /\ AdminRemains'
    BY <1>1, <1>2, <2>1, OnlyLinksStep
  <2> QED BY <2>2, <2>3 DEF IInv
<1> QED
  BY <1>3, <1>4

LEMMA KillStep == ASSUME IInv, Kill PROVE IInv'
<1>1. /\ loop' = NoReset /\ req' = [r \in Requests |-> NoReq]
      /\ UNCHANGED <<accounts, changes, sessions, links, opened, printed, spent, kept, cut, stale>>
  BY DEF Kill, Die
<1>2. Tables' /\ UniqueIds' /\ Memories' /\ OldPasswordsOpenNothing' /\ AdminRemains'
  BY <1>1, OnlyLinksStep
<1>3. Tokens'
  BY <1>1 DEF IInv, Tokens, NoReset
<1>4. LinksSingleUse'
  BY <1>1 DEF IInv, LinksSingleUse
<1> QED
  BY <1>2, <1>3, <1>4 DEF IInv

LEMMA StepIInv == IInv /\ [Next]_vars => IInv'
<1> SUFFICES ASSUME IInv, [Next]_vars PROVE IInv'
  OBVIOUS
<1> DEFINE Known == [who : DOMAIN accounts, sid : 1..MaxSessions] \union {NoReq}
<1>1. ASSUME NEW r \in Requests, Resume(r) PROVE req' \in [Requests -> Known]
  BY <1>1 DEF Resume, IInv, Memories
<1>2. ASSUME NEW s \in sessions, Expire(s) PROVE IInv'
  <2>1. sessions' \subseteq sessions /\ req' \in [Requests -> Known]
    BY <1>2 DEF Expire, WithoutId, IInv, Memories
  <2> QED BY <1>2, <2>1, FewerSessionsStep DEF Expire
<1>3. ASSUME NEW s \in sessions, NEW r \in Requests, Begin(r, s) PROVE IInv'
  <2>1. s.user \in DOMAIN accounts /\ s.id \in 1..MaxSessions
    BY DEF IInv, Tables
  <2>2. sessions' \subseteq sessions /\ req' \in [Requests -> Known]
    BY <1>3, <2>1 DEF Begin, IInv, Memories
  <2> QED BY <1>3, <2>2, FewerSessionsStep DEF Begin
<1>4. ASSUME NEW r \in Requests, Refuse(r) PROVE IInv'
  BY <1>1, <1>4, FewerSessionsStep DEF Refuse, Resume
<1>5. ASSUME NEW r \in Requests, Logout(r) PROVE IInv'
  BY <1>1, <1>5, FewerSessionsStep DEF Logout, Resume, WithoutId
<1>6. ASSUME NEW r \in Requests, NEW id \in 1..MaxSessions, Revoke(r, id) PROVE IInv'
  BY <1>1, <1>6, FewerSessionsStep DEF Revoke, Resume, WithoutId
<1>7. ASSUME NEW r \in Requests, RevokeOthers(r) PROVE IInv'
  BY <1>1, <1>7, FewerSessionsStep DEF RevokeOthers, Resume, WithoutOthers
<1>8. ASSUME NEW r \in Requests, Finish(r) PROVE IInv'
  BY <1>4, <1>5, <1>6, <1>7, <1>8, ChangePasswordStep, ToggleActiveStep, CreateUserStep DEF Finish
<1>9. CASE UNCHANGED vars
  <2>1. sessions' \subseteq sessions /\ req' \in [Requests -> Known]
    BY <1>9 DEF vars, IInv, Memories
  <2> QED BY <1>9, <2>1, FewerSessionsStep DEF vars
<1> QED
  BY <1>2, <1>3, <1>8, <1>9, SignupStep, PrintLinkStep, LoginStep, ResetReadStep,
     ResetFinishStep, KillInResetStep, KillStep, KillInChangeStep, KillInSignupStep DEF Next

LEMMA InvariantHolds == Spec => []IInv
  BY InitIInv, StepIInv, PTL DEF Spec

-----------------------------------------------------------------------------
(* Results *)

(* The state has its type; an id identifies a session although ids of ended *)
(* sessions are given away again (store/auth.py, create_session).           *)
THEOREM TypeCorrect == Spec => []TypeOK
<1>1. IInv => TypeOK
  <2> SUFFICES ASSUME IInv PROVE TypeOK
    OBVIOUS
  <2>1. /\ DOMAIN accounts \subseteq Users
        /\ \A u \in DOMAIN accounts : accounts[u] \in [role : Roles, active : BOOLEAN, pw : Passwords]
        /\ sessions \subseteq [id : 1..MaxSessions, user : DOMAIN accounts, pw : Passwords]
        /\ opened \in 0..MaxSessions /\ changes \in 0..MaxChanges
    BY DEF IInv, Tables, Rows, Passwords
  <2>2. \A s, t \in sessions : s.id = t.id => s = t
    BY DEF IInv, UniqueIds
  <2>3. /\ printed \in 0..MaxLinks /\ links \in [Users -> 0..printed] /\ spent \subseteq 1..printed
        /\ loop.user \in DOMAIN accounts \union {NoReset.user} /\ loop.tok \in 0..printed
    BY DEF IInv, Tokens, NoReset
  <2>4. \A r \in Requests : \/ req[r] = NoReq
                            \/ req[r].who \in DOMAIN accounts /\ req[r].sid \in 1..MaxSessions
    BY DEF IInv, Memories
  <2>5. kept \in [Users -> 0..MaxSessions] /\ cut \subseteq DOMAIN accounts /\ stale \in BOOLEAN
    BY Zenon DEF IInv, Memories
  <2> QED BY <2>1, <2>2, <2>3, <2>4, <2>5, Zenon DEF TypeOK
<1> QED
  BY <1>1, InvariantHolds, PTL

(* A password change or a reset leaves no session opened with an earlier    *)
(* password except the one kept, however logins, other changes, kills and   *)
(* reused ids interleave (handle_password_change, handle_reset_password).   *)
THEOREM OldPasswordsStayShut == Spec => []OldPasswordsOpenNothing
<1>1. IInv => OldPasswordsOpenNothing
  BY DEF IInv
<1> QED
  BY <1>1, InvariantHolds, PTL

(* handle_user_deactivate never leaves the instance without an active       *)
(* administrator, unless one who had lost the right to finished a request.  *)
THEOREM AnAdminRemains == Spec => []AdminRemains
<1>1. IInv => AdminRemains
  BY DEF IInv
<1> QED
  BY <1>1, InvariantHolds, PTL

(* A reset link that was burnt is never in force again                      *)
(* (_consume_reset_token beside the operator's reset-password).             *)
THEOREM LinksAreSingleUse == Spec => []LinksSingleUse
<1>1. IInv => LinksSingleUse
  BY DEF IInv
<1> QED
  BY <1>1, InvariantHolds, PTL

(* A finishing handler ends sessions of its own user only, or the one that  *)
(* bears the id it came with (handle_logout, handle_session_revoke and the  *)
(* password change).                                                        *)
THEOREM OnlyOwnSessionsEnd == Spec => OwnSessionsOnly
<1> DEFINE Ends(r) == req[r] # NoReq /\ req'[r] = NoReq =>
                        \A s \in sessions \ sessions' : s.user = req[r].who \/ s.id = req[r].sid
<1>1. ASSUME IInv, [Next]_vars PROVE \A r \in Requests : Ends(r)
  <2> SUFFICES ASSUME NEW r \in Requests, req[r] # NoReq, req'[r] = NoReq,
                      NEW s \in sessions \ sessions'
               PROVE  s.user = req[r].who \/ s.id = req[r].sid
    OBVIOUS
  <2>1. req \in [Requests -> [who : DOMAIN accounts, sid : 1..MaxSessions] \union {NoReq}]
    BY <1>1 DEF IInv, Memories
  <2>2. ASSUME NEW q \in Requests, Finish(q) PROVE q = r
    <3>1. req' = [req EXCEPT ![q] = NoReq]
      BY <2>2 DEF Finish, Resume, Refuse, Logout, ChangePassword, RevokeOthers, Revoke,
                  ToggleActive, CreateUser
    <3> QED BY <3>1, <2>1
  <2>3. CASE Finish(r)
    <3>1. CASE Refuse(r) \/ \E u \in Users : ToggleActive(r, u) \/ \E role \in Roles : CreateUser(r, u, role)
      BY <3>1 DEF Refuse, ToggleActive, CreateUser
    <3>2. CASE Logout(r)
      BY <3>2 DEF Logout, WithoutId
    <3>3. CASE ChangePassword(r) \/ RevokeOthers(r)
      BY <3>3 DEF ChangePassword, RevokeOthers, WithoutOthers
    <3>4. ASSUME NEW id \in 1..MaxSessions, Revoke(r, id) PROVE s.user = req[r].who
      <4>1. PICK t \in sessions : t.user = req[r].who /\ t.id = id
        BY <3>4 DEF Revoke
      <4>2. s.id = id
        BY <3>4 DEF Revoke, WithoutId
      <4>3. s = t
        BY <1>1, <4>1, <4>2 DEF IInv, UniqueIds
      <4> QED BY <4>1, <4>3
    <3> QED BY <2>3, <3>1, <3>2, <3>3, <3>4 DEF Finish
  <2>4. CASE \E u \in Users : \/ Signup(u) \/ PrintLink(u)
                              \/ \E pw \in Passwords : Login(u, pw)
                              \/ \E tok \in 1..MaxLinks, expired \in BOOLEAN : ResetRead(u, tok, expired)
    BY <2>4 DEF Signup, PrintLink, Login, ResetRead
  <2>5. CASE \E t \in sessions : Expire(t) \/ \E q \in Requests : Begin(q, t)
    <3>1. ASSUME NEW t \in sessions, Expire(t) PROVE FALSE
      BY <3>1 DEF Expire
    <3>2. ASSUME NEW t \in sessions, NEW q \in Requests, Begin(q, t) PROVE FALSE
      BY <3>2 DEF Begin
    <3> QED BY <2>5, <3>1, <3>2
  <2>6. CASE \E changed \in BOOLEAN : ResetFinish(changed) \/ KillInReset(changed)
    BY <2>6 DEF ResetFinish, KillInReset
  <2>7. CASE Kill \/ (\E q \in Requests : KillInChange(q)) \/ \E u \in Users : KillInSignup(u)
    BY <2>7 DEF Kill, KillInChange, KillInSignup
  <2>8. CASE UNCHANGED vars
    BY <2>8 DEF vars
  <2> QED
    BY <1>1, <2>2, <2>3, <2>4, <2>5, <2>6, <2>7, <2>8 DEF Next
<1>2. IInv /\ [Next]_vars => [\A r \in Requests : Ends(r)]_vars
  BY <1>1
<1> QED
  BY <1>2, InvariantHolds, PTL DEF Spec, OwnSessionsOnly

-----------------------------------------------------------------------------
(* The rate limiter in front of login and signup (module Limiter).  What it *)
(* forgets must not matter: the hits kept for a key are allowed attempts,   *)
(* and those of them that are live at any later time are all the live ones. *)
(* Everything else is counting.                                             *)

(* Attempts lie in the past, are finitely many, and are what is kept. *)
Past ==
  \A k \in Keys : /\ IsFiniteSet(granted[k])
                  /\ \A h \in granted[k] : h.at <= now
                  /\ hits[k] \subseteq granted[k]

(* A refused key waits for a time at which fewer than the limit are live. *)
Promises ==
  \A k \in Keys : promised[k] # 0 =>
    Cardinality({h \in granted[k] : h.at > promised[k] - Window}) < MaxHits

LimiterInv == LimiterTypeOK /\ Past /\ Remembers /\ WithinLimit /\ Promises

USE LimiterAssumption

(* Subsets of what was allowed are finite and counted by naturals. *)
LEMMA Counting ==
  ASSUME LimiterInv, NEW k \in Keys, NEW s, s \subseteq granted[k]
  PROVE  IsFiniteSet(s) /\ Cardinality(s) \in Nat
  BY FS_Subset, FS_CardinalityType DEF LimiterInv, Past

(* No attempt has been recorded before the first. *)
LEMMA LimiterInitInv == LimiterInit => LimiterInv
<1> SUFFICES ASSUME LimiterInit PROVE LimiterInv
  OBVIOUS
<1> USE DEF LimiterInit
<1>1. LimiterTypeOK
  <2>1. \A k \in Keys : Cardinality(hits[k]) <= MaxHits
    BY FS_EmptySet
  <2>2. now \in 0..MaxTime /\ pruneNow \in 0..now
    OBVIOUS
  <2>3. /\ hits \in [Keys -> SUBSET Hit] /\ granted \in [Keys -> SUBSET Hit]
        /\ promised \in [Keys -> Nat]
    OBVIOUS
  <2>4. sweeping \in BOOLEAN
    OBVIOUS
  <2> QED
    BY <2>1, <2>2, <2>3, <2>4, Zenon DEF LimiterTypeOK
<1>2. Past
  BY FS_EmptySet DEF Past
<1>3. Remembers
  BY DEF Remembers, Live
<1>4. WithinLimit
  <2> SUFFICES ASSUME NEW k \in Keys, NEW t \in 0..now
               PROVE  Cardinality({h \in granted[k] : h.at > t - Window /\ h.at <= t}) <= MaxHits
    BY DEF WithinLimit
  <2>1. {h \in granted[k] : h.at > t - Window /\ h.at <= t} = {}
    OBVIOUS
  <2> QED BY <2>1, FS_EmptySet
<1>5. Promises
  BY DEF Promises
<1> QED
  BY <1>1, <1>2, <1>3, <1>4, <1>5 DEF LimiterInv

(* The clock: the live hits shrink, on both sides alike. *)
LEMMA TickStep == LimiterInv /\ Tick => LimiterInv'
<1> SUFFICES ASSUME LimiterInv, Tick PROVE LimiterInv'
  OBVIOUS
<1> USE DEF Tick
<1>1. LimiterTypeOK'
  BY DEF LimiterInv, LimiterTypeOK, Hit
<1>2. Past'
  BY DEF LimiterInv, LimiterTypeOK, Past, Hit
<1>3. Remembers'
  BY DEF LimiterInv, LimiterTypeOK, Remembers, Live, Hit
<1>4. WithinLimit'
  <2> SUFFICES ASSUME NEW k \in Keys, NEW t \in 0..now'
               PROVE  Cardinality({h \in granted[k] : h.at > t - Window /\ h.at <= t}) <= MaxHits
    BY DEF WithinLimit
  <2>1. CASE t \in 0..now
    BY <2>1 DEF LimiterInv, WithinLimit
  <2>2. CASE t = now + 1
    <3> DEFINE new == {h \in granted[k] : h.at > t - Window /\ h.at <= t}
               old == {h \in granted[k] : h.at > now - Window /\ h.at <= now}
    <3>1. new \subseteq old /\ old \subseteq granted[k]
      BY <2>2 DEF LimiterInv, LimiterTypeOK, Past, Hit
    <3>2. Cardinality(old) <= MaxHits
      BY DEF LimiterInv, LimiterTypeOK, WithinLimit
    <3>3. IsFiniteSet(old) /\ Cardinality(old) \in Nat /\ Cardinality(new) \in Nat
      <4> HIDE DEF new, old
      <4> QED BY <3>1, Counting
    <3> HIDE DEF new, old
    <3>4. Cardinality(new) <= Cardinality(old)
      BY <3>1, <3>3, FS_Subset
    <3>5. Cardinality(new) <= MaxHits
      BY <3>2, <3>3, <3>4
    <3> QED BY <3>5 DEF new
  <2> QED
    BY <2>1, <2>2 DEF LimiterInv, LimiterTypeOK
<1>5. Promises'
  BY DEF LimiterInv, Promises
<1> QED
  BY <1>1, <1>2, <1>3, <1>4, <1>5 DEF LimiterInv

(* An allowed attempt: one more on both sides, and there was room for it. *)
LEMMA GrantStep == ASSUME LimiterInv, NEW k \in Keys, Grant(k) PROVE LimiterInv'
<1> DEFINE live == Live(hits[k], now)
           hit  == [at |-> now, n |-> Cardinality(granted[k]) + 1]
<1>1. hit \in Hit /\ hit.at = now
  BY Counting DEF LimiterInv, LimiterTypeOK, Hit
<1>2. /\ hits' = [hits EXCEPT ![k] = live \union {hit}]
      /\ granted' = [granted EXCEPT ![k] = granted[k] \union {hit}]
      /\ promised' = [promised EXCEPT ![k] = 0]
      /\ UNCHANGED <<now, sweeping, pruneNow>>
  BY DEF Grant
<1>3. live \subseteq hits[k] /\ live \subseteq granted[k] /\ live = Live(granted[k], now)
  BY DEF Live, LimiterInv, Past, Remembers
<1>4. IsFiniteSet(live \union {hit}) /\ Cardinality(live \union {hit}) \in 0..MaxHits
  <2>1. IsFiniteSet(live) /\ Cardinality(live) \in Nat /\ Cardinality(live) < MaxHits
    BY <1>3, Counting DEF Grant, Room
  <2> HIDE DEF live, hit
  <2>2. /\ IsFiniteSet(live \union {hit})
        /\ Cardinality(live \union {hit}) \in {Cardinality(live), Cardinality(live) + 1}
    BY <2>1, FS_AddElement
  <2> QED
    BY <2>1, <2>2
<1> HIDE DEF hit
<1>5. LimiterTypeOK'
  <2>1. hits' \in [Keys -> SUBSET Hit] /\ granted' \in [Keys -> SUBSET Hit]
    BY <1>1, <1>2, <1>3 DEF LimiterInv, LimiterTypeOK
  <2>2. \A j \in Keys : Cardinality(hits'[j]) <= MaxHits
    <3> HIDE DEF live
    <3> QED BY <1>2, <1>4 DEF LimiterInv, LimiterTypeOK
  <2>3. promised' \in [Keys -> Nat]
    BY <1>2 DEF LimiterInv, LimiterTypeOK
  <2> QED
    BY <1>2, <2>1, <2>2, <2>3 DEF LimiterInv, LimiterTypeOK
<1>6. Past'
  <2> SUFFICES ASSUME NEW j \in Keys
               PROVE  /\ IsFiniteSet(granted'[j])
                      /\ \A h \in granted'[j] : h.at <= now
                      /\ hits'[j] \subseteq granted'[j]
    BY <1>2 DEF Past
  <2>1. CASE j # k
    BY <1>2, <2>1 DEF LimiterInv, LimiterTypeOK, Past
  <2>2. CASE j = k
    <3>1. granted'[k] = granted[k] \union {hit} /\ hits'[k] = live \union {hit}
      BY <1>2 DEF LimiterInv, LimiterTypeOK
    <3>2. IsFiniteSet(granted[k] \union {hit})
      BY FS_AddElement DEF LimiterInv, Past
    <3>3. \A h \in granted[k] \union {hit} : h.at <= now
      BY <1>1 DEF LimiterInv, LimiterTypeOK, Past
    <3> QED
      BY <1>3, <2>2, <3>1, <3>2, <3>3
  <2> QED
    BY <2>1, <2>2
<1>7. \A j \in Keys : j # k => hits'[j] = hits[j] /\ granted'[j] = granted[j] /\ promised'[j] = promised[j]
  BY <1>2 DEF LimiterInv, LimiterTypeOK
<1>8. hits'[k] = live \union {hit} /\ granted'[k] = granted[k] \union {hit} /\ promised'[k] = 0
  BY <1>2 DEF LimiterInv, LimiterTypeOK
<1>9. Remembers'
  <2> SUFFICES ASSUME NEW j \in Keys PROVE Live(hits'[j], now) = Live(granted'[j], now)
    BY <1>2 DEF Remembers, Live
  <2>1. CASE j # k
    BY <1>7, <2>1 DEF LimiterInv, Remembers
  <2>2. CASE j = k
    BY <1>1, <1>3, <1>8, <2>2 DEF Live
  <2> QED
    BY <2>1, <2>2
<1>10. WithinLimit'
  <2> SUFFICES ASSUME NEW j \in Keys, NEW t \in 0..now
               PROVE  Cardinality({h \in granted'[j] : h.at > t - Window /\ h.at <= t}) <= MaxHits
    BY <1>2 DEF WithinLimit
  <2>1. CASE j # k
    BY <1>7, <2>1 DEF LimiterInv, WithinLimit
  <2>2. CASE j = k /\ t < now
    <3>1. {h \in granted'[j] : h.at > t - Window /\ h.at <= t}
            = {h \in granted[k] : h.at > t - Window /\ h.at <= t}
      BY <1>1, <1>8, <2>2 DEF LimiterInv, LimiterTypeOK
    <3> QED
      BY <3>1 DEF LimiterInv, WithinLimit
  <2>3. CASE j = k /\ t = now
    <3> DEFINE span == {h \in granted'[j] : h.at > t - Window /\ h.at <= t}
    <3>1. span = live \union {hit}
      BY <1>1, <1>3, <1>8, <2>3 DEF LimiterInv, LimiterTypeOK, Past, Live
    <3> HIDE DEF live, span
    <3>2. Cardinality(span) <= MaxHits
      BY <1>4, <3>1
    <3> QED
      BY <3>2 DEF span
  <2> QED
    BY <2>1, <2>2, <2>3 DEF LimiterInv, LimiterTypeOK
<1>11. Promises'
  <2> SUFFICES ASSUME NEW j \in Keys, promised'[j] # 0
               PROVE  Cardinality({h \in granted'[j] : h.at > promised'[j] - Window}) < MaxHits
    BY DEF Promises
  <2>1. j # k
    BY <1>8
  <2> QED
    BY <1>7, <2>1 DEF LimiterInv, Promises
<1> QED
  BY <1>5, <1>6, <1>9, <1>10, <1>11 DEF LimiterInv

(* A refusal: the promise is the time at which the oldest live hit has left *)
(* the window, and the others are fewer than the limit.                     *)
LEMMA RejectStep == ASSUME LimiterInv, NEW k \in Keys, Reject(k) PROVE LimiterInv'
<1> DEFINE live == Live(hits[k], now)
<1>1. PICK oldest \in live :
        /\ hits' = [hits EXCEPT ![k] = live]
        /\ promised' = [promised EXCEPT ![k] = now + (Window - (now - oldest.at))]
        /\ UNCHANGED <<now, sweeping, pruneNow, granted>>
  BY DEF Reject
<1>2. live \subseteq hits[k] /\ live \subseteq granted[k] /\ live = Live(granted[k], now)
  BY DEF Live, LimiterInv, Past, Remembers
<1>3. oldest \in Hit /\ oldest.at \in 0..now /\ oldest.at > now - Window
  BY <1>2 DEF LimiterInv, LimiterTypeOK, Past, Live, Hit
<1>4. promised' = [promised EXCEPT ![k] = oldest.at + Window]
  <2>1. now + (Window - (now - oldest.at)) = oldest.at + Window
    BY <1>3 DEF LimiterInv, LimiterTypeOK
  <2> QED
    BY <1>1, <2>1
<1>5. IsFiniteSet(live) /\ Cardinality(live) \in 0..MaxHits
  <2>1. IsFiniteSet(live) /\ Cardinality(live) \in Nat
    BY <1>2, Counting
  <2>2. live = {h \in granted[k] : h.at > now - Window /\ h.at <= now}
    BY <1>2 DEF LimiterInv, Past, Live
  <2>3. Cardinality(live) <= MaxHits
    <3> HIDE DEF live
    <3> QED BY <2>2 DEF LimiterInv, LimiterTypeOK, WithinLimit
  <2> QED
    BY <2>1, <2>3
<1>6. LimiterTypeOK'
  <2>1. hits' \in [Keys -> SUBSET Hit]
    BY <1>1, <1>2 DEF LimiterInv, LimiterTypeOK
  <2>2. \A j \in Keys : Cardinality(hits'[j]) <= MaxHits
    <3> HIDE DEF live
    <3> QED BY <1>1, <1>5 DEF LimiterInv, LimiterTypeOK
  <2>3. promised' \in [Keys -> Nat]
    BY <1>3, <1>4 DEF LimiterInv, LimiterTypeOK
  <2> QED
    BY <1>1, <2>1, <2>2, <2>3 DEF LimiterInv, LimiterTypeOK
<1>7. Past'
  BY <1>1, <1>2 DEF LimiterInv, LimiterTypeOK, Past
<1>8. Remembers'
  BY <1>1, <1>2 DEF LimiterInv, LimiterTypeOK, Remembers, Live
<1>9. WithinLimit'
  BY <1>1 DEF LimiterInv, WithinLimit
<1>10. Promises'
  <2> SUFFICES ASSUME NEW j \in Keys, promised'[j] # 0
               PROVE  Cardinality({h \in granted[j] : h.at > promised'[j] - Window}) < MaxHits
    BY <1>1 DEF Promises
  <2>1. CASE j # k
    BY <1>4, <2>1 DEF LimiterInv, LimiterTypeOK, Promises
  <2>2. CASE j = k
    <3> DEFINE later == {h \in granted[k] : h.at > oldest.at}
    <3> DEFINE after == {h \in granted[j] : h.at > promised'[j] - Window}
    <3>1. after = later
      BY <1>3, <1>4, <2>2 DEF LimiterInv, LimiterTypeOK
    <3>2. later \subseteq live \ {oldest}
      BY <1>2, <1>3 DEF Live, LimiterInv, LimiterTypeOK, Hit
    <3> HIDE DEF live, later, after
    <3>3. IsFiniteSet(live \ {oldest}) /\ Cardinality(live \ {oldest}) = Cardinality(live) - 1
      BY <1>5, FS_RemoveElement
    <3>4. Cardinality(later) <= Cardinality(live \ {oldest}) /\ Cardinality(later) \in Nat
      BY <3>2, <3>3, FS_Subset, FS_CardinalityType
    <3>5. Cardinality(after) < MaxHits
      BY <1>5, <3>1, <3>3, <3>4
    <3> QED
      BY <3>5 DEF after
  <2> QED
    BY <2>1, <2>2
<1> QED
  BY <1>6, <1>7, <1>8, <1>9, <1>10 DEF LimiterInv

(* The prune drops a key only if nothing of it was live when the sweep      *)
(* began, hence nothing is live now.                                        *)
LEMMA PruneStep == LimiterInv /\ Prune => LimiterInv'
<1> SUFFICES ASSUME LimiterInv, Prune PROVE LimiterInv'
  OBVIOUS
<1>1. \A k \in Keys : hits'[k] = IF Stale(k) THEN {} ELSE hits[k]
  BY DEF Prune
<1>2. UNCHANGED <<now, granted, promised>>
  BY DEF Prune
<1>3. LimiterTypeOK'
  <2>1. hits' \in [Keys -> SUBSET Hit]
    BY DEF Prune, LimiterInv, LimiterTypeOK
  <2>2. \A k \in Keys : Cardinality(hits'[k]) <= MaxHits
    BY <1>1, FS_EmptySet DEF LimiterInv, LimiterTypeOK
  <2>3. now' \in 0..MaxTime /\ pruneNow' \in 0..now' /\ promised' \in [Keys -> Nat]
    BY DEF Prune, LimiterInv, LimiterTypeOK
  <2>4. granted' \in [Keys -> SUBSET Hit] /\ sweeping' \in BOOLEAN
    BY DEF Prune, LimiterInv, LimiterTypeOK
  <2> QED
    BY <2>1, <2>2, <2>3, <2>4 DEF LimiterTypeOK
<1>4. Past'
  BY <1>1, <1>2 DEF LimiterInv, Past
<1>5. Remembers'
  <2> SUFFICES ASSUME NEW k \in Keys PROVE Live(hits'[k], now) = Live(granted[k], now)
    BY <1>2 DEF Remembers, Live
  <2>1. CASE Stale(k)
    <3>1. Live(hits[k], now) = {}
      BY <2>1 DEF Stale, Live, LimiterInv, LimiterTypeOK, Hit
    <3>2. Live(hits'[k], now) = {}
      BY <1>1, <2>1 DEF Live
    <3> QED
      BY <3>1, <3>2 DEF LimiterInv, Remembers
  <2>2. CASE ~Stale(k)
    BY <1>1, <2>2 DEF LimiterInv, Remembers
  <2> QED
    BY <2>1, <2>2
<1>6. WithinLimit'
  BY <1>2 DEF LimiterInv, WithinLimit
<1>7. Promises'
  BY <1>2 DEF LimiterInv, Promises
<1> QED
  BY <1>3, <1>4, <1>5, <1>6, <1>7 DEF LimiterInv

(* Every step preserves the inductive invariant. *)
LEMMA LimiterStepInv == LimiterInv /\ [LimiterNext]_limiterVars => LimiterInv'
<1> SUFFICES ASSUME LimiterInv, [LimiterNext]_limiterVars PROVE LimiterInv'
  OBVIOUS
<1>1. CASE SweepBegin
  BY <1>1 DEF SweepBegin, LimiterInv, LimiterTypeOK, Past, Remembers, WithinLimit, Promises, Live
<1>2. CASE UNCHANGED limiterVars
  BY <1>2 DEF limiterVars, LimiterInv, LimiterTypeOK, Past, Remembers, WithinLimit, Promises, Live
<1> QED
  BY <1>1, <1>2, TickStep, GrantStep, RejectStep, PruneStep DEF LimiterNext

(* Hence it holds in every reachable state. *)
LEMMA LimiterInvariance == LimiterSpec => []LimiterInv
  BY LimiterInitInv, LimiterStepInv, PTL DEF LimiterSpec

(* Every variable of the limiter keeps its type, and the list kept for a    *)
(* key never holds more than max_hits entries.                              *)
THEOREM LimiterTypeCorrect == LimiterSpec => []LimiterTypeOK
<1>1. LimiterInv => LimiterTypeOK
  BY DEF LimiterInv
<1> QED
  BY <1>1, LimiterInvariance, PTL

(* Discarding old hits and pruning idle keys with a late clock never        *)
(* forgets an attempt that still counts.                                    *)
THEOREM NothingLiveForgotten == LimiterSpec => []Remembers
<1>1. LimiterInv => Remembers
  BY DEF LimiterInv
<1> QED
  BY <1>1, LimiterInvariance, PTL

(* No span of one window, wherever it begins, holds more than max_hits      *)
(* allowed attempts of a key.                                               *)
THEOREM LimitKept == LimiterSpec => []WithinLimit
<1>1. LimiterInv => WithinLimit
  BY DEF LimiterInv
<1> QED
  BY <1>1, LimiterInvariance, PTL

(* A key that waits for retry_after after a refusal is let in.              *)
THEOREM RetryAfterKept == LimiterSpec => []RetryAfterHonest
<1>1. LimiterInv => RetryAfterHonest
  <2> SUFFICES ASSUME LimiterInv, NEW k \in Keys, promised[k] # 0, now >= promised[k]
               PROVE  Room(k)
    BY DEF RetryAfterHonest
  <2> DEFINE later == {h \in granted[k] : h.at > promised[k] - Window}
             live  == Live(hits[k], now)
  <2>1. live \subseteq later /\ later \subseteq granted[k]
    BY DEF LimiterInv, LimiterTypeOK, Remembers, Live, Hit
  <2>2. Cardinality(later) < MaxHits
    BY DEF LimiterInv, Promises
  <2> HIDE DEF later
  <2>3. IsFiniteSet(later) /\ Cardinality(later) \in Nat
    BY <2>1, Counting
  <2>4. Cardinality(live) <= Cardinality(later) /\ Cardinality(live) \in Nat
    <3> HIDE DEF live
    <3> QED BY <2>1, <2>3, FS_Subset, FS_CardinalityType
  <2> QED
    BY <2>2, <2>3, <2>4 DEF Room
<1> QED
  BY <1>1, LimiterInvariance, PTL
=============================================================================
