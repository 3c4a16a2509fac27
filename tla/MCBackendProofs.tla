-------------------------- MODULE MCBackendProofs --------------------------
(***************************************************************************)
(* What is proved of the services that MCBackend puts together, for any    *)
(* accounts, events, exports, logs, feeds and faults: the types, that what *)
(* was said to be done was done, that an administrator remains (but for    *)
(* two requests that take each other's last one away), and that a repeated *)
(* delivery fails for a reason of its own.                                 *)
(*                                                                         *)
(* The services share no state but the count of faults, so each has an     *)
(* invariant of its own, which its steps keep and the steps of the others  *)
(* leave alone.  The names of each begin with its own word: Account, Misp, *)
(* Import, Sensor (the pull of the log) and Feed (the paged read).  The    *)
(* snapshot of the Gateway has its proofs in GatewayFeedProofs.            *)
(***************************************************************************)
EXTENDS MCBackend, GatewayFeedProofs, FiniteSetTheorems, WellFoundedInduction, TLAPS

\* Cardinality means the same in the modules that are put together.
LEMMA Counting ==
    \A S : Users!Cardinality(S) = Cardinality(S) /\ Import!Cardinality(S) = Cardinality(S)
BY DEF Users!Cardinality, Import!Cardinality, Cardinality

\* The bounds are numbers.
LEMMA Numbers ==
    /\ MaxFaults \in Nat /\ MispMaxRequests \in Nat /\ ImportMaxRequests \in Nat
    /\ ImportMaxRewrites \in Nat /\ SensorIdle \in Nat /\ SensorLimit \in Nat
    /\ SensorMaxLog \in Nat /\ SensorMaxTime \in Nat /\ FeedMaxPages \in Nat
    /\ FeedMaxStamp \in Nat
BY BackendAssumption

-----------------------------------------------------------------------------
(* The accounts.                                                           *)

AccountChanges == {"role", "active"}

AccountAsked ==
    [step : {"free", "lookup", "protect", "commit"}, user : AccountNames \cup {None},
     ask : Users!Ask \cup {None}, row : Users!Row \cup {None}]

\* A row that administers, and another account that does than the one asked about.
AccountRules(row)      == row.role = "admin" /\ row.active
AccountOthersRemain(a) == \E m \in AccountNames \ {a} : Users!MayAdminister(m)
AccountSomeRemain      == \E m \in AccountNames : Users!MayAdminister(m)

\* What a request has read was so: who asked was an administrator, and while none
\* was taken away that it knows of, there is one, another than the account whose
\* row was no administrator's or whose change was let through.
AccountRequestHolds(r) ==
    LET q == accountRequest[r] IN
    /\ q.step = "lookup" =>
          /\ q.ask \in Users!Ask /\ q.ask.op \in AccountChanges \cup {"create"}
          /\ q.user \in AccountNames /\ q.row \in Users!Row /\ AccountRules(q.row)
          /\ accountUsers[q.user] # None
          /\ r \notin accountOvertaken => AccountSomeRemain
    /\ q.step \in {"protect", "commit"} =>
          /\ q.ask \in Users!Ask
          /\ q.ask.op \in AccountChanges =>
                /\ q.row \in Users!Row /\ accountUsers[q.ask.name] # None
                /\ r \notin accountOvertaken /\ ~AccountRules(q.row) =>
                      AccountOthersRemain(q.ask.name)
    /\ q.step = "commit" /\ q.ask.op \in AccountChanges /\ r \notin accountOvertaken =>
          (Users!Weakens(q) => AccountOthersRemain(q.ask.name))

AccountInv ==
    /\ accountUsers \in [AccountNames -> Users!Row \cup {None}]
    /\ accountRequest \in [AccountRequests -> AccountAsked]
    /\ accountOvertaken \subseteq AccountRequests
    /\ \A r \in AccountRequests : AccountRequestHolds(r)

\* The action property of BackendAccounts.
AccountRemains ==
    (\E n \in AccountNames : Users!MayAdminister(n)) =>
        \/ \E n \in AccountNames : Users!MayAdminister(n)'
        \/ \E r \in accountOvertaken :
               accountRequest[r].step = "commit" /\ accountRequest'[r] = Users!Free

\* Of two or more, one is another.
LEMMA AccountAnotherOf ==
    ASSUME NEW S, IsFiniteSet(S), NEW a, ~(Cardinality(S) <= 1)
    PROVE  \E m \in S : m # a
<1>1. SUFFICES ASSUME S \subseteq {a} PROVE FALSE  OBVIOUS
<1>2. IsFiniteSet({a}) /\ Cardinality({a}) = 1  BY FS_Singleton
<1>3. Cardinality(S) <= Cardinality({a})  BY <1>1, <1>2, FS_Subset
<1> QED  BY <1>2, <1>3

LEMMA AccountFreeAsked == Users!Free \in AccountAsked /\ Users!Free.step = "free"
BY DEF Users!Free, AccountAsked

\* The request r takes a step that commits nothing.
LEMMA AccountStepReads ==
    ASSUME AccountInv, NEW r \in AccountRequests, NEW q \in AccountAsked, UNCHANGED accountUsers,
           accountRequest' = [accountRequest EXCEPT ![r] = q],
           accountOvertaken' \in {accountOvertaken, accountOvertaken \ {r}},
           AccountRequestHolds(r)'
    PROVE  AccountInv' /\ AccountRemains
<1>1. /\ accountRequest' \in [AccountRequests -> AccountAsked]
      /\ \A x \in AccountRequests \ {r} : accountRequest'[x] = accountRequest[x]
      /\ accountOvertaken' \subseteq AccountRequests
      /\ \A x \in AccountRequests \ {r} : x \notin accountOvertaken' => x \notin accountOvertaken
  BY DEF AccountInv
<1>2. /\ \A n : Users!MayAdminister(n)' <=> Users!MayAdminister(n)
  BY DEF Users!MayAdminister, Users!Exists
<1>3. /\ AccountSomeRemain' <=> AccountSomeRemain
      /\ \A n : AccountOthersRemain(n)' <=> AccountOthersRemain(n)
  BY <1>2 DEF AccountSomeRemain, AccountOthersRemain
<1>4. ASSUME NEW x \in AccountRequests \ {r} PROVE AccountRequestHolds(x)'
  <2>1. accountRequest'[x] = accountRequest[x] /\ AccountRequestHolds(x)
    BY <1>1 DEF AccountInv
  <2>2. AccountOthersRemain(accountRequest[x].ask.name)' <=> AccountOthersRemain(accountRequest[x].ask.name)
    BY <1>3, <2>1 DEF AccountOthersRemain
  <2> QED  BY <1>1, <1>3, <2>1, <2>2 DEF AccountRequestHolds, Users!Weakens, AccountOthersRemain
<1>5. AccountRemains  BY <1>2 DEF AccountRemains
<1> QED  BY <1>1, <1>4, <1>5 DEF AccountInv

LEMMA AccountAuthoriseKeeps ==
    ASSUME AccountInv, NEW r \in AccountRequests, NEW n \in AccountNames, NEW ask \in Users!Ask,
           Users!Authorise(r, n, ask)
    PROVE  AccountInv' /\ AccountRemains
<1> DEFINE q == [step |-> "lookup", user |-> n, ask |-> ask, row |-> accountUsers[n]]
<1>1. /\ ask.op \in AccountChanges \cup {"create"} /\ UNCHANGED accountUsers
      /\ accountRequest' = [accountRequest EXCEPT ![r] = q]
      /\ accountOvertaken' = accountOvertaken \ {r} /\ Users!MayAdminister(n)
  BY DEF Users!Authorise, AccountChanges
<1>2. accountUsers[n] \in Users!Row /\ AccountRules(accountUsers[n])
  BY <1>1 DEF AccountInv, Users!MayAdminister, Users!Exists, AccountRules
<1>3. q \in AccountAsked  BY DEF AccountInv, AccountAsked
<1>4. accountRequest'[r] = q  BY <1>1 DEF AccountInv
<1>5. AccountSomeRemain'
  BY <1>1 DEF AccountSomeRemain, Users!MayAdminister, Users!Exists
<1>6. AccountRequestHolds(r)'
  <2>1. accountUsers[n] # None  BY <1>1 DEF Users!MayAdminister, Users!Exists
  <2> QED  BY <1>1, <1>2, <1>4, <1>5, <2>1 DEF AccountRequestHolds, AccountRules
<1> HIDE DEF q
<1> QED  BY <1>1, <1>3, <1>6, AccountStepReads

LEMMA AccountAnonymousKeeps ==
    ASSUME AccountInv, NEW r \in AccountRequests, NEW ask \in Users!Ask, Users!Anonymous(r, ask)
    PROVE  AccountInv' /\ AccountRemains
<1> DEFINE q == [Users!Free EXCEPT !.step = "commit", !.ask = ask]
<1>1. /\ ask.op \in {"bootstrap", "register"} /\ UNCHANGED accountUsers
      /\ accountRequest' = [accountRequest EXCEPT ![r] = q]
      /\ accountOvertaken' = accountOvertaken \ {r}
  BY DEF Users!Anonymous
<1>2. q.step = "commit" /\ q.ask = ask /\ q \in AccountAsked  BY DEF Users!Free, AccountAsked
<1>3. accountRequest'[r] = q  BY <1>1 DEF AccountInv
<1> HIDE DEF q
<1>4. AccountRequestHolds(r)'
  BY <1>1, <1>2, <1>3 DEF AccountRequestHolds, AccountChanges
<1> QED  BY <1>1, <1>2, <1>4, AccountStepReads

\* A request that is refused.
LEMMA AccountRefusedKeeps ==
    ASSUME AccountInv, NEW r \in AccountRequests, UNCHANGED <<accountUsers, accountOvertaken>>,
           accountRequest' = [accountRequest EXCEPT ![r] = Users!Free]
    PROVE  AccountInv' /\ AccountRemains
<1>1. accountRequest'[r] = Users!Free  BY DEF AccountInv
<1>2. AccountRequestHolds(r)'  BY <1>1, AccountFreeAsked DEF AccountRequestHolds
<1> QED  BY <1>2, AccountFreeAsked, AccountStepReads

LEMMA AccountLookupKeeps ==
    ASSUME AccountInv, NEW r \in AccountRequests, Users!Lookup(r)
    PROVE  AccountInv' /\ AccountRemains
<1> DEFINE q   == accountRequest[r]
           row == IF q.ask.name = q.user THEN q.row ELSE accountUsers[q.ask.name]
           p   == [q EXCEPT !.step = "protect", !.row = row]
<1>1. PICK found \in BOOLEAN :
        /\ found => (q.ask.op = "create" \/ row # None)
        /\ UNCHANGED <<accountUsers, accountOvertaken>> /\ q.step = "lookup"
        /\ accountRequest' = [accountRequest EXCEPT ![r] = IF found THEN p ELSE Users!Free]
  BY DEF Users!Lookup
<1>2. AccountRequestHolds(r)  BY DEF AccountInv
<1>3. /\ q.ask \in Users!Ask /\ q.row \in Users!Row /\ AccountRules(q.row)
      /\ q.ask.op \in AccountChanges \cup {"create"} /\ accountUsers[q.user] # None
      /\ r \notin accountOvertaken => AccountSomeRemain
  BY <1>1, <1>2 DEF AccountRequestHolds
<1>4. q.ask.name \in AccountNames  BY <1>3 DEF Users!Ask
<1>5. CASE ~found  BY <1>1, <1>5, AccountRefusedKeeps
<1>6. CASE found
  <2>1. row \in Users!Row \cup {None}  BY <1>3, <1>4 DEF AccountInv
  <2>2. q.ask.op \in AccountChanges => row \in Users!Row /\ accountUsers[q.ask.name] # None
    BY <1>1, <1>3, <1>4, <1>6, <2>1 DEF AccountChanges
  <2>3. ASSUME q.ask.op \in AccountChanges, r \notin accountOvertaken, ~AccountRules(row)
        PROVE  AccountOthersRemain(q.ask.name)
    <3>1. row = accountUsers[q.ask.name]  BY <1>3, <2>3
    <3>2. PICK m \in AccountNames : Users!MayAdminister(m)
      BY <1>3, <2>3 DEF AccountSomeRemain
    <3>3. m # q.ask.name  BY <2>3, <3>1, <3>2 DEF Users!MayAdminister, AccountRules
    <3> QED  BY <3>2, <3>3 DEF AccountOthersRemain
  <2> HIDE DEF row
  <2>4. p \in AccountAsked /\ p.step = "protect" /\ p.ask = q.ask /\ p.row = row
    <3>1. q \in AccountAsked  BY DEF AccountInv
    <3> QED  BY <2>1, <3>1 DEF AccountAsked
  <2>5. accountRequest'[r] = p  BY <1>1, <1>6 DEF AccountInv
  <2> HIDE DEF p
  <2>6. AccountOthersRemain(q.ask.name)' <=> AccountOthersRemain(q.ask.name)
    BY <1>1, <2>4, <2>5 DEF AccountOthersRemain, Users!MayAdminister, Users!Exists
  <2>7. AccountRequestHolds(r)'
    <3>1. accountRequest'[r].ask.name = q.ask.name  BY <2>4, <2>5
    <3>2. AccountOthersRemain(accountRequest[r].ask.name)' <=> AccountOthersRemain(q.ask.name)
      BY <1>1, <3>1 DEF AccountOthersRemain, Users!MayAdminister, Users!Exists
    <3> QED  BY <1>1, <1>3, <2>2, <2>3, <2>4, <2>5, <3>2 DEF AccountRequestHolds, AccountRules
  <2> QED  BY <1>1, <1>6, <2>4, <2>7, AccountStepReads
<1> QED  BY <1>5, <1>6

LEMMA AccountProtectKeeps ==
    ASSUME AccountInv, NEW r \in AccountRequests, Users!Protect(r)
    PROVE  AccountInv' /\ AccountRemains
<1> DEFINE q == accountRequest[r]
           p == [q EXCEPT !.step = "commit"]
<1>1. /\ q.step = "protect" /\ UNCHANGED <<accountUsers, accountOvertaken>>
      /\ \/ accountRequest' = [accountRequest EXCEPT ![r] = Users!Free]
         \/ /\ ~(Users!Weakens(q) /\ Cardinality(Users!Administrators) <= 1)
            /\ accountRequest' = [accountRequest EXCEPT ![r] = p]
  BY Counting DEF Users!Protect
<1>2. AccountRequestHolds(r) /\ q \in AccountAsked  BY DEF AccountInv
<1>3. CASE accountRequest' = [accountRequest EXCEPT ![r] = Users!Free]
  BY <1>1, <1>3, AccountRefusedKeeps
<1>4. CASE /\ ~(Users!Weakens(q) /\ Cardinality(Users!Administrators) <= 1)
           /\ accountRequest' = [accountRequest EXCEPT ![r] = p]
  <2>1. p \in AccountAsked /\ p.step = "commit" /\ p.ask = q.ask /\ p.row = q.row
    BY <1>2 DEF AccountAsked
  <2>2. accountRequest'[r] = p  BY <1>4 DEF AccountInv
  <2> HIDE DEF p
  <2>3. ASSUME Users!Weakens(q) PROVE AccountOthersRemain(q.ask.name)
    <3>1. IsFiniteSet(Users!Administrators)
      BY BackendAssumption, FS_Subset DEF Users!Administrators
    <3>2. ~(Cardinality(Users!Administrators) <= 1)  BY <1>4, <2>3
    <3>3. PICK m \in Users!Administrators : m # q.ask.name  BY <3>1, <3>2, AccountAnotherOf
    <3> QED  BY <3>3 DEF AccountOthersRemain, Users!Administrators, Users!MayAdminister
  <2>4. AccountRequestHolds(r)'
    <3>1. accountRequest'[r].ask.name = q.ask.name  BY <2>1, <2>2
    <3>2. AccountOthersRemain(accountRequest[r].ask.name)' <=> AccountOthersRemain(q.ask.name)
      BY <1>1, <3>1 DEF AccountOthersRemain, Users!MayAdminister, Users!Exists
    <3>3. Users!Weakens(accountRequest[r])' <=> Users!Weakens(q)
      BY <2>1, <2>2 DEF Users!Weakens
    <3> QED  BY <1>1, <1>2, <2>1, <2>2, <2>3, <3>2, <3>3 DEF AccountRequestHolds, AccountRules
  <2> QED  BY <1>1, <1>4, <2>1, <2>4, AccountStepReads
<1> QED  BY <1>1, <1>3, <1>4

\* What a commit leaves of the row: one that is no administrator's any more was
\* no administrator's when it was read, or the change was checked.
LEMMA AccountCommitted ==
    ASSUME AccountInv, NEW r \in AccountRequests, accountRequest[r].step = "commit"
    PROVE  LET q == accountRequest[r]
               a == q.ask.name
               x == Users!Committed(q)
           IN  /\ a \in AccountNames /\ x \in Users!Row
               /\ q.ask.op \in AccountChanges =>
                     /\ accountUsers[a] \in Users!Row /\ q.row \in Users!Row
                     /\ AccountRules(accountUsers[a]) /\ AccountRules(q.row) /\ ~Users!Weakens(q)
                           => AccountRules(x)
<1> DEFINE q == accountRequest[r]
           a == q.ask.name
           x == Users!Committed(q)
<1>1. AccountRequestHolds(r)  BY DEF AccountInv
<1>2. q.ask \in Users!Ask /\ (q.ask.op \in AccountChanges => q.row \in Users!Row /\ accountUsers[a] # None)
  BY <1>1 DEF AccountRequestHolds
<1>3. a \in AccountNames /\ q.ask.role \in Users!Roles /\ q.ask.active \in BOOLEAN
  BY <1>2 DEF Users!Ask
<1>4. q.ask.op \in AccountChanges => accountUsers[a] \in Users!Row  BY <1>2, <1>3 DEF AccountInv
<1>5. CASE q.ask.op = "role"
  <2>1. x = [accountUsers[a] EXCEPT !.role = IF q.ask.role = q.row.role THEN @ ELSE q.ask.role]
    BY <1>5 DEF Users!Committed
  <2>2. accountUsers[a] \in Users!Row /\ q.row \in Users!Row  BY <1>2, <1>4, <1>5 DEF AccountChanges
  <2>3. x = [role |-> IF q.ask.role = q.row.role THEN accountUsers[a].role ELSE q.ask.role,
             active |-> accountUsers[a].active]
    BY <2>1, <2>2 DEF Users!Row
  <2> QED  BY <1>3, <1>5, <2>2, <2>3 DEF Users!Row, Users!Weakens, AccountRules, AccountChanges
<1>6. CASE q.ask.op = "active"
  <2>1. x = [accountUsers[a] EXCEPT !.active = IF q.ask.active = q.row.active THEN @ ELSE q.ask.active]
    BY <1>6 DEF Users!Committed
  <2>2. accountUsers[a] \in Users!Row /\ q.row \in Users!Row  BY <1>2, <1>4, <1>6 DEF AccountChanges
  <2>3. x = [role |-> accountUsers[a].role,
             active |-> IF q.ask.active = q.row.active THEN accountUsers[a].active ELSE q.ask.active]
    BY <2>1, <2>2 DEF Users!Row
  <2> QED  BY <1>3, <1>6, <2>2, <2>3 DEF Users!Row, Users!Weakens, AccountRules, AccountChanges
<1>7. CASE q.ask.op \notin AccountChanges
  <2>1. x = [role |-> q.ask.role, active |-> TRUE]  BY <1>7 DEF Users!Committed, AccountChanges
  <2> QED  BY <1>3, <1>7, <2>1 DEF Users!Row
<1> QED  BY <1>5, <1>6, <1>7 DEF AccountChanges

LEMMA AccountCommitKeeps ==
    ASSUME AccountInv, NEW r \in AccountRequests, Users!Commit(r)
    PROVE  AccountInv' /\ AccountRemains
<1> DEFINE q == accountRequest[r]
           x == Users!Committed(q)
<1>0. PICK a : a = q.ask.name  OBVIOUS
<1> DEFINE away == /\ q.ask.op \in AccountChanges /\ Users!MayAdminister(a) /\ ~AccountRules(x)
<1>1. /\ q.step = "commit" /\ accountRequest' = [accountRequest EXCEPT ![r] = Users!Free]
      /\ accountOvertaken' = (accountOvertaken \cup Users!Disturbed(r)) \ {r}
      /\ \/ UNCHANGED accountUsers /\ q.ask.op \notin AccountChanges
         \/ /\ q.ask.op \in AccountChanges \/ ~Users!Exists(a)
            /\ accountUsers' = [accountUsers EXCEPT ![a] = x]
  BY <1>0 DEF Users!Commit, AccountChanges
<1>2. /\ a \in AccountNames /\ x \in Users!Row
      /\ q.ask.op \in AccountChanges =>
            /\ accountUsers[a] \in Users!Row /\ q.row \in Users!Row
            /\ AccountRules(accountUsers[a]) /\ AccountRules(q.row) /\ ~Users!Weakens(q)
                  => AccountRules(x)
  BY <1>0, <1>1, AccountCommitted
<1>3. Users!Disturbed(r) = {p \in AccountRequests :
          /\ away
          /\ \/ accountRequest[p].step \in {"protect", "commit"}
             \/ accountRequest[p].step = "lookup" /\ Users!Administrators = {a}}
  BY <1>0 DEF Users!Disturbed, AccountRules, AccountChanges
<1>4. /\ accountRequest' \in [AccountRequests -> AccountAsked]
      /\ accountRequest'[r] = Users!Free
      /\ \A y \in AccountRequests \ {r} : accountRequest'[y] = accountRequest[y]
      /\ accountOvertaken' \subseteq AccountRequests
  BY <1>1, <1>3, AccountFreeAsked DEF AccountInv
<1> HIDE DEF x
<1>5. /\ accountUsers' \in [AccountNames -> Users!Row \cup {None}]
      /\ \A n \in AccountNames : accountUsers[n] # None => accountUsers'[n] # None
      /\ \A n \in AccountNames \ {a} : Users!MayAdminister(n) => Users!MayAdminister(n)'
      /\ Users!MayAdminister(a) /\ ~away => Users!MayAdminister(a)'
  <2>1. CASE UNCHANGED accountUsers
    BY <2>1 DEF AccountInv, Users!MayAdminister, Users!Exists
  <2>2. CASE /\ q.ask.op \in AccountChanges \/ ~Users!Exists(a)
             /\ accountUsers' = [accountUsers EXCEPT ![a] = x]
    <3>1. /\ accountUsers' \in [AccountNames -> Users!Row \cup {None}] /\ accountUsers'[a] = x
          /\ \A n \in AccountNames \ {a} : accountUsers'[n] = accountUsers[n] /\ x # None
      BY <1>2, <2>2, BackendAssumption DEF AccountInv
    <3>2. x # None  BY <1>2, BackendAssumption
    <3> QED  BY <1>2, <2>2, <3>1, <3>2 DEF Users!MayAdminister, Users!Exists, AccountRules
  <2> QED  BY <1>1, <2>1, <2>2
<1> HIDE DEF away
<1>6. ASSUME NEW y \in AccountRequests PROVE AccountRequestHolds(y)'
  <2>1. CASE y = r  BY <1>4, <2>1, AccountFreeAsked DEF AccountRequestHolds
  <2>2. CASE y # r
    <3> DEFINE p == accountRequest[y]
    <3>1. accountRequest'[y] = p /\ AccountRequestHolds(y) /\ (y \notin accountOvertaken' => y \notin accountOvertaken)
      BY <1>1, <1>4, <2>2 DEF AccountInv
    <3>2. p.step = "lookup" => p.user \in AccountNames /\ accountUsers'[p.user] # None
      BY <1>5, <3>1 DEF AccountRequestHolds
    <3>3. p.step \in {"protect", "commit"} =>
              (p.ask.op \in AccountChanges => accountUsers'[p.ask.name] # None)
      BY <1>5, <3>1 DEF AccountRequestHolds, Users!Ask
    <3>4. ASSUME p.step = "lookup", y \notin accountOvertaken'
          PROVE  AccountSomeRemain'
      <4>1. AccountSomeRemain  BY <3>1, <3>4 DEF AccountRequestHolds
      <4>2. CASE ~away
        BY <1>5, <4>1, <4>2 DEF AccountSomeRemain
      <4>3. CASE away
        <5>1. Users!Administrators # {a}  BY <1>1, <1>3, <2>2, <3>4, <4>3
        <5>2. a \in Users!Administrators
          BY <1>2, <4>3 DEF away, Users!Administrators, Users!MayAdminister
        <5>3. PICK m \in Users!Administrators : m # a  BY <5>1, <5>2
        <5>4. Users!MayAdminister(m) /\ m \in AccountNames
          BY <5>3 DEF Users!Administrators, Users!MayAdminister
        <5> QED  BY <1>5, <5>3, <5>4 DEF AccountSomeRemain
      <4> QED  BY <4>2, <4>3
    <3>5. ASSUME p.step \in {"protect", "commit"}, y \notin accountOvertaken',
                 AccountOthersRemain(p.ask.name)
          PROVE  AccountOthersRemain(accountRequest[y].ask.name)'
      <4>1. ~away  BY <1>1, <1>3, <2>2, <3>5
      <4>2. PICK m \in AccountNames \ {p.ask.name} : Users!MayAdminister(m)
        BY <3>5 DEF AccountOthersRemain
      <4>3. Users!MayAdminister(m)'  BY <1>5, <4>1, <4>2
      <4> QED  BY <3>1, <4>2, <4>3 DEF AccountOthersRemain
    <3>6. Users!Weakens(accountRequest[y])' <=> Users!Weakens(p)  BY <3>1 DEF Users!Weakens
    <3> QED
      BY <3>1, <3>2, <3>3, <3>4, <3>5, <3>6 DEF AccountRequestHolds, AccountRules
  <2> QED  BY <2>1, <2>2
<1>7. AccountRemains
  <2> SUFFICES ASSUME NEW n \in AccountNames, Users!MayAdminister(n),
                      r \notin accountOvertaken
               PROVE  \E m \in AccountNames : Users!MayAdminister(m)'
    BY <1>1, <1>4 DEF AccountRemains
  <2>1. CASE n # a  BY <1>5, <2>1
  <2>2. CASE AccountOthersRemain(a)  BY <1>5, <2>2 DEF AccountOthersRemain
  <2>3. CASE n = a /\ ~AccountOthersRemain(a)
    <3>1. CASE q.ask.op \notin AccountChanges
      BY <1>5, <2>3, <3>1 DEF away
    <3>2. CASE q.ask.op \in AccountChanges
      <4>1. AccountRequestHolds(r)  BY DEF AccountInv
      <4>2. AccountRules(q.row) /\ ~Users!Weakens(q)
        BY <1>0, <1>1, <2>3, <3>2, <4>1 DEF AccountRequestHolds
      <4>3. AccountRules(accountUsers[a])
        BY <2>3 DEF Users!MayAdminister, AccountRules
      <4> QED  BY <1>2, <1>5, <2>3, <3>2, <4>2, <4>3 DEF away
    <3> QED  BY <3>1, <3>2
  <2> QED  BY <2>1, <2>2, <2>3
<1> QED  BY <1>4, <1>5, <1>6, <1>7 DEF AccountInv

LEMMA AccountStep == AccountInv /\ (Users!Next \/ UNCHANGED accountVars) => AccountInv' /\ AccountRemains
<1> SUFFICES ASSUME AccountInv, Users!Next \/ UNCHANGED accountVars
             PROVE  AccountInv' /\ AccountRemains  OBVIOUS
<1>1. CASE UNCHANGED accountVars
  <2>1. UNCHANGED <<accountUsers, accountRequest, accountOvertaken>>  BY <1>1 DEF accountVars
  <2> QED
    BY <2>1 DEF AccountInv, AccountRequestHolds, AccountSomeRemain, AccountOthersRemain,
                AccountRemains, Users!Weakens, Users!MayAdminister, Users!Exists
<1>2. CASE \E r \in AccountRequests, n \in AccountNames, ask \in Users!Ask : Users!Authorise(r, n, ask)
  BY <1>2, AccountAuthoriseKeeps
<1>3. CASE \E r \in AccountRequests, ask \in Users!Ask : Users!Anonymous(r, ask)
  BY <1>3, AccountAnonymousKeeps
<1>4. CASE \E r \in AccountRequests : Users!Lookup(r)  BY <1>4, AccountLookupKeeps
<1>5. CASE \E r \in AccountRequests : Users!Protect(r)  BY <1>5, AccountProtectKeeps
<1>6. CASE \E r \in AccountRequests : Users!Commit(r)  BY <1>6, AccountCommitKeeps
<1> QED  BY <1>1, <1>2, <1>3, <1>4, <1>5, <1>6 DEF Users!Next

LEMMA AccountInit == Users!Init => AccountInv
<1> SUFFICES ASSUME Users!Init PROVE AccountInv  OBVIOUS
<1>1. /\ accountUsers = [n \in AccountNames |-> None] /\ accountOvertaken = {}
      /\ accountRequest = [r \in AccountRequests |-> Users!Free]
  BY DEF Users!Init
<1>2. accountRequest \in [AccountRequests -> AccountAsked]  BY <1>1, AccountFreeAsked
<1>3. \A r \in AccountRequests : AccountRequestHolds(r)
  BY <1>1, AccountFreeAsked DEF AccountRequestHolds
<1> QED  BY <1>1, <1>2, <1>3 DEF AccountInv

-----------------------------------------------------------------------------
(* The deliveries to MISP.                                                 *)

-----------------------------------------------------------------------------
(* The invariant.                                                          *)

MispContents == (SUBSET MispAttributes) \cup {None}
MispReads    == {<<>>} \cup UNION {[ids -> MispContents] : ids \in SUBSET MispEvents}
MispRequest  ==
    [step : {"idle", "next", "find", "create", "post", "verify"},
     kind : {"one", "batch", "older"}, id : 0..MispMaxRequests, left : SUBSET MispEvents,
     read : MispReads, on : MispEvents \cup {None}, expected : SUBSET MispAttributes,
     pending : SUBSET MispAttributes, disturbed : BOOLEAN]
MispEntry    ==
    [on : MispEvents, id : 1..mispStarted, status : {"delivered", "failed", "skipped"},
     sent : SUBSET MispAttributes]

MispTypes ==
    /\ mispEvent \in [MispEvents -> MispContents] /\ mispMisp \in [MispEvents -> MispContents]
    /\ mispReq \in [MispRequests -> MispRequest] /\ mispAudit \subseteq MispEntry
    /\ mispStarted \in 0..MispMaxRequests /\ faults \in 0..MaxFaults

\* A request has an id of its own, and the entries it makes have it.
MispOwned(q) ==
    IF mispReq[q].step = "idle" THEN mispReq[q].id = 0 ELSE mispReq[q].id \in 1..mispStarted
MispApart ==
    \A q, r \in MispRequests : mispReq[q].id # 0 /\ mispReq[q].id = mispReq[r].id => q = r

\* What is left of a request was read when it began.
MispWasRead(q) == \A e \in mispReq[q].left : mispReq[q].read[e] \in MispContents

\* A request is at an event, and what it sends is of that event.
MispIsAt(q) ==
    /\ Misp!Running(q) => mispReq[q].on \in MispEvents
    /\ mispReq[q].pending \subseteq mispReq[q].expected
    /\ mispReq[q].step # "post" => mispReq[q].pending = {}
    /\ mispReq[q].step \in {"post", "verify"} => mispMisp[mispReq[q].on] # None

\* A request that nobody disturbed knows what MISP holds of its event.
MispKnows(q) ==
    ~mispReq[q].disturbed =>
        /\ mispReq[q].step = "create" => mispMisp[mispReq[q].on] = None
        /\ mispReq[q].step = "post" =>
              /\ mispReq[q].expected \subseteq mispMisp[mispReq[q].on] \cup mispReq[q].pending
              /\ mispReq[q].pending \cap mispMisp[mispReq[q].on] = {}
        /\ mispReq[q].step = "verify" => mispReq[q].expected \subseteq mispMisp[mispReq[q].on]

MispLocal(q) == MispOwned(q) /\ MispWasRead(q) /\ MispIsAt(q) /\ MispKnows(q)

MispInv ==
    /\ MispTypes /\ MispApart /\ \A q \in MispRequests : MispLocal(q)
    /\ Misp!DeliveredIsStored

-----------------------------------------------------------------------------
(* What a step of request q may do.                                        *)

\* The other requests stay where they are, and one whose event changes in MISP
\* is disturbed.
MispOthers(q) ==
    \A r \in MispRequests \ {q} :
        /\ mispReq'[r].step = mispReq[r].step /\ mispReq'[r].id = mispReq[r].id
        /\ mispReq'[r].left = mispReq[r].left
        /\ mispReq'[r].read = mispReq[r].read /\ mispReq'[r].on = mispReq[r].on
        /\ mispReq'[r].expected = mispReq[r].expected /\ mispReq'[r].pending = mispReq[r].pending
        /\ mispReq[r].disturbed => mispReq'[r].disturbed
        /\ Misp!Running(r) /\ mispMisp'[mispReq[r].on] # mispMisp[mispReq[r].on] => mispReq'[r].disturbed

\* MISP forgets nothing.
MispGrows ==
    \A e \in MispEvents :
        mispMisp[e] # None => mispMisp'[e] # None /\ mispMisp[e] \subseteq mispMisp'[e]

\* A request keeps its id, ends, or begins with the next one.
MispNumbered(q) ==
    \/ mispStarted' = mispStarted /\ mispReq'[q].id \in {0, mispReq[q].id}
    \/ mispStarted' = mispStarted + 1 /\ mispReq'[q].id = mispStarted'

\* The entries of a step are of the request that took it, and true.
MispEntries(q) ==
    \A a \in mispAudit' \ mispAudit :
        /\ a.id = mispReq[q].id /\ a.id # 0
        /\ a.status = "delivered" => mispMisp'[a.on] # None /\ a.sent \subseteq mispMisp'[a.on]
        /\ a.status = "failed" => mispReq[q].disturbed \/ faults' # faults

MispProper(q) ==
    /\ MispTypes' /\ MispOthers(q) /\ MispGrows
    /\ MispNumbered(q) /\ MispEntries(q) /\ MispLocal(q)'

\* Such a step keeps the facts of every other request.
LEMMA MispOthersKeep ==
    ASSUME BackendAssumption, MispInv, NEW q \in MispRequests, MispProper(q),
           NEW r \in MispRequests, r # q
    PROVE  MispLocal(r)'
<1>1. /\ mispReq'[r].step = mispReq[r].step /\ mispReq'[r].id = mispReq[r].id
      /\ mispReq'[r].left = mispReq[r].left
      /\ mispReq'[r].read = mispReq[r].read /\ mispReq'[r].on = mispReq[r].on
      /\ mispReq'[r].expected = mispReq[r].expected /\ mispReq'[r].pending = mispReq[r].pending
      /\ mispReq[r].disturbed => mispReq'[r].disturbed
      /\ Misp!Running(r) /\ mispMisp'[mispReq[r].on] # mispMisp[mispReq[r].on] => mispReq'[r].disturbed
  BY DEF MispProper, MispOthers
<1>2. MispOwned(r) /\ MispWasRead(r) /\ MispIsAt(r) /\ MispKnows(r)  BY DEF MispInv, MispLocal
<1>3. MispOwned(r)'
  <2>1. mispStarted \in Nat /\ mispStarted' \in {mispStarted, mispStarted + 1}
    BY BackendAssumption DEF MispInv, MispTypes, MispProper, MispNumbered
  <2> QED  BY <1>1, <1>2, <2>1 DEF MispOwned
<1>4. MispWasRead(r)'  BY <1>1, <1>2 DEF MispWasRead, MispContents
<1>5. MispIsAt(r)'  BY <1>1, <1>2 DEF MispIsAt, Misp!Running, MispProper, MispGrows
<1>6. MispKnows(r)'  BY <1>1, <1>2 DEF MispKnows, Misp!Running
<1> QED  BY <1>3, <1>4, <1>5, <1>6 DEF MispLocal

\* Such a step keeps the invariant.
LEMMA MispProperKeeps ==
    ASSUME BackendAssumption, MispInv, NEW q \in MispRequests, MispProper(q)
    PROVE  MispInv'
<1>1. \A r \in MispRequests : MispLocal(r)'  BY MispOthersKeep DEF MispProper
<1>2. MispApart'
  <2> SUFFICES ASSUME NEW r \in MispRequests, NEW s \in MispRequests, mispReq'[r].id # 0,
                      mispReq'[r].id = mispReq'[s].id
               PROVE  r = s
    BY DEF MispApart
  <2>1. \A t \in MispRequests : mispReq[t].id \in 0..mispStarted
    BY BackendAssumption DEF MispInv, MispLocal, MispOwned, MispTypes
  <2>2. \A t \in MispRequests \ {q} : mispReq'[t].id = mispReq[t].id  BY DEF MispProper, MispOthers
  <2>3. mispStarted \in Nat /\ MispNumbered(q)
    BY BackendAssumption DEF MispInv, MispTypes, MispProper
  <2>4. CASE mispStarted' = mispStarted /\ mispReq'[q].id \in {0, mispReq[q].id}
    BY <2>2, <2>4 DEF MispInv, MispApart
  <2>5. CASE mispStarted' = mispStarted + 1 /\ mispReq'[q].id = mispStarted'
    <3>1. \A t \in MispRequests \ {q} : mispReq'[t].id # mispReq'[q].id  BY <2>1, <2>2, <2>3, <2>5
    <3> QED  BY <2>2, <3>1 DEF MispInv, MispApart
  <2> QED  BY <2>3, <2>4, <2>5 DEF MispNumbered
<1>3. Misp!DeliveredIsStored'
  <2> SUFFICES ASSUME NEW a \in mispAudit', a.status = "delivered"
               PROVE  mispMisp'[a.on] # None /\ a.sent \subseteq mispMisp'[a.on]
    BY DEF Misp!DeliveredIsStored
  <2>1. CASE a \in mispAudit
    <3>1. a.on \in MispEvents  BY <2>1 DEF MispInv, MispTypes, MispEntry
    <3> QED  BY <2>1, <3>1 DEF MispInv, Misp!DeliveredIsStored, MispProper, MispGrows
  <2>2. CASE a \notin mispAudit  BY <2>2 DEF MispProper, MispEntries
  <2> QED  BY <2>1, <2>2
<1> QED  BY <1>1, <1>2, <1>3 DEF MispInv, MispProper

-----------------------------------------------------------------------------
(* The steps that do not end an event.                                     *)

\* A step that changes its own request alone, and nothing in MISP.
LEMMA MispAloneOthers ==
    ASSUME MispTypes, NEW q \in MispRequests, NEW R \in MispRequest,
           mispReq' = [mispReq EXCEPT ![q] = R], mispMisp' = mispMisp
    PROVE  /\ mispReq' \in [MispRequests -> MispRequest] /\ mispReq'[q] = R /\ MispOthers(q)
           /\ MispGrows
<1>1. mispReq' \in [MispRequests -> MispRequest] /\ mispReq'[q] = R /\ \A r \in MispRequests \ {q} : mispReq'[r] = mispReq[r]
  BY DEF MispTypes
<1> QED  BY <1>1 DEF MispOthers, MispGrows

\* The others learn of a step of q.
LEMMA MispDisturbedOthers ==
    ASSUME MispTypes, NEW q \in MispRequests, NEW R \in MispRequest,
           mispReq' = [Misp!Disturbing(q) EXCEPT ![q] = R],
           mispReq[q].on \in MispEvents, \A r \in MispRequests : Misp!Running(r) => mispReq[r].on \in MispEvents,
           mispMisp' = mispMisp \/ \E S : mispMisp' = [mispMisp EXCEPT ![mispReq[q].on] = S]
    PROVE  mispReq' \in [MispRequests -> MispRequest] /\ mispReq'[q] = R /\ MispOthers(q)
<1>1. \A r \in MispRequests : mispReq[r] \in MispRequest  BY DEF MispTypes
<1> DEFINE Told(r) == [mispReq[r] EXCEPT !.disturbed = @ \/ (r # q /\ Misp!Running(r) /\ mispReq[r].on = mispReq[q].on)]
<1>2. Misp!Disturbing(q) = [r \in MispRequests |-> Told(r)]  BY DEF Misp!Disturbing
<1>3. ASSUME NEW r \in MispRequests
      PROVE  /\ Told(r) \in MispRequest
             /\ Told(r).step = mispReq[r].step /\ Told(r).id = mispReq[r].id
             /\ Told(r).left = mispReq[r].left
             /\ Told(r).read = mispReq[r].read /\ Told(r).on = mispReq[r].on
             /\ Told(r).expected = mispReq[r].expected /\ Told(r).pending = mispReq[r].pending
             /\ Told(r).disturbed = (mispReq[r].disturbed \/ (r # q /\ Misp!Running(r) /\ mispReq[r].on = mispReq[q].on))
  BY <1>1 DEF MispRequest
<1> HIDE DEF Told
<1>4. mispReq' \in [MispRequests -> MispRequest] /\ mispReq'[q] = R /\ \A r \in MispRequests \ {q} : mispReq'[r] = Told(r)
  BY <1>2, <1>3
<1>5. \A e \in MispEvents : mispMisp'[e] # mispMisp[e] => e = mispReq[q].on
  BY DEF MispTypes
<1>6. ASSUME NEW r \in MispRequests \ {q}, Misp!Running(r),
             mispMisp'[mispReq[r].on] # mispMisp[mispReq[r].on]
      PROVE  mispReq'[r].disturbed
  <2>1. mispReq[r].on = mispReq[q].on  BY <1>6, <1>5
  <2> QED  BY <2>1, <1>6, <1>3, <1>4
<1>7. ASSUME NEW r \in MispRequests \ {q}
      PROVE  /\ mispReq'[r].step = mispReq[r].step /\ mispReq'[r].id = mispReq[r].id
             /\ mispReq'[r].left = mispReq[r].left
             /\ mispReq'[r].read = mispReq[r].read /\ mispReq'[r].on = mispReq[r].on
             /\ mispReq'[r].expected = mispReq[r].expected
             /\ mispReq'[r].pending = mispReq[r].pending
             /\ mispReq[r].disturbed => mispReq'[r].disturbed
  <2>1. r \in MispRequests /\ mispReq'[r] = Told(r)  BY <1>4
  <2> QED  BY <2>1, <1>3
<1>8. MispOthers(q)  BY <1>6, <1>7 DEF MispOthers
<1> QED  BY <1>4, <1>8

\* A request that stops, or waits between two events, knows what it has to.
LEMMA MispAtRest ==
    ASSUME NEW q \in MispRequests, mispReq'[q].step \in {"idle", "next"}, mispReq'[q].pending = {},
           MispOwned(q)', MispWasRead(q)'
    PROVE  MispLocal(q)'
BY DEF MispLocal, MispIsAt, MispKnows, Misp!Running

\* A call that fails by a fault is counted.
LEMMA MispFaultCounted ==
    ASSUME BackendAssumption, MispTypes, Misp!Fault
    PROVE  faults' \in 0..MaxFaults /\ faults' # faults
BY BackendAssumption DEF MispTypes, Misp!Fault

\* A request that is idle, as a record.
LEMMA MispIdleTyped == BackendAssumption => Misp!Idle \in MispRequest
BY BackendAssumption DEF Misp!Idle, MispRequest, MispReads

\* A request begins.
LEMMA MispBeginProper ==
    ASSUME BackendAssumption, MispInv, NEW q \in MispRequests,
           NEW kind \in {"one", "batch", "older"},
           NEW ids \in SUBSET MispEvents, Misp!Begin(q, kind, ids)
    PROVE  MispProper(q)
<1> DEFINE R == [Misp!Idle EXCEPT !.step = "next", !.kind = kind, !.id = mispStarted + 1,
                             !.left = ids, !.read = Misp!Restrict(mispEvent, ids)]
<1>1. /\ mispStarted \in Nat /\ mispStarted < MispMaxRequests /\ mispStarted' = mispStarted + 1
      /\ mispReq' = [mispReq EXCEPT ![q] = R]
      /\ mispEvent' = mispEvent /\ mispMisp' = mispMisp /\ mispAudit' = mispAudit
      /\ faults' = faults
      /\ mispReq[q].step = "idle"
  BY Numbers DEF Misp!Begin, MispInv, MispTypes
<1>2. Misp!Restrict(mispEvent, ids) \in [ids -> MispContents]
  BY DEF Misp!Restrict, MispInv, MispTypes
<1>3. Misp!Restrict(mispEvent, ids) \in MispReads  BY <1>2 DEF MispReads
<1>4. mispStarted + 1 \in 0..MispMaxRequests /\ mispStarted + 1 # 0  BY <1>1, BackendAssumption
<1>5. R \in MispRequest  BY <1>3, <1>4, MispIdleTyped DEF MispRequest
<1>6. /\ R.step = "next" /\ R.id = mispStarted + 1 /\ R.left = ids
      /\ R.read = Misp!Restrict(mispEvent, ids)
      /\ R.pending = {}
  BY DEF Misp!Idle
<1> HIDE DEF R
<1>7. mispReq' \in [MispRequests -> MispRequest] /\ mispReq'[q] = R /\ MispOthers(q) /\ MispGrows
  BY <1>1, <1>5, MispAloneOthers DEF MispInv
<1>8. MispTypes'
  <2>1. MispEntry \subseteq MispEntry'  BY <1>1 DEF MispEntry
  <2> QED  BY <1>1, <1>4, <1>7, <2>1 DEF MispInv, MispTypes
<1>9. MispLocal(q)'
  <2>1. MispOwned(q)'  BY <1>1, <1>6, <1>7 DEF MispOwned
  <2>2. MispWasRead(q)'  BY <1>2, <1>6, <1>7 DEF MispWasRead, MispContents
  <2> QED  BY <2>1, <2>2, <1>6, <1>7, MispAtRest
<1>10. MispNumbered(q)  BY <1>1, <1>6, <1>7 DEF MispNumbered
<1>11. MispEntries(q)  BY <1>1 DEF MispEntries
<1> QED  BY <1>7, <1>8, <1>9, <1>10, <1>11 DEF MispProper

\* A request comes to its next event, with what it read of it.
LEMMA MispTakeProper ==
    ASSUME BackendAssumption, MispInv, NEW q \in MispRequests, NEW e \in MispEvents, Misp!Take(q, e)
    PROVE  MispProper(q)
<1>1. PICK d \in BOOLEAN :
         mispReq' = [mispReq EXCEPT ![q] = [mispReq[q] EXCEPT !.step = "find", !.left = @ \ {e}, !.on = e,
                                        !.expected = mispReq[q].read[e], !.disturbed = d]]
  BY DEF Misp!Take, MispInv, MispTypes
<1> DEFINE R == [mispReq[q] EXCEPT !.step = "find", !.left = @ \ {e}, !.on = e,
                               !.expected = mispReq[q].read[e], !.disturbed = d]
<1>2. /\ mispReq[q] \in MispRequest /\ mispReq[q].step = "next" /\ e \in mispReq[q].left
      /\ mispReq[q].read[e] # None
      /\ mispEvent' = mispEvent /\ mispMisp' = mispMisp /\ mispAudit' = mispAudit
      /\ faults' = faults /\ mispStarted' = mispStarted
  BY DEF Misp!Take, MispInv, MispTypes
<1>3. MispOwned(q) /\ MispWasRead(q) /\ MispIsAt(q)  BY DEF MispInv, MispLocal
<1>4. mispReq[q].read[e] \in SUBSET MispAttributes  BY <1>2, <1>3 DEF MispWasRead, MispContents
<1>5. R \in MispRequest /\ R.step = "find" /\ R.left \subseteq mispReq[q].left /\ R.on = e
      /\ R.id = mispReq[q].id /\ R.read = mispReq[q].read /\ R.pending = mispReq[q].pending
  BY <1>2, <1>4 DEF MispRequest
<1> HIDE DEF R
<1>6. mispReq' \in [MispRequests -> MispRequest] /\ mispReq'[q] = R /\ MispOthers(q) /\ MispGrows
  BY <1>1, <1>2, <1>5, MispAloneOthers DEF MispInv, R
<1>7. MispTypes'  BY <1>2, <1>6 DEF MispInv, MispTypes, MispEntry
<1>8. MispLocal(q)'
  <2>1. R.pending = {}  BY <1>2, <1>3, <1>5 DEF MispIsAt
  <2>2. MispOwned(q)'  BY <1>2, <1>3, <1>5, <1>6 DEF MispOwned
  <2>3. MispWasRead(q)'  BY <1>3, <1>5, <1>6 DEF MispWasRead, MispContents
  <2>4. MispIsAt(q)' /\ MispKnows(q)'  BY <1>5, <1>6, <2>1 DEF MispIsAt, MispKnows
  <2> QED  BY <2>2, <2>3, <2>4 DEF MispLocal
<1>9. MispNumbered(q)  BY <1>2, <1>5, <1>6 DEF MispNumbered
<1>10. MispEntries(q)  BY <1>2 DEF MispEntries
<1> QED  BY <1>6, <1>7, <1>8, <1>9, <1>10 DEF MispProper

\* An event is passed over, with an entry.
LEMMA MispSkipProper ==
    ASSUME BackendAssumption, MispInv, NEW q \in MispRequests, NEW e \in MispEvents, Misp!Skip(q, e)
    PROVE  MispProper(q)
<1>1. mispReq[q] \in MispRequest  BY DEF MispInv, MispTypes
<1>2. PICK R : /\ mispReq' = [mispReq EXCEPT ![q] = R]
               /\ R = IF mispReq[q].left = {e} THEN Misp!Idle ELSE [mispReq[q] EXCEPT !.left = mispReq[q].left \ {e}]
  BY DEF Misp!Skip, MispInv, MispTypes
<1>3. /\ mispReq[q].step = "next"
      /\ mispEvent' = mispEvent /\ mispMisp' = mispMisp /\ faults' = faults
      /\ mispStarted' = mispStarted
      /\ mispAudit' = mispAudit \cup {[on |-> e, id |-> mispReq[q].id, status |-> "skipped", sent |-> {}]}
  BY DEF Misp!Skip
<1>4. MispOwned(q) /\ MispWasRead(q) /\ MispIsAt(q)  BY DEF MispInv, MispLocal
<1>5. \/ R = Misp!Idle
      \/ /\ R \in MispRequest /\ R.step = "next" /\ R.left \subseteq mispReq[q].left
         /\ R.id = mispReq[q].id /\ R.read = mispReq[q].read /\ R.pending = mispReq[q].pending
  BY <1>1, <1>2, <1>3 DEF MispRequest
<1>6. R \in MispRequest  BY <1>5, MispIdleTyped
<1>7. mispReq' \in [MispRequests -> MispRequest] /\ mispReq'[q] = R /\ MispOthers(q) /\ MispGrows
  BY <1>2, <1>3, <1>6, MispAloneOthers DEF MispInv
<1>8. mispReq[q].id \in 1..mispStarted /\ mispReq[q].id # 0
  BY <1>3, <1>4, BackendAssumption DEF MispOwned, MispInv, MispTypes
<1>9. MispTypes'
  <2>1. [on |-> e, id |-> mispReq[q].id, status |-> "skipped", sent |-> {}] \in MispEntry
    BY <1>8 DEF MispEntry
  <2> QED  BY <1>3, <1>7, <2>1 DEF MispInv, MispTypes, MispEntry
<1>10. MispLocal(q)'
  <2>1. R.pending = {} /\ R.step \in {"idle", "next"}
    BY <1>3, <1>4, <1>5 DEF MispIsAt, Misp!Idle
  <2>2. MispOwned(q)'  BY <1>3, <1>4, <1>5, <1>7 DEF MispOwned, Misp!Idle
  <2>3. MispWasRead(q)'  BY <1>4, <1>5, <1>7 DEF MispWasRead, MispContents, Misp!Idle
  <2> QED  BY <2>1, <2>2, <2>3, <1>7, MispAtRest
<1>11. MispNumbered(q)  BY <1>3, <1>5, <1>7 DEF MispNumbered, Misp!Idle
<1>12. MispEntries(q)  BY <1>3, <1>8 DEF MispEntries
<1> QED  BY <1>7, <1>9, <1>10, <1>11, <1>12 DEF MispProper

\* The event is looked for, and what MISP has of it is not pending.
LEMMA MispFindProper ==
    ASSUME BackendAssumption, MispInv, NEW q \in MispRequests, Misp!Find(q)
    PROVE  MispProper(q)
<1>1. mispReq[q] \in MispRequest /\ mispReq[q].step = "find"  BY DEF Misp!Find, MispInv, MispTypes
<1>2. PICK R : /\ mispReq' = [mispReq EXCEPT ![q] = R]
               /\ R = IF mispMisp[mispReq[q].on] = None THEN [mispReq[q] EXCEPT !.step = "create"]
                      ELSE [mispReq[q] EXCEPT !.step = "post",
                                          !.pending = Misp!Missing(mispReq[q].expected, mispMisp[mispReq[q].on])]
  BY DEF Misp!Find, MispInv, MispTypes
<1>3. /\ mispEvent' = mispEvent /\ mispMisp' = mispMisp /\ mispAudit' = mispAudit
      /\ faults' = faults /\ mispStarted' = mispStarted
  BY DEF Misp!Find
<1>4. MispOwned(q) /\ MispWasRead(q) /\ MispIsAt(q)  BY DEF MispInv, MispLocal
<1>5. /\ R \in MispRequest /\ R.left = mispReq[q].left /\ R.on = mispReq[q].on
      /\ R.expected = mispReq[q].expected
      /\ R.id = mispReq[q].id /\ R.read = mispReq[q].read
      /\ \/ R.step = "create" /\ mispMisp[mispReq[q].on] = None /\ R.pending = mispReq[q].pending
         \/ /\ R.step = "post" /\ mispMisp[mispReq[q].on] # None
            /\ R.pending = mispReq[q].expected \ mispMisp[mispReq[q].on]
  <2>1. CASE mispMisp[mispReq[q].on] = None  BY <2>1, <1>1, <1>2 DEF MispRequest
  <2>2. CASE mispMisp[mispReq[q].on] # None
    <3>1. Misp!Missing(mispReq[q].expected, mispMisp[mispReq[q].on]) \in SUBSET MispAttributes
      BY <1>1 DEF Misp!Missing, MispRequest
    <3> QED  BY <2>2, <3>1, <1>1, <1>2 DEF MispRequest, Misp!Missing
  <2> QED  BY <2>1, <2>2
<1>6. mispReq' \in [MispRequests -> MispRequest] /\ mispReq'[q] = R /\ MispOthers(q) /\ MispGrows
  BY <1>2, <1>3, <1>5, MispAloneOthers DEF MispInv
<1>7. MispTypes'  BY <1>3, <1>6 DEF MispInv, MispTypes, MispEntry
<1>8. MispLocal(q)'
  <2>1. MispOwned(q)'  BY <1>1, <1>3, <1>4, <1>5, <1>6 DEF MispOwned
  <2>2. MispWasRead(q)'  BY <1>4, <1>5, <1>6 DEF MispWasRead, MispContents
  <2>3. mispReq[q].pending = {} /\ mispReq[q].on \in MispEvents
    BY <1>1, <1>4 DEF MispIsAt, Misp!Running
  <2>4. MispIsAt(q)'  BY <1>3, <1>5, <1>6, <2>3 DEF MispIsAt
  <2>5. MispKnows(q)'  BY <1>3, <1>5, <1>6 DEF MispKnows
  <2> QED  BY <2>1, <2>2, <2>4, <2>5 DEF MispLocal
<1>9. MispNumbered(q)  BY <1>3, <1>5, <1>6 DEF MispNumbered
<1>10. MispEntries(q)  BY <1>3 DEF MispEntries
<1> QED  BY <1>6, <1>7, <1>8, <1>9, <1>10 DEF MispProper

\* All that was pending is posted, or a part of it is lost without a word, which
\* counts as a disturbance.
LEMMA MispPostedProper ==
    ASSUME BackendAssumption, MispInv, NEW q \in MispRequests,
           Misp!Posted(q) \/ \E a \in MispAttributes : Misp!Discard(q, a)
    PROVE  MispProper(q)
<1>1. mispReq[q] \in MispRequest /\ mispReq[q].step = "post"
  BY DEF Misp!Posted, Misp!Discard, MispInv, MispTypes
<1>2. PICK R : /\ mispReq' = [mispReq EXCEPT ![q] = R]
               /\ \/ R = [mispReq[q] EXCEPT !.step = "verify"] /\ mispReq[q].pending = {}
                  \/ \E a \in MispAttributes :
                        R = [mispReq[q] EXCEPT !.pending = @ \ {a}, !.disturbed = TRUE]
  BY DEF Misp!Posted, Misp!Discard, MispInv, MispTypes
<1>3. /\ mispEvent' = mispEvent /\ mispMisp' = mispMisp /\ mispAudit' = mispAudit
      /\ mispStarted' = mispStarted
      /\ faults' \in 0..MaxFaults
  BY MispFaultCounted DEF Misp!Posted, Misp!Discard, MispInv, MispTypes
<1>4. MispOwned(q) /\ MispWasRead(q) /\ MispIsAt(q) /\ MispKnows(q)  BY DEF MispInv, MispLocal
<1>5. /\ R \in MispRequest /\ R.left = mispReq[q].left /\ R.on = mispReq[q].on
      /\ R.expected = mispReq[q].expected
      /\ R.id = mispReq[q].id /\ R.read = mispReq[q].read
      /\ \/ R.step = "verify" /\ R.disturbed = mispReq[q].disturbed /\ R.pending = {} /\ mispReq[q].pending = {}
         \/ R.step = "post" /\ R.disturbed /\ R.pending \subseteq mispReq[q].pending
  <2>1. CASE R = [mispReq[q] EXCEPT !.step = "verify"] /\ mispReq[q].pending = {}
    <3>1. R \in MispRequest  BY <1>1, <2>1 DEF MispRequest
    <3>2. /\ R.left = mispReq[q].left /\ R.on = mispReq[q].on /\ R.expected = mispReq[q].expected
          /\ R.id = mispReq[q].id /\ R.read = mispReq[q].read /\ R.disturbed = mispReq[q].disturbed
          /\ R.step = "verify" /\ R.pending = mispReq[q].pending
      BY <1>1, <2>1 DEF MispRequest
    <3> QED  BY <2>1, <3>1, <3>2
  <2>2. CASE \E a \in MispAttributes :
                R = [mispReq[q] EXCEPT !.pending = @ \ {a}, !.disturbed = TRUE]
    <3>1. PICK a \in MispAttributes : R = [mispReq[q] EXCEPT !.pending = @ \ {a}, !.disturbed = TRUE]
      BY <2>2
    <3>2. R \in MispRequest  BY <1>1, <3>1 DEF MispRequest
    <3>3. /\ R.left = mispReq[q].left /\ R.on = mispReq[q].on /\ R.expected = mispReq[q].expected
          /\ R.id = mispReq[q].id /\ R.read = mispReq[q].read /\ R.disturbed
          /\ R.step = mispReq[q].step /\ R.pending = mispReq[q].pending \ {a}
      BY <1>1, <3>1 DEF MispRequest
    <3> QED  BY <1>1, <3>2, <3>3
  <2> QED  BY <1>2, <2>1, <2>2
<1>6. mispReq' \in [MispRequests -> MispRequest] /\ mispReq'[q] = R /\ MispOthers(q) /\ MispGrows
  BY <1>2, <1>3, <1>5, MispAloneOthers DEF MispInv
<1>7. MispTypes'  BY <1>3, <1>6 DEF MispInv, MispTypes, MispEntry
<1>8. MispLocal(q)'
  <2>1. MispOwned(q)'  BY <1>1, <1>3, <1>4, <1>5, <1>6 DEF MispOwned
  <2>2. MispWasRead(q)'  BY <1>4, <1>5, <1>6 DEF MispWasRead, MispContents
  <2>3. MispIsAt(q)'  BY <1>1, <1>3, <1>4, <1>5, <1>6 DEF MispIsAt, Misp!Running
  <2>4. MispKnows(q)'  BY <1>1, <1>3, <1>4, <1>5, <1>6 DEF MispKnows
  <2> QED  BY <2>1, <2>2, <2>3, <2>4 DEF MispLocal
<1>9. MispNumbered(q)  BY <1>3, <1>5, <1>6 DEF MispNumbered
<1>10. MispEntries(q)  BY <1>3 DEF MispEntries
<1> QED  BY <1>6, <1>7, <1>8, <1>9, <1>10 DEF MispProper

\* The backend stops with the request.
LEMMA MispDiesProper ==
    ASSUME BackendAssumption, MispInv, NEW q \in MispRequests, Misp!Dies(q)
    PROVE  MispProper(q)
<1>1. /\ mispReq' = [mispReq EXCEPT ![q] = Misp!Idle]
      /\ mispEvent' = mispEvent /\ mispMisp' = mispMisp /\ mispAudit' = mispAudit
      /\ mispStarted' = mispStarted
      /\ faults' \in 0..MaxFaults
  BY MispFaultCounted DEF Misp!Dies, MispInv
<1>2. Misp!Idle \in MispRequest  BY MispIdleTyped
<1>3. /\ mispReq' \in [MispRequests -> MispRequest] /\ mispReq'[q] = Misp!Idle /\ MispOthers(q)
      /\ MispGrows
  BY <1>1, <1>2, MispAloneOthers DEF MispInv
<1>4. MispTypes'  BY <1>1, <1>3 DEF MispInv, MispTypes, MispEntry
<1>5. MispLocal(q)'
  <2>1. MispOwned(q)' /\ MispWasRead(q)'  BY <1>3 DEF MispOwned, MispWasRead, Misp!Idle
  <2> QED  BY <2>1, <1>3, MispAtRest DEF Misp!Idle
<1>6. MispNumbered(q)  BY <1>1, <1>3 DEF MispNumbered, Misp!Idle
<1>7. MispEntries(q)  BY <1>1 DEF MispEntries
<1> QED  BY <1>3, <1>4, <1>5, <1>6, <1>7 DEF MispProper

-----------------------------------------------------------------------------
(* The steps that end an event, and those that change what MISP holds.     *)

\* A call changes what MISP holds of the event of q, and loses nothing of it.
MispAdds(q) ==
    \/ mispMisp' = mispMisp
    \/ \E S \in SUBSET MispAttributes :
          /\ mispMisp' = [mispMisp EXCEPT ![mispReq[q].on] = S]
          /\ mispMisp[mispReq[q].on] # None => mispMisp[mispReq[q].on] \subseteq S

\* Such a call leaves MISP with events.
LEMMA MispAddsTyped ==
    ASSUME BackendAssumption, MispTypes, NEW q \in MispRequests, MispAdds(q),
           mispReq[q].on \in MispEvents
    PROVE  /\ mispMisp' \in [MispEvents -> MispContents] /\ MispGrows
           /\ mispMisp' = mispMisp \/ \E S : mispMisp' = [mispMisp EXCEPT ![mispReq[q].on] = S]
<1>1. CASE mispMisp' = mispMisp  BY <1>1 DEF MispTypes, MispGrows
<1>2. CASE mispMisp' # mispMisp
  <2>1. PICK S \in SUBSET MispAttributes :
          /\ mispMisp' = [mispMisp EXCEPT ![mispReq[q].on] = S]
          /\ mispMisp[mispReq[q].on] # None => mispMisp[mispReq[q].on] \subseteq S
    BY <1>2 DEF MispAdds
  <2>2. S \in MispContents /\ S # None  BY BackendAssumption DEF MispContents
  <2>3. mispMisp' \in [MispEvents -> MispContents]  BY <2>1, <2>2 DEF MispTypes
  <2>4. MispGrows  BY <2>1, <2>2 DEF MispGrows, MispTypes
  <2> QED  BY <2>1, <2>3, <2>4
<1> QED  BY <1>1, <1>2

\* The outcome of an event, when its entry is true.
LEMMA MispOutcomeProper ==
    ASSUME BackendAssumption, MispInv, NEW q \in MispRequests, Misp!Running(q),
           NEW status \in {"delivered", "failed"},
           Misp!Outcome(q, mispReq[q].on, status), MispAdds(q),
           mispEvent' = mispEvent, mispStarted' = mispStarted, faults' \in 0..MaxFaults,
           status = "delivered" =>
              /\ mispMisp'[mispReq[q].on] # None
              /\ mispReq[q].expected \subseteq mispMisp'[mispReq[q].on],
           status = "failed" => mispReq[q].disturbed \/ faults' # faults
    PROVE  MispProper(q)
<1>1. mispReq[q] \in MispRequest /\ MispTypes  BY DEF MispInv, MispTypes
<1>2. MispOwned(q) /\ MispWasRead(q) /\ MispIsAt(q)  BY DEF MispInv, MispLocal
<1>3. mispReq[q].on \in MispEvents /\ \A r \in MispRequests : Misp!Running(r) => mispReq[r].on \in MispEvents
  BY <1>2 DEF MispIsAt, MispInv, MispLocal
<1>4. /\ Misp!Disturbing(q)[q].left = mispReq[q].left /\ Misp!Disturbing(q)[q].id = mispReq[q].id
      /\ Misp!Disturbing(q)[q].read = mispReq[q].read /\ Misp!Disturbing(q)[q] = mispReq[q]
  BY <1>1 DEF Misp!Disturbing, MispRequest
<1>5. PICK R : /\ mispReq' = [Misp!Disturbing(q) EXCEPT ![q] = R]
               /\ R = IF mispReq[q].left = {} THEN Misp!Idle
                      ELSE [mispReq[q] EXCEPT !.step = "next", !.on = None, !.expected = {}, !.pending = {}]
  BY <1>4 DEF Misp!Outcome, Misp!Disturbing
<1>6. /\ R \in MispRequest /\ R.pending = {}
      /\ \/ R.step = "idle" /\ R.id = 0 /\ R.left = {}
         \/ /\ R.step = "next" /\ R.left = mispReq[q].left
            /\ R.id = mispReq[q].id /\ R.read = mispReq[q].read
  <2>1. CASE mispReq[q].left = {}  BY <2>1, <1>5, MispIdleTyped DEF Misp!Idle
  <2>2. CASE mispReq[q].left # {}  BY <2>2, <1>1, <1>5 DEF MispRequest
  <2> QED  BY <2>1, <2>2
<1>7. /\ mispMisp' \in [MispEvents -> MispContents] /\ MispGrows
      /\ (mispMisp' = mispMisp \/ \E S : mispMisp' = [mispMisp EXCEPT ![mispReq[q].on] = S])
  BY <1>1, <1>3, MispAddsTyped
<1>8. mispReq' \in [MispRequests -> MispRequest] /\ mispReq'[q] = R /\ MispOthers(q)
  BY <1>1, <1>3, <1>5, <1>6, <1>7, MispDisturbedOthers
<1>9. mispReq[q].id \in 1..mispStarted /\ mispReq[q].id # 0
  BY <1>2, BackendAssumption DEF MispOwned, Misp!Running, MispInv, MispTypes
<1>10. \/ mispAudit' = mispAudit
       \/ mispAudit' = mispAudit \cup {[on |-> mispReq[q].on, id |-> mispReq[q].id, status |-> status,
                               sent |-> mispReq[q].expected]}
  BY DEF Misp!Outcome
<1>11. MispTypes'
  <2>1. [on |-> mispReq[q].on, id |-> mispReq[q].id, status |-> status, sent |-> mispReq[q].expected] \in MispEntry
    BY <1>1, <1>3, <1>9 DEF MispEntry, MispRequest
  <2> QED  BY <1>1, <1>7, <1>8, <1>10, <2>1 DEF MispTypes, MispEntry
<1>12. MispLocal(q)'
  <2>1. MispOwned(q)'  BY <1>2, <1>6, <1>8 DEF MispOwned, Misp!Running
  <2>2. MispWasRead(q)'  BY <1>2, <1>6, <1>8 DEF MispWasRead, MispContents
  <2> QED  BY <2>1, <2>2, <1>6, <1>8, MispAtRest
<1>13. MispNumbered(q)  BY <1>6, <1>8 DEF MispNumbered
<1>14. MispEntries(q)
  <2> SUFFICES ASSUME NEW a \in mispAudit' \ mispAudit
               PROVE  /\ a.id = mispReq[q].id /\ a.id # 0
                      /\ a.status = "delivered" => mispMisp'[a.on] # None /\ a.sent \subseteq mispMisp'[a.on]
                      /\ a.status = "failed" => mispReq[q].disturbed \/ faults' # faults
    BY DEF MispEntries
  <2>1. a = [on |-> mispReq[q].on, id |-> mispReq[q].id, status |-> status, sent |-> mispReq[q].expected]
    BY <1>10
  <2> QED  BY <2>1, <1>9
<1> QED  BY <1>7, <1>8, <1>11, <1>12, <1>13, <1>14 DEF MispProper

\* The event is read back: only what MISP holds is called delivered.
LEMMA MispVerifyProper ==
    ASSUME BackendAssumption, MispInv, NEW q \in MispRequests, Misp!Verify(q)
    PROVE  MispProper(q)
<1> DEFINE status == IF Misp!Complete(mispReq[q].expected, mispMisp[mispReq[q].on]) THEN "delivered" ELSE "failed"
<1>1. /\ mispReq[q].step = "verify" /\ Misp!Outcome(q, mispReq[q].on, status)
      /\ mispEvent' = mispEvent /\ mispMisp' = mispMisp /\ mispStarted' = mispStarted
      /\ faults' = faults
  BY DEF Misp!Verify
<1>2. MispIsAt(q) /\ MispKnows(q)  BY DEF MispInv, MispLocal
<1>3. Misp!Running(q) /\ MispAdds(q) /\ faults' \in 0..MaxFaults
  BY <1>1 DEF Misp!Running, MispAdds, MispInv, MispTypes
<1>4. status = "delivered" => mispMisp[mispReq[q].on] # None /\ mispReq[q].expected \subseteq mispMisp[mispReq[q].on]
  BY <1>1, <1>2 DEF MispIsAt, Misp!Complete
<1>5. status = "failed" => mispReq[q].disturbed
  BY <1>1, <1>2 DEF MispKnows, Misp!Complete
<1>6. status \in {"delivered", "failed"}
  OBVIOUS
<1> HIDE DEF status
<1> QED  BY <1>1, <1>3, <1>4, <1>5, <1>6, MispOutcomeProper

\* A call fails, and MISP did what it was asked or did not.
LEMMA MispCallFailsProper ==
    ASSUME BackendAssumption, MispInv, NEW q \in MispRequests, Misp!CallFails(q)
    PROVE  MispProper(q)
<1>1. /\ Misp!Running(q) /\ Misp!Outcome(q, mispReq[q].on, "failed") /\ mispEvent' = mispEvent
      /\ mispStarted' = mispStarted
      /\ faults' \in 0..MaxFaults /\ faults' # faults
  BY MispFaultCounted DEF Misp!CallFails, Misp!Failed, MispInv
<1>2. MispIsAt(q)  BY DEF MispInv, MispLocal
<1>3. /\ mispReq[q] \in MispRequest /\ mispReq[q].on \in MispEvents
      /\ mispMisp[mispReq[q].on] \in MispContents
  BY <1>1, <1>2 DEF MispIsAt, MispInv, MispTypes
<1>4. MispAdds(q)
  <2>1. CASE mispMisp' = mispMisp  BY <2>1 DEF MispAdds
  <2>2. CASE mispReq[q].step = "create" /\ mispMisp[mispReq[q].on] = None /\ mispMisp' = [mispMisp EXCEPT ![mispReq[q].on] = {}]
    <3>1. {} \in SUBSET MispAttributes  OBVIOUS
    <3> QED  BY <2>2, <3>1 DEF MispAdds
  <2>3. CASE \E a \in mispReq[q].pending : mispMisp' = [mispMisp EXCEPT ![mispReq[q].on] = @ \cup {a}]
    <3>1. PICK a \in mispReq[q].pending : mispMisp' = [mispMisp EXCEPT ![mispReq[q].on] = @ \cup {a}]
      BY <2>3
    <3>2. mispReq[q].step = "post"  BY <3>1, <1>2 DEF MispIsAt
    <3>3. mispMisp[mispReq[q].on] \cup {a} \in SUBSET MispAttributes
      BY <3>1, <3>2, <1>2, <1>3 DEF MispIsAt, MispContents, MispRequest
    <3>4. mispMisp' = [mispMisp EXCEPT ![mispReq[q].on] = mispMisp[mispReq[q].on] \cup {a}]
      BY <3>1
    <3> QED  BY <3>3, <3>4 DEF MispAdds
  <2> QED  BY <2>1, <2>2, <2>3 DEF Misp!CallFails
<1> QED  BY <1>1, <1>4, MispOutcomeProper

\* The event is created, and knows that MISP has nothing of it; or MISP refuses
\* it, which it does only if another request created it.
LEMMA MispCreateProper ==
    ASSUME BackendAssumption, MispInv, NEW q \in MispRequests, Misp!Create(q)
    PROVE  MispProper(q)
<1>1. mispReq[q] \in MispRequest /\ MispTypes /\ mispReq[q].step = "create"
  BY DEF Misp!Create, MispInv, MispTypes
<1>2. MispOwned(q) /\ MispWasRead(q) /\ MispIsAt(q) /\ MispKnows(q)  BY DEF MispInv, MispLocal
<1>3. /\ Misp!Running(q) /\ mispReq[q].on \in MispEvents
      /\ \A r \in MispRequests : Misp!Running(r) => mispReq[r].on \in MispEvents
  BY <1>1, <1>2 DEF MispIsAt, Misp!Running, MispInv, MispLocal
<1>4. /\ mispEvent' = mispEvent /\ mispStarted' = mispStarted /\ faults' = faults
      /\ faults' \in 0..MaxFaults
  BY DEF Misp!Create, MispInv, MispTypes
<1>5. CASE mispMisp[mispReq[q].on] # None
  <2>1. Misp!Outcome(q, mispReq[q].on, "failed") /\ mispMisp' = mispMisp
    BY <1>5 DEF Misp!Create, Misp!Failed
  <2>2. mispReq[q].disturbed  BY <1>1, <1>2, <1>5 DEF MispKnows
  <2> QED  BY <2>1, <2>2, <1>3, <1>4, MispOutcomeProper DEF MispAdds
<1>6. CASE mispMisp[mispReq[q].on] = None
  <2>1. mispMisp' = [mispMisp EXCEPT ![mispReq[q].on] = {}] /\ mispAudit' = mispAudit
    BY <1>6 DEF Misp!Create
  <2>2. Misp!Disturbing(q)[q] = mispReq[q] /\ DOMAIN Misp!Disturbing(q) = MispRequests
    BY <1>1 DEF Misp!Disturbing, MispRequest
  <2>3. PICK R : /\ mispReq' = [Misp!Disturbing(q) EXCEPT ![q] = R]
                 /\ R = [mispReq[q] EXCEPT !.step = "post", !.pending = mispReq[q].expected]
    BY <1>1, <1>6, <2>2 DEF Misp!Create, MispRequest
  <2>4. /\ R \in MispRequest /\ R.step = "post" /\ R.pending = mispReq[q].expected
        /\ R.expected = mispReq[q].expected /\ R.on = mispReq[q].on /\ R.id = mispReq[q].id
        /\ R.left = mispReq[q].left /\ R.read = mispReq[q].read
    BY <1>1, <2>3 DEF MispRequest
  <2>5. MispAdds(q)
    <3>1. {} \in SUBSET MispAttributes  OBVIOUS
    <3> QED  BY <1>6, <2>1, <3>1 DEF MispAdds
  <2>6. mispMisp' \in [MispEvents -> MispContents] /\ MispGrows
    BY <1>1, <1>3, <2>5, MispAddsTyped
  <2>7. mispReq' \in [MispRequests -> MispRequest] /\ mispReq'[q] = R /\ MispOthers(q)
    BY <1>1, <1>3, <2>1, <2>3, <2>4, MispDisturbedOthers
  <2>8. MispTypes'  BY <1>1, <1>4, <2>1, <2>6, <2>7 DEF MispTypes, MispEntry
  <2>9. mispMisp'[mispReq[q].on] = {} /\ {} # None
    BY <1>1, <1>3, <2>1, BackendAssumption DEF MispTypes
  <2>10. MispLocal(q)'
    <3>1. MispOwned(q)'  BY <1>1, <1>2, <1>4, <2>4, <2>7 DEF MispOwned
    <3>2. MispWasRead(q)'  BY <1>2, <2>4, <2>7 DEF MispWasRead, MispContents
    <3>3. MispIsAt(q)'  BY <1>3, <2>4, <2>7, <2>9 DEF MispIsAt
    <3>4. MispKnows(q)'  BY <2>4, <2>7, <2>9 DEF MispKnows
    <3> QED  BY <3>1, <3>2, <3>3, <3>4 DEF MispLocal
  <2>11. MispNumbered(q) /\ MispEntries(q)  BY <1>4, <2>1, <2>4, <2>7 DEF MispNumbered, MispEntries
  <2> QED  BY <2>6, <2>7, <2>8, <2>10, <2>11 DEF MispProper
<1> QED  BY <1>5, <1>6

\* An attribute is added; or MISP refuses it, which it does only if another
\* request added it.
LEMMA MispPostProper ==
    ASSUME BackendAssumption, MispInv, NEW q \in MispRequests, NEW a \in MispAttributes,
           Misp!Post(q, a)
    PROVE  MispProper(q)
<1>1. /\ mispReq[q] \in MispRequest /\ MispTypes /\ mispReq[q].step = "post"
      /\ a \in mispReq[q].pending
  BY DEF Misp!Post, MispInv, MispTypes
<1>2. MispOwned(q) /\ MispWasRead(q) /\ MispIsAt(q) /\ MispKnows(q)  BY DEF MispInv, MispLocal
<1>3. /\ Misp!Running(q) /\ mispReq[q].on \in MispEvents
      /\ mispMisp[mispReq[q].on] \in SUBSET MispAttributes
      /\ \A r \in MispRequests : Misp!Running(r) => mispReq[r].on \in MispEvents
  BY <1>1, <1>2 DEF MispIsAt, Misp!Running, MispInv, MispLocal, MispTypes, MispContents
<1>4. /\ mispEvent' = mispEvent /\ mispStarted' = mispStarted /\ faults' = faults
      /\ faults' \in 0..MaxFaults
  BY DEF Misp!Post, MispInv, MispTypes
<1>5. CASE a \in mispMisp[mispReq[q].on]
  <2>1. Misp!Outcome(q, mispReq[q].on, "failed") /\ mispMisp' = mispMisp
    BY <1>5 DEF Misp!Post, Misp!Failed
  <2>2. mispReq[q].disturbed  BY <1>1, <1>2, <1>5 DEF MispKnows
  <2> QED  BY <2>1, <2>2, <1>3, <1>4, MispOutcomeProper DEF MispAdds
<1>6. CASE a \notin mispMisp[mispReq[q].on]
  <2> DEFINE held == mispMisp[mispReq[q].on] \cup {a}
  <2>1. mispMisp' = [mispMisp EXCEPT ![mispReq[q].on] = held] /\ mispAudit' = mispAudit
    BY <1>6 DEF Misp!Post
  <2>2. Misp!Disturbing(q)[q] = mispReq[q]  BY <1>1 DEF Misp!Disturbing, MispRequest
  <2>3. PICK R : mispReq' = [Misp!Disturbing(q) EXCEPT ![q] = R]
                 /\ R = [mispReq[q] EXCEPT !.pending = mispReq[q].pending \ {a}]
    BY <1>6, <2>2 DEF Misp!Post, Misp!Disturbing
  <2>4. /\ R \in MispRequest /\ R.step = "post" /\ R.pending = mispReq[q].pending \ {a}
        /\ R.expected = mispReq[q].expected /\ R.on = mispReq[q].on /\ R.id = mispReq[q].id
        /\ R.left = mispReq[q].left /\ R.read = mispReq[q].read
        /\ R.disturbed = mispReq[q].disturbed
    BY <1>1, <2>3 DEF MispRequest
  <2>5. held \in SUBSET MispAttributes /\ mispMisp[mispReq[q].on] \subseteq held /\ held # None
    BY <1>3, BackendAssumption
  <2>6. MispAdds(q)  BY <2>1, <2>5 DEF MispAdds
  <2>7. mispMisp' \in [MispEvents -> MispContents] /\ MispGrows
    BY <1>1, <1>3, <2>6, MispAddsTyped
  <2>8. mispReq' \in [MispRequests -> MispRequest] /\ mispReq'[q] = R /\ MispOthers(q)
    BY <1>1, <1>3, <2>1, <2>3, <2>4, MispDisturbedOthers
  <2>9. MispTypes'  BY <1>1, <1>4, <2>1, <2>7, <2>8 DEF MispTypes, MispEntry
  <2>10. mispMisp'[mispReq[q].on] = held  BY <1>1, <1>3, <2>1 DEF MispTypes
  <2>11. MispLocal(q)'
    <3>1. MispOwned(q)'  BY <1>1, <1>2, <1>4, <2>4, <2>8 DEF MispOwned
    <3>2. MispWasRead(q)'  BY <1>2, <2>4, <2>8 DEF MispWasRead, MispContents
    <3>3. MispIsAt(q)'  BY <1>2, <1>3, <2>4, <2>5, <2>8, <2>10 DEF MispIsAt
    <3>4. MispKnows(q)'  BY <1>1, <1>2, <2>4, <2>8, <2>10 DEF MispKnows
    <3> QED  BY <3>1, <3>2, <3>3, <3>4 DEF MispLocal
  <2>12. MispNumbered(q) /\ MispEntries(q)  BY <1>4, <2>1, <2>4, <2>8 DEF MispNumbered, MispEntries
  <2> QED  BY <2>7, <2>8, <2>9, <2>11, <2>12 DEF MispProper
<1> QED  BY <1>5, <1>6

-----------------------------------------------------------------------------
(* The theorems.                                                           *)

\* A step changes the indicators of an event, which no invariant is about, or
\* is a proper step of a request.
LEMMA MispStepIsProper ==
    ASSUME BackendAssumption, MispInv, Misp!Next
    PROVE  \/ \E q \in MispRequests : MispProper(q)
           \/ MispInv' /\ mispAudit' = mispAudit
<1>1. CASE \E e \in MispEvents, a \in MispAttributes : Misp!Change(e, a)
  <2>1. PICK e \in MispEvents, a \in MispAttributes : Misp!Change(e, a)  BY <1>1
  <2>2. /\ mispEvent[e] # None /\ mispMisp' = mispMisp /\ mispReq' = mispReq
        /\ mispAudit' = mispAudit /\ mispStarted' = mispStarted
        /\ faults' = faults
        /\ mispEvent' = [mispEvent EXCEPT ![e] = IF a \in @ THEN @ \ {a} ELSE @ \cup {a}]
    BY <2>1 DEF Misp!Change
  <2>3. mispEvent[e] \in SUBSET MispAttributes  BY <2>2 DEF MispInv, MispTypes, MispContents
  <2>4. mispEvent[e] \ {a} \in MispContents /\ mispEvent[e] \cup {a} \in MispContents
    BY <2>3 DEF MispContents
  <2>5. mispEvent' \in [MispEvents -> MispContents]  BY <2>2, <2>4 DEF MispInv, MispTypes
  <2>6. MispTypes'  BY <2>2, <2>5 DEF MispInv, MispTypes, MispEntry
  <2>7. \A q \in MispRequests : MispLocal(q)'
    BY <2>2
       DEF MispInv, MispLocal, MispOwned, MispWasRead, MispIsAt, MispKnows, Misp!Running,
           MispContents
  <2>8. MispApart' /\ Misp!DeliveredIsStored'
    BY <2>2 DEF MispInv, MispApart, Misp!DeliveredIsStored
  <2> QED  BY <2>2, <2>6, <2>7, <2>8 DEF MispInv
<1>2. CASE \E q \in MispRequests :
             \/ \E kind \in {"one", "batch", "older"}, ids \in (SUBSET MispEvents) \ {{}} : Misp!Begin(q, kind, ids)
             \/ \E e \in MispEvents : Misp!Take(q, e) \/ Misp!Skip(q, e)
             \/ \E a \in MispAttributes : Misp!Post(q, a) \/ Misp!Discard(q, a)
             \/ Misp!Find(q) \/ Misp!Create(q) \/ Misp!Posted(q) \/ Misp!CallFails(q) \/ Misp!Verify(q) \/ Misp!Dies(q)
  <2>1. PICK q \in MispRequests :
             \/ \E kind \in {"one", "batch", "older"}, ids \in (SUBSET MispEvents) \ {{}} : Misp!Begin(q, kind, ids)
             \/ \E e \in MispEvents : Misp!Take(q, e) \/ Misp!Skip(q, e)
             \/ \E a \in MispAttributes : Misp!Post(q, a) \/ Misp!Discard(q, a)
             \/ Misp!Find(q) \/ Misp!Create(q) \/ Misp!Posted(q) \/ Misp!CallFails(q) \/ Misp!Verify(q) \/ Misp!Dies(q)
    BY <1>2
  <2>2. CASE \E kind \in {"one", "batch", "older"}, ids \in (SUBSET MispEvents) \ {{}} : Misp!Begin(q, kind, ids)
    BY <2>2, MispBeginProper
  <2>3. CASE \E e \in MispEvents : Misp!Take(q, e) \/ Misp!Skip(q, e)
    BY <2>3, MispTakeProper, MispSkipProper
  <2>4. CASE \E a \in MispAttributes : Misp!Post(q, a) \/ Misp!Discard(q, a)
    BY <2>4, MispPostProper, MispPostedProper
  <2>5. CASE Misp!Find(q) \/ Misp!Create(q) \/ Misp!Posted(q) \/ Misp!CallFails(q) \/ Misp!Verify(q) \/ Misp!Dies(q)
    BY <2>5, MispFindProper, MispCreateProper, MispPostedProper, MispCallFailsProper,
       MispVerifyProper, MispDiesProper
  <2> QED  BY <2>1, <2>2, <2>3, <2>4, <2>5
<1> QED  BY <1>1, <1>2 DEF Misp!Next

\* The invariant holds at the start.
LEMMA MispInitInv == BackendAssumption /\ Misp!Init => MispInv
<1> SUFFICES ASSUME BackendAssumption, Misp!Init PROVE MispInv
  OBVIOUS
<1>1. MispTypes
  <2>1. {} \in MispContents /\ None \in MispContents  BY DEF MispContents
  <2>2. mispEvent \in [MispEvents -> MispContents] /\ mispMisp \in [MispEvents -> MispContents]
    BY <2>1 DEF Misp!Init
  <2>3. mispReq \in [MispRequests -> MispRequest]  BY MispIdleTyped DEF Misp!Init
  <2> QED  BY <2>2, <2>3, BackendAssumption DEF Misp!Init, MispTypes
<1>2. \A q \in MispRequests : mispReq[q] = Misp!Idle  BY DEF Misp!Init
<1>3. MispApart  BY <1>2 DEF MispApart, Misp!Idle
<1>4. \A q \in MispRequests : MispLocal(q)
  BY <1>2 DEF MispLocal, MispOwned, MispWasRead, MispIsAt, MispKnows, Misp!Running, Misp!Idle
<1>5. Misp!DeliveredIsStored  BY DEF Misp!Init, Misp!DeliveredIsStored
<1> QED  BY <1>1, <1>3, <1>4, <1>5 DEF MispInv

\* Every step keeps the invariant.
LEMMA MispStep == BackendAssumption /\ MispInv /\ Misp!Next => MispInv'
BY MispStepIsProper, MispProperKeeps

\* The invariant says that every variable has its type.
LEMMA MispTyped == MispInv => Misp!TypeOK
<1> SUFFICES ASSUME MispInv PROVE Misp!TypeOK
  OBVIOUS
<1>1. /\ \A e \in MispEvents : mispEvent[e] # None => mispEvent[e] \subseteq MispAttributes
      /\ \A e \in MispEvents : mispMisp[e] # None => mispMisp[e] \subseteq MispAttributes
  BY DEF MispInv, MispTypes, MispContents
<1>2. \A q \in MispRequests :
         /\ mispReq[q].step \in {"idle", "next", "find", "create", "post", "verify"}
         /\ mispReq[q].left \subseteq MispEvents /\ mispReq[q].pending \subseteq mispReq[q].expected
         /\ Misp!Running(q) => mispReq[q].on \in MispEvents
  BY DEF MispInv, MispTypes, MispRequest, MispLocal, MispIsAt
<1>3. \A a \in mispAudit : a.on \in MispEvents /\ a.id \in 1..mispStarted
  BY DEF MispInv, MispTypes, MispEntry
<1> QED  BY <1>1, <1>2, <1>3 DEF Misp!TypeOK, MispInv, MispTypes

\* A delivery fails only if a call of its own failed or another request was at
\* the same event.
LEMMA MispExplained ==
    BackendAssumption /\ MispInv /\ Misp!Next =>
        \A q \in MispRequests :
            (\E a \in mispAudit' \ mispAudit : a.id = mispReq[q].id /\ a.status = "failed")
                => mispReq[q].disturbed \/ faults' # faults
<1> SUFFICES ASSUME BackendAssumption, MispInv, Misp!Next, NEW q \in MispRequests,
                    NEW a \in mispAudit' \ mispAudit, a.id = mispReq[q].id, a.status = "failed"
             PROVE  mispReq[q].disturbed \/ faults' # faults
  OBVIOUS
<1>1. PICK r \in MispRequests : MispProper(r)  BY MispStepIsProper
<1>2. /\ a.id = mispReq[r].id /\ a.id # 0 /\ (mispReq[r].disturbed \/ faults' # faults)
  BY <1>1 DEF MispProper, MispEntries
<1>3. q = r  BY <1>2 DEF MispInv, MispApart
<1> QED  BY <1>2, <1>3

-----------------------------------------------------------------------------
(* The imports of review exports.                                          *)

ImportSteps   == {"idle", "digest", "check", "match", "pages", "compare", "read", "write"}
ImportWork    == {"compare", "read", "write"}
ImportRequest ==
    [step : ImportSteps, export : ImportExports \cup {None}, item : Import!AllItems \cup {<<>>},
     digest : 0..(ImportMaxRewrites + 1), pages : SUBSET Import!AllItems, run : Nat,
     left : SUBSET Import!AllItems, batch : Import!AllItems \cup {<<>>}, row : Nat]
ImportRun ==
    [export : ImportExports, edition : 1..(ImportMaxRewrites + 1),
     items : SUBSET Import!AllItems, status : {"running", "completed", "failed"}]

ImportTypes ==
    /\ importEdition \in [ImportExports -> 1..(ImportMaxRewrites + 1)]
    /\ importRaw \in [ImportRecords -> Nat]
    /\ importRuns \in Seq(ImportRun) /\ importReq \in [ImportRequests -> ImportRequest]
    /\ importStored \subseteq Import!AllItems

ImportRowsStored == \A r \in ImportRecords : importRaw[r] # 0 => <<r, importRaw[r]>> \in importStored

\* The pages that were read are of one edition of the export.
ImportIsPaging(q) ==
    /\ importReq[q].step # "idle" => importReq[q].export \in ImportExports
    /\ importReq[q].step \in {"digest", "check", "match"} => importReq[q].pages = {}
    /\ importReq[q].step = "match" => importReq[q].digest = 0
    /\ importReq[q].step = "pages" =>
          IF importReq[q].digest = 0 THEN importReq[q].pages = {}
          ELSE importReq[q].pages \subseteq ImportItems(importReq[q].export, importReq[q].digest)

\* What is not stored of a run is left, or in the batch under way.
ImportIsStoring(q) ==
    importReq[q].step \in ImportWork =>
        /\ importReq[q].run \in DOMAIN importRuns
        /\ importReq[q].step # "compare" => importReq[q].batch \in Import!AllItems
        /\ importRuns[importReq[q].run].items \subseteq
              importStored \cup importReq[q].left
                  \cup (IF importReq[q].step = "compare" THEN {} ELSE {importReq[q].batch})

ImportLocal(q) == ImportIsPaging(q) /\ ImportIsStoring(q)

ImportInv ==
    /\ ImportTypes /\ ImportRowsStored /\ \A q \in ImportRequests : ImportLocal(q)
    /\ Import!ImportsOneEdition /\ Import!CompletedRunStored

\* What a step of a request leaves the others: runs keep what they import, and
\* the database forgets nothing it has had.
ImportKeeps(q) ==
    /\ \A r \in ImportRequests \ {q} : importReq'[r] = importReq[r]
    /\ DOMAIN importRuns \subseteq DOMAIN importRuns' /\ importStored \subseteq importStored'
    /\ \A i \in DOMAIN importRuns : importRuns'[i].items = importRuns[i].items

LEMMA ImportItemsTyped ==
    /\ \A x \in ImportExports : \A n \in 1..(ImportMaxRewrites + 1) : ImportItems(x, n) \subseteq Import!AllItems
    /\ \A i \in Import!AllItems : i[1] \in ImportRecords /\ i[2] \in Nat \ {0} /\ i = <<i[1], i[2]>> /\ i # <<>>
<1>1. \A x \in ImportExports : \A n \in 1..(ImportMaxRewrites + 1) : ImportItems(x, n) \subseteq Import!AllItems
  BY DEF Import!AllItems
<1>2. ASSUME NEW i \in Import!AllItems
      PROVE  i[1] \in ImportRecords /\ i[2] \in Nat \ {0} /\ i = <<i[1], i[2]>> /\ i # <<>>
  <2>1. PICK x \in ImportExports, n \in 1..(ImportMaxRewrites + 1) : i \in ImportItems(x, n)
    BY DEF Import!AllItems
  <2>2. i \in ImportRecords \X (Nat \ {0})  BY <2>1, BackendAssumption
  <2>3. PICK r \in ImportRecords, n2 \in Nat \ {0} : i = <<r, n2>>  BY <2>2
  <2> QED  BY <2>3
<1> QED  BY <1>1, <1>2

\* An item whose version the row has is stored.
LEMMA ImportUnchangedStored ==
    ASSUME ImportTypes, ImportRowsStored, NEW i \in Import!AllItems,
           Import!IsUnchanged(importRaw[i[1]], i)
    PROVE  i \in importStored
BY ImportItemsTyped DEF ImportTypes, ImportRowsStored, Import!IsUnchanged

LEMMA ImportIdleTyped == Import!Idle \in ImportRequest
<1>1. {} \in SUBSET Import!AllItems  OBVIOUS
<1>2. 0 \in 0..(ImportMaxRewrites + 1) /\ 0 \in Nat  BY BackendAssumption
<1>3. /\ None \in ImportExports \cup {None} /\ <<>> \in Import!AllItems \cup {<<>>}
      /\ "idle" \in ImportSteps
  BY DEF ImportSteps
<1> QED  BY <1>1, <1>2, <1>3 DEF Import!Idle, ImportRequest

LEMMA ImportOthersKeep ==
    ASSUME ImportInv, NEW q \in ImportRequests, ImportKeeps(q), NEW r \in ImportRequests, r # q
    PROVE  ImportLocal(r)'
<1>1. importReq'[r] = importReq[r]  BY DEF ImportKeeps
<1>2. ImportIsPaging(r)'  BY <1>1 DEF ImportInv, ImportLocal, ImportIsPaging
<1>3. ImportIsStoring(r)'
  <2> SUFFICES ASSUME importReq[r].step \in ImportWork
               PROVE  /\ importReq[r].run \in DOMAIN importRuns'
                      /\ importReq[r].step # "compare" => importReq[r].batch \in Import!AllItems
                      /\ importRuns'[importReq[r].run].items \subseteq importStored' \cup importReq[r].left
                           \cup (IF importReq[r].step = "compare" THEN {} ELSE {importReq[r].batch})
    BY <1>1 DEF ImportIsStoring
  <2>1. ImportIsStoring(r)  BY DEF ImportInv, ImportLocal
  <2>2. importRuns'[importReq[r].run].items = importRuns[importReq[r].run].items
    BY <2>1 DEF ImportKeeps, ImportIsStoring
  <2> QED  BY <2>1, <2>2 DEF ImportKeeps, ImportIsStoring
<1> QED  BY <1>2, <1>3 DEF ImportLocal

\* The status of a run is written.
LEMMA ImportStatusKept ==
    ASSUME ImportTypes, NEW k, NEW s \in {"completed", "failed"},
           importRuns' = [importRuns EXCEPT ![k].status = s]
    PROVE  /\ importRuns' \in Seq(ImportRun) /\ DOMAIN importRuns' = DOMAIN importRuns
           /\ \A i \in DOMAIN importRuns : /\ importRuns'[i].items = importRuns[i].items
                                     /\ importRuns'[i].export = importRuns[i].export
                                     /\ importRuns'[i].edition = importRuns[i].edition
                                     /\ importRuns'[i].status = IF i = k THEN s ELSE importRuns[i].status
<1>1. /\ importRuns \in Seq(ImportRun) /\ DOMAIN importRuns = 1..Len(importRuns)
      /\ Len(importRuns) \in Nat
  BY DEF ImportTypes
<1>2. \A i \in DOMAIN importRuns : importRuns[i] \in ImportRun  BY <1>1
<1>3. DOMAIN importRuns' = DOMAIN importRuns  OBVIOUS
<1>4. \A i \in DOMAIN importRuns : importRuns'[i] = IF i = k THEN [importRuns[i] EXCEPT !.status = s] ELSE importRuns[i]
  BY <1>1
<1>5. \A i \in DOMAIN importRuns :
         /\ importRuns'[i] \in ImportRun
         /\ importRuns'[i].items = importRuns[i].items
         /\ importRuns'[i].export = importRuns[i].export
         /\ importRuns'[i].edition = importRuns[i].edition
         /\ importRuns'[i].status = IF i = k THEN s ELSE importRuns[i].status
  BY <1>2, <1>4 DEF ImportRun
<1>6. importRuns' = [i \in 1..Len(importRuns) |-> importRuns'[i]]  BY <1>1, <1>3
<1>7. [i \in 1..Len(importRuns) |-> importRuns'[i]] \in Seq(ImportRun)
  <2> DEFINE f == [i \in 1..Len(importRuns) |-> importRuns'[i]]
  <2>1. f \in [1..Len(importRuns) -> ImportRun]  BY <1>1, <1>5
  <2> QED  BY <1>1, <2>1
<1> QED  BY <1>3, <1>5, <1>6, <1>7

\* A step that keeps the runs as they are, and stores nothing.
LEMMA ImportRequestOnly ==
    ASSUME ImportInv, NEW q \in ImportRequests, NEW R \in ImportRequest,
           importReq' = [importReq EXCEPT ![q] = R],
           importRuns' = importRuns, importStored' = importStored, importRaw' = importRaw, importEdition' = importEdition, ImportLocal(q)'
    PROVE  ImportInv'
<1>1. importReq' \in [ImportRequests -> ImportRequest] /\ ImportKeeps(q)
  BY DEF ImportInv, ImportTypes, ImportKeeps
<1>2. \A r \in ImportRequests : ImportLocal(r)'  BY <1>1, ImportOthersKeep
<1>3. ImportTypes' /\ ImportRowsStored'  BY <1>1 DEF ImportInv, ImportTypes, ImportRowsStored
<1>4. Import!ImportsOneEdition' /\ Import!CompletedRunStored'
  BY DEF ImportInv, Import!ImportsOneEdition, Import!CompletedRunStored
<1> QED  BY <1>2, <1>3, <1>4 DEF ImportInv

\* A request ends, and its run with it.
LEMMA ImportEnds ==
    ASSUME ImportInv, NEW q \in ImportRequests, importReq' = [importReq EXCEPT ![q] = Import!Idle],
           importStored' = importStored, importRaw' = importRaw, importEdition' = importEdition,
           \/ importRuns' = importRuns
           \/ \E s \in {"completed", "failed"} :
                 /\ importRuns' = [importRuns EXCEPT ![importReq[q].run].status = s]
                 /\ s = "completed" => importReq[q].run \in DOMAIN importRuns
                                       /\ importRuns[importReq[q].run].items \subseteq importStored
    PROVE  ImportInv'
<1>1. ImportLocal(q)'
  <2>1. importReq'[q].step = "idle"  BY DEF ImportInv, ImportTypes, Import!Idle
  <2>2. ImportIsStoring(q)' /\ ImportIsPaging(q)'
    BY <2>1 DEF ImportIsPaging, ImportIsStoring, ImportWork
  <2> QED  BY <2>2 DEF ImportLocal
<1>2. CASE importRuns' = importRuns  BY <1>1, <1>2, ImportIdleTyped, ImportRequestOnly
<1>3. ASSUME NEW s \in {"completed", "failed"},
             importRuns' = [importRuns EXCEPT ![importReq[q].run].status = s],
             s = "completed" => importReq[q].run \in DOMAIN importRuns /\ importRuns[importReq[q].run].items \subseteq importStored
      PROVE  ImportInv'
  <2>1. /\ importRuns' \in Seq(ImportRun) /\ DOMAIN importRuns' = DOMAIN importRuns
        /\ \A i \in DOMAIN importRuns : /\ importRuns'[i].items = importRuns[i].items
                                  /\ importRuns'[i].export = importRuns[i].export
                                  /\ importRuns'[i].edition = importRuns[i].edition
                                  /\ importRuns'[i].status = IF i = importReq[q].run THEN s ELSE importRuns[i].status
    <3> DEFINE k == importReq[q].run
    <3>1. importRuns' = [importRuns EXCEPT ![k].status = s] /\ ImportTypes  BY <1>3 DEF ImportInv
    <3> HIDE DEF k
    <3>2. \A i \in DOMAIN importRuns : importRuns'[i].status = IF i = k THEN s ELSE importRuns[i].status
      BY <3>1, ImportStatusKept
    <3> QED  BY <3>1, <3>2, ImportStatusKept DEF k
  <2>2. importReq' \in [ImportRequests -> ImportRequest] /\ ImportKeeps(q)
    BY <2>1, ImportIdleTyped DEF ImportInv, ImportTypes, ImportKeeps
  <2>3. \A r \in ImportRequests : ImportLocal(r)'  BY <1>1, <2>2, ImportOthersKeep
  <2>4. ImportTypes' /\ ImportRowsStored'
    BY <2>1, <2>2 DEF ImportInv, ImportTypes, ImportRowsStored
  <2>5. Import!ImportsOneEdition'  BY <2>1 DEF ImportInv, Import!ImportsOneEdition
  <2>6. Import!CompletedRunStored'  BY <1>3, <2>1 DEF ImportInv, Import!CompletedRunStored
  <2> QED  BY <2>3, <2>4, <2>5, <2>6 DEF ImportInv
<1> QED  BY <1>2, <1>3

LEMMA ImportFailsKeeps ==
    ASSUME ImportInv, NEW q \in ImportRequests, Import!ImportFails(q)
    PROVE  ImportInv'
BY ImportEnds DEF Import!ImportFails, Import!Answer

-----------------------------------------------------------------------------
(* The actions.                                                            *)

LEMMA ImportRewriteKeeps ==
    ASSUME ImportInv, NEW x \in ImportExports, Import!Rewrite(x)
    PROVE  ImportInv'
<1>1. /\ importEdition' = [importEdition EXCEPT ![x] = importEdition[x] + 1]
      /\ importEdition[x] <= ImportMaxRewrites
      /\ importRaw' = importRaw /\ importRuns' = importRuns /\ importReq' = importReq
      /\ importStored' = importStored
  BY DEF Import!Rewrite
<1>2. importEdition' \in [ImportExports -> 1..(ImportMaxRewrites + 1)]
  BY <1>1, BackendAssumption DEF ImportInv, ImportTypes
<1>3. ImportTypes' /\ ImportRowsStored'  BY <1>1, <1>2 DEF ImportInv, ImportTypes, ImportRowsStored
<1>4. \A q \in ImportRequests : ImportLocal(q)'
  BY <1>1 DEF ImportInv, ImportLocal, ImportIsPaging, ImportIsStoring
<1>5. Import!ImportsOneEdition' /\ Import!CompletedRunStored'
  BY <1>1 DEF ImportInv, Import!ImportsOneEdition, Import!CompletedRunStored
<1> QED  BY <1>3, <1>4, <1>5 DEF ImportInv

LEMMA ImportDecideKeeps ==
    ASSUME ImportInv, NEW q \in ImportRequests, NEW x \in ImportExports, NEW i \in Import!AllItems,
           Import!Decide(q, x, i)
    PROVE  ImportInv'
<1> DEFINE R == [Import!Idle EXCEPT !.step = "digest", !.export = x, !.item = i]
<1>1. R \in ImportRequest /\ R.step = "digest" /\ R.export = x /\ R.pages = {}
  BY ImportIdleTyped DEF Import!Idle, ImportRequest, ImportSteps
<1> HIDE DEF R
<1>2. /\ importReq' = [importReq EXCEPT ![q] = R] /\ importEdition' = importEdition
      /\ importRaw' = importRaw /\ importRuns' = importRuns
      /\ importStored' = importStored
  BY DEF Import!Decide, R
<1>3. importReq'[q] = R  BY <1>2 DEF ImportInv, ImportTypes
<1>4. ImportIsPaging(q)' /\ ImportIsStoring(q)'
  BY <1>1, <1>3 DEF ImportIsPaging, ImportIsStoring, ImportWork
<1> QED  BY <1>1, <1>2, <1>4, ImportRequestOnly DEF ImportLocal

LEMMA ImportReadDigestKeeps ==
    ASSUME ImportInv, NEW q \in ImportRequests, Import!ReadDigest(q)
    PROVE  ImportInv'
<1> DEFINE R == [importReq[q] EXCEPT !.step = "check", !.digest = importEdition[importReq[q].export]]
<1>1. importReq[q] \in ImportRequest /\ importReq[q].step = "digest" /\ ImportIsPaging(q)
  BY DEF Import!ReadDigest, ImportInv, ImportTypes, ImportLocal
<1>2. importEdition[importReq[q].export] \in 0..(ImportMaxRewrites + 1)
  BY <1>1, BackendAssumption DEF ImportInv, ImportTypes, ImportIsPaging
<1>3. /\ R \in ImportRequest /\ R.step = "check" /\ R.export = importReq[q].export
      /\ R.pages = importReq[q].pages
  BY <1>1, <1>2 DEF ImportRequest, ImportSteps
<1>4. /\ importReq' = [importReq EXCEPT ![q] = R] /\ importEdition' = importEdition
      /\ importRaw' = importRaw /\ importRuns' = importRuns
      /\ importStored' = importStored
  BY DEF Import!ReadDigest
<1> HIDE DEF R
<1>5. importReq'[q] = R  BY <1>4 DEF ImportInv, ImportTypes
<1>6. ImportIsPaging(q)' /\ ImportIsStoring(q)'
  BY <1>1, <1>3, <1>5 DEF ImportIsPaging, ImportIsStoring, ImportWork
<1> QED  BY <1>3, <1>4, <1>6, ImportRequestOnly DEF ImportLocal

LEMMA ImportCheckDigestKeeps ==
    ASSUME ImportInv, NEW q \in ImportRequests, Import!CheckDigest(q)
    PROVE  ImportInv'
<1>1. CASE importEdition[importReq[q].export] = importReq[q].digest
  <2> DEFINE R == [importReq[q] EXCEPT !.step = "match", !.digest = 0]
  <2>1. importReq[q] \in ImportRequest /\ importReq[q].step = "check" /\ ImportIsPaging(q)
    BY DEF Import!CheckDigest, ImportInv, ImportTypes, ImportLocal
  <2>2. /\ R \in ImportRequest /\ R.step = "match" /\ R.export = importReq[q].export
        /\ R.pages = importReq[q].pages
        /\ R.digest = 0
    <3>1. 0 \in 0..(ImportMaxRewrites + 1) /\ "match" \in ImportSteps
      BY BackendAssumption DEF ImportSteps
    <3> QED  BY <2>1, <3>1 DEF ImportRequest
  <2>3. /\ importReq' = [importReq EXCEPT ![q] = R] /\ importEdition' = importEdition
        /\ importRaw' = importRaw /\ importRuns' = importRuns
        /\ importStored' = importStored
    BY <1>1 DEF Import!CheckDigest
  <2> HIDE DEF R
  <2>4. importReq'[q] = R  BY <2>3 DEF ImportInv, ImportTypes
  <2>5. ImportIsPaging(q)' /\ ImportIsStoring(q)'
    BY <2>1, <2>2, <2>4 DEF ImportIsPaging, ImportIsStoring, ImportWork
  <2> QED  BY <2>2, <2>3, <2>5, ImportRequestOnly DEF ImportLocal
<1>2. CASE importEdition[importReq[q].export] # importReq[q].digest
  BY <1>2, ImportFailsKeeps DEF Import!CheckDigest
<1> QED  BY <1>1, <1>2

LEMMA ImportMatchKeeps ==
    ASSUME ImportInv, NEW q \in ImportRequests, Import!Match(q)
    PROVE  ImportInv'
<1>1. /\ importEdition' = importEdition /\ importRaw' = importRaw /\ importRuns' = importRuns
      /\ importStored' = importStored
      /\ importReq[q].step = "match"
  BY DEF Import!Match
<1>2. CASE Import!Matches(importReq[q].export)
  <2>1. importReq' = [importReq EXCEPT ![q] = Import!Idle]  BY <1>2 DEF Import!Match, Import!Answer
  <2> QED  BY <1>1, <2>1, ImportEnds
<1>3. CASE ~Import!Matches(importReq[q].export)
  <2> DEFINE R == [importReq[q] EXCEPT !.step = "pages"]
  <2>1. importReq[q] \in ImportRequest /\ ImportIsPaging(q)
    BY DEF ImportInv, ImportTypes, ImportLocal
  <2>2. /\ R \in ImportRequest /\ R.step = "pages" /\ R.export = importReq[q].export
        /\ R.pages = importReq[q].pages
        /\ R.digest = importReq[q].digest
    BY <2>1 DEF ImportRequest, ImportSteps
  <2>3. importReq' = [importReq EXCEPT ![q] = R]  BY <1>3 DEF Import!Match
  <2> HIDE DEF R
  <2>4. importReq'[q] = R  BY <2>3 DEF ImportInv, ImportTypes
  <2>5. ImportIsPaging(q)' /\ ImportIsStoring(q)'
    BY <1>1, <2>1, <2>2, <2>4 DEF ImportIsPaging, ImportIsStoring, ImportWork
  <2> QED  BY <1>1, <2>2, <2>3, <2>5, ImportRequestOnly DEF ImportLocal
<1> QED  BY <1>2, <1>3

\* A set of pages that has as many items as the edition has all of them.
LEMMA ImportWholeEdition ==
    ASSUME NEW x \in ImportExports, NEW n \in 1..(ImportMaxRewrites + 1),
           NEW pages \in SUBSET ImportItems(x, n),
           ~(Cardinality(pages) < Cardinality(ImportItems(x, n)))
    PROVE  pages = ImportItems(x, n)
<1>1. IsFiniteSet(ImportItems(x, n))  BY BackendAssumption
<1>2. IsFiniteSet(pages) /\ Cardinality(pages) <= Cardinality(ImportItems(x, n))
      /\ (Cardinality(pages) = Cardinality(ImportItems(x, n)) => pages = ImportItems(x, n))
  BY <1>1, FS_Subset
<1>3. Cardinality(pages) \in Nat /\ Cardinality(ImportItems(x, n)) \in Nat
  BY <1>1, <1>2, FS_CardinalityType
<1> QED  BY <1>2, <1>3

LEMMA ImportReadPageKeeps ==
    ASSUME ImportInv, NEW q \in ImportRequests, NEW i \in Import!AllItems, Import!ReadPage(q, i)
    PROVE  ImportInv'
<1> DEFINE now   == importEdition[importReq[q].export]
           first == IF importReq[q].digest = 0 THEN now ELSE importReq[q].digest
           pages == importReq[q].pages \cup {i}
<1>1. /\ importReq[q] \in ImportRequest /\ importReq[q].step = "pages" /\ ImportIsPaging(q)
      /\ importReq[q].export \in ImportExports
      /\ i \in ImportItems(importReq[q].export, now)
  BY DEF Import!ReadPage, ImportInv, ImportTypes, ImportLocal, ImportIsPaging
<1>2. now \in 1..(ImportMaxRewrites + 1)  BY <1>1 DEF ImportInv, ImportTypes
<1>5. now \in 0..(ImportMaxRewrites + 1) /\ now # 0  BY <1>2, BackendAssumption
<1>3. CASE ~Import!SameExport(importReq[q].digest, now)
  BY <1>3, ImportFailsKeeps DEF Import!ReadPage
<1>4. CASE Import!SameExport(importReq[q].digest, now)
  <2>1. first = now  BY <1>4 DEF Import!SameExport
  <2>2. pages \subseteq ImportItems(importReq[q].export, now)
    BY <1>1, <1>4, <2>1 DEF ImportIsPaging, Import!SameExport
  <2>3. pages \subseteq Import!AllItems  BY <1>1, <1>2, <2>2, ImportItemsTyped
  <2>4. importEdition' = importEdition /\ importRaw' = importRaw /\ importStored' = importStored
    BY <1>4 DEF Import!ReadPage
  <2>5. CASE Cardinality(pages) < Cardinality(ImportItems(importReq[q].export, first))
    <3> DEFINE R == [importReq[q] EXCEPT !.digest = first, !.pages = pages]
    <3>1. importReq' = [importReq EXCEPT ![q] = R] /\ importRuns' = importRuns
      BY <1>4, <2>5, Counting DEF Import!ReadPage
    <3> HIDE DEF now, first, pages
    <3>2. /\ R \in ImportRequest /\ R.step = "pages" /\ R.digest = now /\ R.pages = pages
          /\ R.export = importReq[q].export
      BY <1>1, <1>5, <2>1, <2>3 DEF ImportRequest
    <3> HIDE DEF R
    <3>3. importReq'[q] = R  BY <3>1 DEF ImportInv, ImportTypes
    <3>4. ImportIsPaging(q)' /\ ImportIsStoring(q)'
      BY <1>1, <1>5, <2>2, <3>2, <3>3 DEF ImportIsPaging, ImportIsStoring, ImportWork
    <3> QED  BY <2>4, <3>1, <3>2, <3>4, ImportRequestOnly DEF ImportLocal
  <2>6. CASE ~(Cardinality(pages) < Cardinality(ImportItems(importReq[q].export, first)))
    <3> DEFINE run == [export |-> importReq[q].export, edition |-> first, items |-> pages,
                       status |-> "running"]
               R   == [importReq[q] EXCEPT !.step = "compare", !.digest = first, !.pages = pages,
                                     !.left = pages, !.run = Len(importRuns) + 1]
    <3>1. importRuns' = Append(importRuns, run) /\ importReq' = [importReq EXCEPT ![q] = R]
      BY <1>4, <2>6, Counting DEF Import!ReadPage
    <3>2. pages = ImportItems(importReq[q].export, now)
      BY <1>1, <1>2, <2>1, <2>2, <2>6, ImportWholeEdition
    <3>3. /\ run \in ImportRun /\ run.items = pages /\ run.export = importReq[q].export
          /\ run.edition = now
          /\ run.status = "running"
      BY <1>1, <1>2, <2>1, <2>3 DEF ImportRun
    <3>4. importRuns \in Seq(ImportRun) /\ Len(importRuns) \in Nat  BY DEF ImportInv, ImportTypes
    <3> HIDE DEF run, first, pages, now
    <3>5. /\ R \in ImportRequest /\ R.step = "compare" /\ R.left = pages
          /\ R.run = Len(importRuns) + 1
          /\ R.export = importReq[q].export
      <4>1. Len(importRuns) + 1 \in Nat /\ "compare" \in ImportSteps  BY <3>4 DEF ImportSteps
      <4> QED  BY <1>1, <1>5, <2>1, <2>3, <4>1 DEF ImportRequest
    <3> HIDE DEF R
    <3>6. /\ importRuns' \in Seq(ImportRun) /\ DOMAIN importRuns' = 1..(Len(importRuns) + 1)
          /\ DOMAIN importRuns = 1..Len(importRuns)
          /\ importRuns'[Len(importRuns) + 1] = run /\ \A k \in 1..Len(importRuns) : importRuns'[k] = importRuns[k]
      BY <3>1, <3>3, <3>4
    <3>7. importReq' \in [ImportRequests -> ImportRequest] /\ importReq'[q] = R /\ ImportKeeps(q)
      BY <2>4, <3>1, <3>4, <3>5, <3>6 DEF ImportInv, ImportTypes, ImportKeeps
    <3>8. ImportLocal(q)'
      <4>1. ImportIsPaging(q)'  BY <1>1, <3>5, <3>7 DEF ImportIsPaging
      <4>2. ImportIsStoring(q)'  BY <3>3, <3>4, <3>5, <3>6, <3>7 DEF ImportIsStoring, ImportWork
      <4> QED  BY <4>1, <4>2 DEF ImportLocal
    <3>9. \A r \in ImportRequests : ImportLocal(r)'  BY <3>7, <3>8, ImportOthersKeep
    <3>10. ImportTypes' /\ ImportRowsStored'
      BY <2>4, <3>6, <3>7 DEF ImportInv, ImportTypes, ImportRowsStored
    <3>11. Import!ImportsOneEdition'
      BY <3>2, <3>3, <3>4, <3>6 DEF ImportInv, Import!ImportsOneEdition
    <3>12. Import!CompletedRunStored'
      BY <2>4, <3>3, <3>4, <3>6 DEF ImportInv, Import!CompletedRunStored
    <3> QED  BY <3>9, <3>10, <3>11, <3>12 DEF ImportInv
  <2> QED  BY <2>5, <2>6
<1> QED  BY <1>3, <1>4

LEMMA ImportCompareKeeps ==
    ASSUME ImportInv, NEW q \in ImportRequests, NEW i \in Import!AllItems, Import!Compare(q, i)
    PROVE  ImportInv'
<1> DEFINE same == Import!IsUnchanged(importRaw[i[1]], i)
<1>1. /\ importReq[q] \in ImportRequest /\ importReq[q].step = "compare" /\ i \in importReq[q].left
      /\ ImportIsStoring(q)
      /\ ImportIsPaging(q)
  BY DEF Import!Compare, ImportInv, ImportTypes, ImportLocal
<1>2. PICK R : /\ importReq' = [importReq EXCEPT ![q] = R]
               /\ R = [importReq[q] EXCEPT !.left = importReq[q].left \ {i}, !.batch = IF same THEN <<>> ELSE i,
                                     !.step = IF same THEN "compare" ELSE "read"]
  BY DEF Import!Compare, ImportInv, ImportTypes
<1>3. /\ importEdition' = importEdition /\ importRaw' = importRaw /\ importRuns' = importRuns
      /\ importStored' = importStored
  BY DEF Import!Compare
<1>4. same => i \in importStored  BY ImportUnchangedStored DEF ImportInv
<1>5. /\ R \in ImportRequest /\ R.step = (IF same THEN "compare" ELSE "read")
      /\ R.left = importReq[q].left \ {i} /\ R.batch = (IF same THEN <<>> ELSE i)
      /\ R.run = importReq[q].run /\ R.export = importReq[q].export
  BY <1>1, <1>2 DEF ImportRequest, ImportSteps
<1>6. importReq'[q] = R  BY <1>2 DEF ImportInv, ImportTypes
<1> HIDE DEF same
<1>7. ImportIsPaging(q)'  BY <1>1, <1>5, <1>6 DEF ImportIsPaging
<1>8. ImportIsStoring(q)'
  <2>1. CASE same  BY <1>1, <1>3, <1>4, <1>5, <1>6, <2>1 DEF ImportIsStoring, ImportWork
  <2>2. CASE ~same  BY <1>1, <1>3, <1>5, <1>6, <2>2 DEF ImportIsStoring, ImportWork
  <2> QED  BY <2>1, <2>2
<1> QED  BY <1>2, <1>3, <1>5, <1>7, <1>8, ImportRequestOnly DEF ImportLocal

LEMMA ImportReadRowKeeps ==
    ASSUME ImportInv, NEW q \in ImportRequests, Import!ReadRow(q)
    PROVE  ImportInv'
<1> DEFINE row  == importRaw[importReq[q].batch[1]]
           same == Import!IsUnchanged(row, importReq[q].batch)
<1>1. /\ importReq[q] \in ImportRequest /\ importReq[q].step = "read" /\ ImportIsStoring(q)
      /\ ImportIsPaging(q)
  BY DEF Import!ReadRow, ImportInv, ImportTypes, ImportLocal
<1>2. PICK R : /\ importReq' = [importReq EXCEPT ![q] = R]
               /\ R = [importReq[q] EXCEPT !.row = row, !.step = IF same THEN "compare" ELSE "write"]
  BY DEF Import!ReadRow, ImportInv, ImportTypes
<1>3. /\ importEdition' = importEdition /\ importRaw' = importRaw /\ importRuns' = importRuns
      /\ importStored' = importStored
  BY DEF Import!ReadRow
<1>4. importReq[q].batch \in Import!AllItems  BY <1>1 DEF ImportIsStoring, ImportWork
<1>5. row \in Nat  BY <1>4, ImportItemsTyped DEF ImportInv, ImportTypes
<1>6. same => importReq[q].batch \in importStored  BY <1>4, ImportUnchangedStored DEF ImportInv
<1> HIDE DEF same, row
<1>7. /\ R \in ImportRequest /\ R.step = (IF same THEN "compare" ELSE "write")
      /\ R.left = importReq[q].left /\ R.batch = importReq[q].batch
      /\ R.run = importReq[q].run /\ R.export = importReq[q].export
  BY <1>1, <1>2, <1>5 DEF ImportRequest, ImportSteps
<1>8. importReq'[q] = R  BY <1>2 DEF ImportInv, ImportTypes
<1>9. ImportIsPaging(q)'  BY <1>1, <1>7, <1>8 DEF ImportIsPaging
<1>10. ImportIsStoring(q)'
  <2>1. CASE same  BY <1>1, <1>3, <1>6, <1>7, <1>8, <2>1 DEF ImportIsStoring, ImportWork
  <2>2. CASE ~same  BY <1>1, <1>3, <1>7, <1>8, <2>2 DEF ImportIsStoring, ImportWork
  <2> QED  BY <2>1, <2>2
<1> QED  BY <1>2, <1>3, <1>7, <1>9, <1>10, ImportRequestOnly DEF ImportLocal

LEMMA ImportWriteRowKeeps ==
    ASSUME ImportInv, NEW q \in ImportRequests, Import!WriteRow(q)
    PROVE  ImportInv'
<1>1. CASE importReq[q].row = 0 /\ importRaw[importReq[q].batch[1]] # 0
  BY <1>1, ImportFailsKeeps DEF Import!WriteRow
<1>2. CASE ~(importReq[q].row = 0 /\ importRaw[importReq[q].batch[1]] # 0)
  <2> DEFINE R == [importReq[q] EXCEPT !.step = "compare", !.batch = <<>>, !.row = 0]
             b == importReq[q].batch
  <2>1. /\ importReq[q] \in ImportRequest /\ importReq[q].step = "write" /\ ImportIsStoring(q)
        /\ ImportIsPaging(q)
    BY DEF Import!WriteRow, ImportInv, ImportTypes, ImportLocal
  <2>2. b \in Import!AllItems  BY <2>1 DEF ImportIsStoring, ImportWork
  <2>3. /\ importReq' = [importReq EXCEPT ![q] = R] /\ importEdition' = importEdition
        /\ importRuns' = importRuns
        /\ importRaw' = [importRaw EXCEPT ![b[1]] = b[2]] /\ importStored' = importStored \cup {b}
    BY <1>2 DEF Import!WriteRow
  <2>4. /\ R \in ImportRequest /\ R.step = "compare" /\ R.left = importReq[q].left
        /\ R.run = importReq[q].run
        /\ R.export = importReq[q].export
    BY <2>1, BackendAssumption DEF ImportRequest, ImportSteps
  <2> HIDE DEF R, b
  <2>5. importReq' \in [ImportRequests -> ImportRequest] /\ importReq'[q] = R /\ ImportKeeps(q)
    BY <2>3, <2>4 DEF ImportInv, ImportTypes, ImportKeeps
  <2>6. b[1] \in ImportRecords /\ b[2] \in Nat /\ b = <<b[1], b[2]>>  BY <2>2, ImportItemsTyped
  <2>7. importRaw' \in [ImportRecords -> Nat] /\ ImportRowsStored'
    BY <2>3, <2>6 DEF ImportInv, ImportTypes, ImportRowsStored
  <2>8. ImportTypes'  BY <2>2, <2>3, <2>5, <2>7 DEF ImportInv, ImportTypes
  <2>9. ImportLocal(q)'
    <3>1. ImportIsPaging(q)'  BY <2>1, <2>4, <2>5 DEF ImportIsPaging
    <3>2. ImportIsStoring(q)'  BY <2>1, <2>3, <2>4, <2>5 DEF ImportIsStoring, ImportWork, b
    <3> QED  BY <3>1, <3>2 DEF ImportLocal
  <2>10. \A r \in ImportRequests : ImportLocal(r)'  BY <2>5, <2>9, ImportOthersKeep
  <2>11. Import!ImportsOneEdition' /\ Import!CompletedRunStored'
    BY <2>3 DEF ImportInv, Import!ImportsOneEdition, Import!CompletedRunStored
  <2> QED  BY <2>7, <2>8, <2>10, <2>11 DEF ImportInv
<1> QED  BY <1>1, <1>2

LEMMA ImportFinishKeeps ==
    ASSUME ImportInv, NEW q \in ImportRequests, Import!Finish(q)
    PROVE  ImportInv'
<1>1. /\ importReq' = [importReq EXCEPT ![q] = Import!Idle] /\ importStored' = importStored
      /\ importRaw' = importRaw /\ importEdition' = importEdition
      /\ importRuns' = [importRuns EXCEPT ![importReq[q].run].status = "completed"]
      /\ importReq[q].step = "compare" /\ importReq[q].left = {}
  BY DEF Import!Finish, Import!Answer
<1>2. /\ importReq[q].run \in DOMAIN importRuns
      /\ importRuns[importReq[q].run].items \subseteq importStored
  BY <1>1 DEF ImportInv, ImportLocal, ImportIsStoring, ImportWork
<1> QED  BY <1>1, <1>2, ImportEnds

LEMMA ImportDiesKeeps == ASSUME ImportInv, NEW q \in ImportRequests, Import!Dies(q) PROVE ImportInv'
BY ImportEnds DEF Import!Dies

LEMMA ImportStep == ImportInv /\ (Import!Next \/ UNCHANGED importVars) => ImportInv'
<1> SUFFICES ASSUME ImportInv, Import!Next \/ UNCHANGED importVars PROVE ImportInv'
  OBVIOUS
<1>1. CASE \E x \in ImportExports : Import!Rewrite(x)  BY <1>1, ImportRewriteKeeps
<1>2. ASSUME NEW q \in ImportRequests,
             \/ \E x \in ImportExports, i \in Import!AllItems : Import!Decide(q, x, i)
             \/ \E i \in Import!AllItems : Import!ReadPage(q, i) \/ Import!Compare(q, i)
             \/ Import!ReadDigest(q) \/ Import!CheckDigest(q) \/ Import!Match(q)
             \/ Import!ReadRow(q) \/ Import!WriteRow(q) \/ Import!Finish(q) \/ Import!StepFails(q) \/ Import!Dies(q)
      PROVE  ImportInv'
  <2>1. CASE \E x \in ImportExports, i \in Import!AllItems : Import!Decide(q, x, i)
    BY <2>1, ImportDecideKeeps
  <2>2. CASE \E i \in Import!AllItems : Import!ReadPage(q, i) \/ Import!Compare(q, i)
    BY <2>2, ImportReadPageKeeps, ImportCompareKeeps
  <2>3. CASE Import!ReadDigest(q) \/ Import!CheckDigest(q) \/ Import!Match(q)
    BY <2>3, ImportReadDigestKeeps, ImportCheckDigestKeeps, ImportMatchKeeps
  <2>4. CASE Import!StepFails(q)  BY <2>4, ImportFailsKeeps DEF Import!StepFails
  <2>5. CASE Import!ReadRow(q) \/ Import!WriteRow(q) \/ Import!Finish(q) \/ Import!Dies(q)
    BY <2>5, ImportReadRowKeeps, ImportWriteRowKeeps, ImportFinishKeeps, ImportDiesKeeps
  <2> QED  BY <1>2, <2>1, <2>2, <2>3, <2>4, <2>5
<1>3. CASE UNCHANGED importVars
  BY <1>3
     DEF importVars, ImportInv, ImportTypes, ImportRowsStored, ImportLocal, ImportIsPaging,
         ImportIsStoring, Import!ImportsOneEdition,
              Import!CompletedRunStored
<1> QED  BY <1>1, <1>2, <1>3 DEF Import!Next

LEMMA ImportInit == Import!Init => ImportInv
<1> SUFFICES ASSUME Import!Init PROVE ImportInv
  OBVIOUS
<1>1. importReq \in [ImportRequests -> ImportRequest] /\ \A q \in ImportRequests : importReq[q].step = "idle"
  BY ImportIdleTyped DEF Import!Init, Import!Idle
<1>2. 1 \in 1..(ImportMaxRewrites + 1) /\ {} \subseteq Import!AllItems /\ <<>> \in Seq(ImportRun)
  BY BackendAssumption
<1>3. ImportTypes /\ ImportRowsStored  BY <1>1, <1>2 DEF Import!Init, ImportTypes, ImportRowsStored
<1>4. \A q \in ImportRequests : ImportLocal(q)
  BY <1>1 DEF ImportLocal, ImportIsPaging, ImportIsStoring, ImportWork
<1>5. Import!ImportsOneEdition /\ Import!CompletedRunStored
  BY DEF Import!Init, Import!ImportsOneEdition, Import!CompletedRunStored
<1> QED  BY <1>3, <1>4, <1>5 DEF ImportInv

\* Each request has a run of its own, which is "running" as long as it stores.
ImportRunsOf(q) ==
    /\ importReq[q].left \subseteq importReq[q].pages
    /\ importReq[q].run # 0 => importReq[q].step \in ImportWork
    /\ importReq[q].step \in ImportWork => importRuns[importReq[q].run].status = "running"

ImportRunsApart ==
    \A q, r \in ImportRequests :
        q # r /\ importReq[q].step \in ImportWork /\ importReq[r].step \in ImportWork
            => importReq[q].run # importReq[r].run

ImportRunsOn ==
    /\ ImportRunsApart /\ \A q \in ImportRequests : ImportRunsOf(q)
    /\ importStarted \in 0..ImportMaxRequests

\* A request that leaves the runs of the others alone, and has one of its own.
LEMMA ImportOwnRun ==
    ASSUME ImportInv, ImportRunsOn, NEW q \in ImportRequests, NEW R,
           importReq' = [importReq EXCEPT ![q] = R],
           \A r \in ImportRequests \ {q} : importReq[r].step \in ImportWork =>
              importRuns'[importReq[r].run].status = "running",
           R.left \subseteq R.pages, R.run # 0 => R.step \in ImportWork,
           R.step \in ImportWork =>
              /\ importRuns'[R.run].status = "running"
              /\ \A r \in ImportRequests \ {q} :
                    importReq[r].step \in ImportWork => importReq[r].run # R.run,
           importStarted' \in 0..ImportMaxRequests
    PROVE  ImportRunsOn'
<1>1. importReq'[q] = R /\ \A r \in ImportRequests \ {q} : importReq'[r] = importReq[r]
  BY DEF ImportInv, ImportTypes
<1>2. ASSUME NEW r \in ImportRequests PROVE ImportRunsOf(r)'
  <2>1. CASE r = q  BY <1>1, <2>1 DEF ImportRunsOf
  <2>2. CASE r # q  BY <1>1, <2>2 DEF ImportRunsOf, ImportRunsOn
  <2> QED  BY <2>1, <2>2
<1>3. ImportRunsApart'
  <2> SUFFICES ASSUME NEW r \in ImportRequests, NEW s \in ImportRequests, r # s,
                      importReq'[r].step \in ImportWork, importReq'[s].step \in ImportWork
               PROVE  importReq'[r].run # importReq'[s].run
    BY DEF ImportRunsApart
  <2>1. CASE r = q \/ s = q  BY <1>1, <2>1
  <2>2. CASE r # q /\ s # q  BY <1>1, <2>2 DEF ImportRunsOn, ImportRunsApart
  <2> QED  BY <2>1, <2>2
<1> QED  BY <1>2, <1>3 DEF ImportRunsOn

\* A request that does not start to store, nor changes a run.
LEMMA ImportSameRun ==
    ASSUME ImportInv, ImportRunsOn, NEW q \in ImportRequests, NEW R,
           importReq' = [importReq EXCEPT ![q] = R], importRuns' = importRuns,
           R.left \subseteq R.pages,
           \/ R.run = 0 /\ R.step \notin ImportWork
           \/ /\ R.run = importReq[q].run /\ importReq[q].step \in ImportWork
              /\ R.step \in ImportWork,
           importStarted' \in 0..ImportMaxRequests
    PROVE  ImportRunsOn'
<1>1. \A r \in ImportRequests : importReq[r].step \in ImportWork =>
          importRuns'[importReq[r].run].status = "running"
  BY DEF ImportRunsOn, ImportRunsOf
<1>2. R.step \in ImportWork =>
          /\ R.run = importReq[q].run /\ importReq[q].step \in ImportWork
          /\ importRuns'[R.run].status = "running"
  BY <1>1
<1>3. \A r \in ImportRequests \ {q} :
          R.step \in ImportWork /\ importReq[r].step \in ImportWork => importReq[r].run # R.run
  BY <1>2 DEF ImportRunsOn, ImportRunsApart
<1> QED  BY <1>1, <1>2, <1>3, ImportOwnRun

\* A request that ends marks its own run and no other.
LEMMA ImportEndsRun ==
    ASSUME ImportInv, ImportRunsOn, NEW q \in ImportRequests,
           importReq' = [importReq EXCEPT ![q] = Import!Idle], NEW s,
           \/ importRuns' = importRuns
           \/ /\ importReq[q].run # 0
              /\ importRuns' = [importRuns EXCEPT ![importReq[q].run].status = s],
           importStarted' = importStarted
    PROVE  ImportRunsOn'
<1>1. /\ Import!Idle.run = 0 /\ Import!Idle.step \notin ImportWork
      /\ Import!Idle.left \subseteq Import!Idle.pages
  BY DEF Import!Idle, ImportWork
<1>2. importStarted' \in 0..ImportMaxRequests  BY DEF ImportRunsOn
<1>3. CASE importRuns' = importRuns  BY <1>1, <1>2, <1>3, ImportSameRun
<1>4. CASE /\ importReq[q].run # 0
           /\ importRuns' = [importRuns EXCEPT ![importReq[q].run].status = s]
  <2>1. importReq[q].step \in ImportWork  BY <1>4 DEF ImportRunsOn, ImportRunsOf
  <2>2. ASSUME NEW r \in ImportRequests \ {q}, importReq[r].step \in ImportWork
        PROVE  importRuns'[importReq[r].run].status = "running"
    <3>1. importReq[r].run # importReq[q].run  BY <2>1, <2>2 DEF ImportRunsOn, ImportRunsApart
    <3>2. importReq[r].run \in DOMAIN importRuns
      BY <2>2 DEF ImportInv, ImportLocal, ImportIsStoring
    <3>3. importRuns'[importReq[r].run] = importRuns[importReq[r].run]  BY <1>4, <3>1, <3>2
    <3> QED  BY <2>2, <3>3 DEF ImportRunsOn, ImportRunsOf
  <2> QED  BY <1>1, <1>2, <2>2, ImportOwnRun
<1> QED  BY <1>3, <1>4

LEMMA ImportFailedRun ==
    ASSUME ImportInv, ImportRunsOn, NEW q \in ImportRequests, Import!ImportFails(q)
    PROVE  ImportRunsOn'
BY ImportEndsRun DEF Import!ImportFails, Import!Answer

\* A page, the last one of which begins a run.
LEMMA ImportPageRun ==
    ASSUME ImportInv, ImportRunsOn, NEW q \in ImportRequests, NEW i \in Import!AllItems,
           Import!ReadPage(q, i)
    PROVE  ImportRunsOn'
<1>1. importReq[q] \in ImportRequest /\ importReq[q].step = "pages" /\ importReq[q].run = 0
  BY DEF Import!ReadPage, ImportInv, ImportTypes, ImportRunsOn, ImportRunsOf, ImportWork
<1>2. importReq[q].left \subseteq importReq[q].pages  BY DEF ImportRunsOn, ImportRunsOf
<1>3. CASE Import!ImportFails(q)  BY <1>3, ImportFailedRun
<1>4. CASE /\ importRuns' = importRuns /\ importStarted' = importStarted
           /\ \E first, pages : /\ importReq[q].pages \subseteq pages
                 /\ importReq' = [importReq EXCEPT ![q].digest = first, ![q].pages = pages]
  <2>1. PICK first, pages :
           /\ importReq[q].pages \subseteq pages
           /\ importReq' = [importReq EXCEPT ![q].digest = first, ![q].pages = pages]
    BY <1>4
  <2> DEFINE R == [importReq[q] EXCEPT !.digest = first, !.pages = pages]
  <2>2. importReq' = [importReq EXCEPT ![q] = R]  BY <2>1 DEF ImportInv, ImportTypes
  <2>3. R.step = "pages" /\ R.run = 0 /\ R.left = importReq[q].left /\ R.pages = pages
    BY <1>1 DEF ImportRequest
  <2> HIDE DEF R
  <2>4. R.left \subseteq R.pages /\ R.step \notin ImportWork
    BY <1>2, <2>1, <2>3 DEF ImportWork
  <2>5. importStarted' \in 0..ImportMaxRequests  BY <1>4 DEF ImportRunsOn
  <2> QED  BY <1>4, <2>2, <2>3, <2>4, <2>5, ImportSameRun
<1>5. CASE /\ importStarted' = importStarted
           /\ \E first, pages, run :
                 /\ run.status = "running" /\ importRuns' = Append(importRuns, run)
                 /\ importReq' = [importReq EXCEPT ![q].step = "compare", ![q].digest = first,
                       ![q].pages = pages, ![q].left = pages, ![q].run = Len(importRuns) + 1]
  <2>1. PICK first, pages, run :
                 /\ run.status = "running" /\ importRuns' = Append(importRuns, run)
                 /\ importReq' = [importReq EXCEPT ![q].step = "compare", ![q].digest = first,
                       ![q].pages = pages, ![q].left = pages, ![q].run = Len(importRuns) + 1]
    BY <1>5
  <2> DEFINE R == [importReq[q] EXCEPT !.step = "compare", !.digest = first, !.pages = pages,
                                       !.left = pages, !.run = Len(importRuns) + 1]
  <2>2. importReq' = [importReq EXCEPT ![q] = R]  BY <2>1 DEF ImportInv, ImportTypes
  <2>3. R.step = "compare" /\ R.run = Len(importRuns) + 1 /\ R.left = pages /\ R.pages = pages
    BY <1>1 DEF ImportRequest
  <2> HIDE DEF R
  <2>4. importRuns \in Seq(ImportRun) /\ Len(importRuns) \in Nat
    BY DEF ImportInv, ImportTypes
  <2>5. importRuns'[Len(importRuns) + 1] = run  BY <2>1, <2>4
  <2>6. \A k \in DOMAIN importRuns : importRuns'[k] = importRuns[k] /\ k # Len(importRuns) + 1
    BY <2>1, <2>4
  <2>7. ASSUME NEW r \in ImportRequests \ {q}, importReq[r].step \in ImportWork
        PROVE  /\ importRuns'[importReq[r].run].status = "running"
               /\ importReq[r].run # R.run
    <3>1. importReq[r].run \in DOMAIN importRuns
      BY <2>7 DEF ImportInv, ImportLocal, ImportIsStoring
    <3> QED  BY <2>3, <2>6, <2>7, <3>1 DEF ImportRunsOn, ImportRunsOf
  <2>8. importStarted' \in 0..ImportMaxRequests /\ R.step \in ImportWork
    BY <1>5, <2>3 DEF ImportRunsOn, ImportWork
  <2>9. importRuns'[R.run].status = "running"  BY <2>1, <2>3, <2>5
  <2> QED  BY <2>2, <2>3, <2>7, <2>8, <2>9, ImportOwnRun
<1> QED
  <2> DEFINE first == IF importReq[q].digest = 0 THEN importEdition[importReq[q].export]
                      ELSE importReq[q].digest
             pages == importReq[q].pages \cup {i}
             run   == [export |-> importReq[q].export, edition |-> first, items |-> pages,
                       status |-> "running"]
  <2>1. run.status = "running" /\ importReq[q].pages \subseteq pages  OBVIOUS
  <2>2. \/ Import!ImportFails(q)
        \/ /\ importRuns' = importRuns /\ importStarted' = importStarted
           /\ importReq' = [importReq EXCEPT ![q].digest = first, ![q].pages = pages]
        \/ /\ importRuns' = Append(importRuns, run) /\ importStarted' = importStarted
           /\ importReq' = [importReq EXCEPT ![q].step = "compare", ![q].digest = first,
                       ![q].pages = pages, ![q].left = pages, ![q].run = Len(importRuns) + 1]
    BY DEF Import!ReadPage
  <2> HIDE DEF first, pages, run
  <2> QED  BY <1>3, <1>4, <1>5, <2>1, <2>2

\* A step in which a request stays at its run, and in which its pages stay.
LEMMA ImportStayRun ==
    ASSUME ImportInv, ImportRunsOn, NEW q \in ImportRequests,
           \/ Import!ReadDigest(q) \/ Import!ReadRow(q)
           \/ \E i \in Import!AllItems : Import!Compare(q, i)
    PROVE  ImportRunsOn'
<1>1. importReq[q] \in ImportRequest /\ ImportRunsOf(q)
  BY DEF ImportInv, ImportTypes, ImportRunsOn
<1>2. importRuns' = importRuns /\ importStarted' \in 0..ImportMaxRequests
  BY DEF Import!ReadDigest, Import!ReadRow, Import!Compare, ImportRunsOn
<1>3. CASE Import!ReadDigest(q)
  <2> DEFINE R == [importReq[q] EXCEPT !.step = "check",
                                       !.digest = importEdition[importReq[q].export]]
  <2>1. importReq' = [importReq EXCEPT ![q] = R] /\ importReq[q].step = "digest"
    BY <1>3 DEF Import!ReadDigest, ImportInv, ImportTypes
  <2>2. /\ R.step = "check" /\ R.run = importReq[q].run /\ R.left = importReq[q].left
        /\ R.pages = importReq[q].pages
    BY <1>1 DEF ImportRequest
  <2> HIDE DEF R
  <2>3. R.run = 0 /\ R.step \notin ImportWork /\ R.left \subseteq R.pages
    BY <1>1, <2>1, <2>2 DEF ImportRunsOf, ImportWork
  <2> QED  BY <1>2, <2>1, <2>3, ImportSameRun
<1>4. CASE Import!ReadRow(q)
  <2> DEFINE row == importRaw[importReq[q].batch[1]]
             to  == IF Import!IsUnchanged(row, importReq[q].batch) THEN "compare" ELSE "write"
             R   == [importReq[q] EXCEPT !.row = row, !.step = to]
  <2>1. importReq' = [importReq EXCEPT ![q] = R] /\ importReq[q].step = "read"
    BY <1>4 DEF Import!ReadRow, ImportInv, ImportTypes
  <2>2. to \in ImportWork  BY DEF ImportWork
  <2> HIDE DEF row, to
  <2>3. /\ R.step = to /\ R.run = importReq[q].run /\ R.left = importReq[q].left
        /\ R.pages = importReq[q].pages
    BY <1>1 DEF ImportRequest
  <2> HIDE DEF R
  <2>4. R.left \subseteq R.pages /\ R.step \in ImportWork /\ importReq[q].step \in ImportWork
    BY <1>1, <2>1, <2>2, <2>3 DEF ImportRunsOf, ImportWork
  <2> QED  BY <1>2, <2>1, <2>3, <2>4, ImportSameRun
<1>5. CASE \E i \in Import!AllItems : Import!Compare(q, i)
  <2>1. PICK i \in Import!AllItems : Import!Compare(q, i)  BY <1>5
  <2> DEFINE same == Import!IsUnchanged(importRaw[i[1]], i)
             b    == IF same THEN <<>> ELSE i
             to   == IF same THEN "compare" ELSE "read"
             R    == [importReq[q] EXCEPT !.left = @ \ {i}, !.batch = b, !.step = to]
  <2>2. importReq' = [importReq EXCEPT ![q] = R] /\ importReq[q].step = "compare"
    BY <2>1 DEF Import!Compare, ImportInv, ImportTypes
  <2>3. to \in ImportWork  BY DEF ImportWork
  <2> HIDE DEF same, b, to
  <2>4. /\ R.step = to /\ R.run = importReq[q].run /\ R.left = importReq[q].left \ {i}
        /\ R.pages = importReq[q].pages
    BY <1>1 DEF ImportRequest
  <2> HIDE DEF R
  <2>5. R.left \subseteq R.pages /\ R.step \in ImportWork /\ importReq[q].step \in ImportWork
    BY <1>1, <2>2, <2>3, <2>4 DEF ImportRunsOf, ImportWork
  <2> QED  BY <1>2, <2>2, <2>4, <2>5, ImportSameRun
<1> QED  BY <1>3, <1>4, <1>5

\* A step that ends a request, or goes on as it was.
LEMMA ImportTurnRun ==
    ASSUME ImportInv, ImportRunsOn, NEW q \in ImportRequests,
           Import!CheckDigest(q) \/ Import!Match(q) \/ Import!WriteRow(q)
    PROVE  ImportRunsOn'
<1>1. importReq[q] \in ImportRequest /\ ImportRunsOf(q)
  BY DEF ImportInv, ImportTypes, ImportRunsOn
<1>2. CASE Import!ImportFails(q)  BY <1>2, ImportFailedRun
<1>3. CASE importRuns' = importRuns /\ importStarted' = importStarted
           /\ importReq' = [importReq EXCEPT ![q] = Import!Idle]
  BY <1>3, ImportEndsRun
<1>4. CASE Import!CheckDigest(q) /\ ~Import!ImportFails(q)
  <2> DEFINE R == [importReq[q] EXCEPT !.step = "match", !.digest = 0]
  <2>1. /\ importReq' = [importReq EXCEPT ![q] = R] /\ importReq[q].step = "check"
        /\ importRuns' = importRuns /\ importStarted' = importStarted
    BY <1>4 DEF Import!CheckDigest, ImportInv, ImportTypes
  <2>2. /\ R.step = "match" /\ R.run = importReq[q].run /\ R.left = importReq[q].left
        /\ R.pages = importReq[q].pages
    BY <1>1 DEF ImportRequest
  <2> HIDE DEF R
  <2>3. R.run = 0 /\ R.step \notin ImportWork /\ R.left \subseteq R.pages
    BY <1>1, <2>1, <2>2 DEF ImportRunsOf, ImportWork
  <2>4. importStarted' \in 0..ImportMaxRequests  BY <2>1 DEF ImportRunsOn
  <2> QED  BY <2>1, <2>3, <2>4, ImportSameRun
<1>5. CASE Import!Match(q) /\ ~Import!Matches(importReq[q].export)
  <2> DEFINE R == [importReq[q] EXCEPT !.step = "pages"]
  <2>1. /\ importReq' = [importReq EXCEPT ![q] = R] /\ importReq[q].step = "match"
        /\ importRuns' = importRuns /\ importStarted' = importStarted
    BY <1>5 DEF Import!Match, ImportInv, ImportTypes
  <2>2. /\ R.step = "pages" /\ R.run = importReq[q].run /\ R.left = importReq[q].left
        /\ R.pages = importReq[q].pages
    BY <1>1 DEF ImportRequest
  <2> HIDE DEF R
  <2>3. R.run = 0 /\ R.step \notin ImportWork /\ R.left \subseteq R.pages
    BY <1>1, <2>1, <2>2 DEF ImportRunsOf, ImportWork
  <2>4. importStarted' \in 0..ImportMaxRequests  BY <2>1 DEF ImportRunsOn
  <2> QED  BY <2>1, <2>3, <2>4, ImportSameRun
<1>6. CASE Import!Match(q) /\ Import!Matches(importReq[q].export)
  BY <1>3, <1>6 DEF Import!Match, Import!Answer
<1>7. CASE Import!WriteRow(q) /\ ~Import!ImportFails(q)
  <2> DEFINE R == [importReq[q] EXCEPT !.step = "compare", !.batch = <<>>, !.row = 0]
  <2>1. /\ importReq' = [importReq EXCEPT ![q] = R] /\ importReq[q].step = "write"
        /\ importRuns' = importRuns /\ importStarted' = importStarted
    BY <1>7 DEF Import!WriteRow, ImportInv, ImportTypes
  <2>2. /\ R.step = "compare" /\ R.run = importReq[q].run /\ R.left = importReq[q].left
        /\ R.pages = importReq[q].pages
    BY <1>1 DEF ImportRequest
  <2> HIDE DEF R
  <2>3. R.left \subseteq R.pages /\ R.step \in ImportWork /\ importReq[q].step \in ImportWork
    BY <1>1, <2>1, <2>2 DEF ImportRunsOf, ImportWork
  <2>4. importStarted' \in 0..ImportMaxRequests  BY <2>1 DEF ImportRunsOn
  <2> QED  BY <2>1, <2>2, <2>3, <2>4, ImportSameRun
<1> QED  BY <1>2, <1>4, <1>5, <1>6, <1>7

\* Every step leaves each request with a run of its own.
LEMMA ImportRunsStep ==
    ImportInv /\ ImportRunsOn /\ (Import!Next \/ UNCHANGED importVars) => ImportRunsOn'
<1> SUFFICES ASSUME ImportInv, ImportRunsOn, Import!Next \/ UNCHANGED importVars
             PROVE  ImportRunsOn'
  OBVIOUS
<1>1. ASSUME UNCHANGED <<importReq, importRuns, importStarted>> PROVE ImportRunsOn'
  BY <1>1 DEF ImportRunsOn, ImportRunsApart, ImportRunsOf
<1>2. CASE (\E x \in ImportExports : Import!Rewrite(x)) \/ UNCHANGED importVars
  BY <1>1, <1>2 DEF Import!Rewrite, importVars
<1>3. ASSUME NEW q \in ImportRequests, NEW x \in ImportExports, NEW i \in Import!AllItems,
             Import!Decide(q, x, i)
      PROVE  ImportRunsOn'
  <2> DEFINE R == [Import!Idle EXCEPT !.step = "digest", !.export = x, !.item = i]
  <2>1. importReq' = [importReq EXCEPT ![q] = R] /\ importRuns' = importRuns
    BY <1>3 DEF Import!Decide
  <2>2. R.run = 0 /\ R.step = "digest" /\ R.left = {} /\ R.pages = {}  BY DEF Import!Idle
  <2> HIDE DEF R
  <2>3. R.step \notin ImportWork  BY <2>2 DEF ImportWork
  <2>4. importStarted' \in 0..ImportMaxRequests  BY <1>3, Numbers DEF Import!Decide, ImportRunsOn
  <2> QED  BY <2>1, <2>2, <2>3, <2>4, ImportSameRun
<1>4. ASSUME NEW q \in ImportRequests, Import!StepFails(q) PROVE ImportRunsOn'
  BY <1>4, ImportFailedRun DEF Import!StepFails
<1>5. ASSUME NEW q \in ImportRequests, Import!Dies(q) PROVE ImportRunsOn'
  BY <1>5, ImportEndsRun DEF Import!Dies
<1>6. ASSUME NEW q \in ImportRequests, Import!Finish(q) PROVE ImportRunsOn'
  <2>1. importReq[q].run # 0
    <3>1. importReq[q].run \in DOMAIN importRuns
      BY <1>6 DEF Import!Finish, ImportInv, ImportLocal, ImportIsStoring, ImportWork
    <3>2. importRuns \in Seq(ImportRun)  BY DEF ImportInv, ImportTypes
    <3> QED  BY <3>1, <3>2
  <2> QED  BY <1>6, <2>1, ImportEndsRun DEF Import!Finish, Import!Answer
<1> QED
  BY <1>2, <1>3, <1>4, <1>5, <1>6, ImportPageRun, ImportStayRun, ImportTurnRun
     DEF Import!Next

LEMMA ImportRunsInit == Import!Init => ImportRunsOn
BY Numbers DEF Import!Init, Import!Idle, ImportRunsOn, ImportRunsApart, ImportRunsOf, ImportWork

\* Both say that every variable has its type.
LEMMA ImportTyped == ImportInv /\ ImportRunsOn /\ faults \in 0..MaxFaults => Import!TypeOK
<1> SUFFICES ASSUME ImportInv, ImportRunsOn, faults \in 0..MaxFaults PROVE Import!TypeOK
  OBVIOUS
<1>1. \A k \in DOMAIN importRuns : importRuns[k] \in ImportRun  BY DEF ImportInv, ImportTypes
<1>2. \A k \in DOMAIN importRuns : /\ importRuns[k].export \in ImportExports
                                   /\ importRuns[k].status \in {"running", "completed", "failed"}
  BY <1>1 DEF ImportRun
<1>3. ASSUME NEW q \in ImportRequests
      PROVE  /\ importReq[q].step \in ImportSteps /\ importReq[q].left \subseteq importReq[q].pages
             /\ importReq[q].pages \subseteq Import!AllItems
             /\ importReq[q].step \in ImportWork => importRuns[importReq[q].run].status = "running"
  BY DEF ImportInv, ImportTypes, ImportRequest, ImportRunsOn, ImportRunsOf
<1> QED
  BY <1>2, <1>3 DEF Import!TypeOK, ImportInv, ImportTypes, ImportRowsStored, ImportRunsOn,
                    ImportSteps, ImportWork

-----------------------------------------------------------------------------
(* The pulls of the sensor's log.                                          *)

SensorObservation == [time : 1..SensorMaxTime, ip : SensorAddresses]
SensorAsked == [step : {"idle", "store", "save"}, batch : SUBSET Nat, to : Nat]

\* The log is in the order of its times.
SensorLogGrows ==
    /\ sensorLog \in Seq(SensorObservation)
    /\ \A a, b \in Sessions!Alerts : a < b => sensorLog[a].time <= sensorLog[b].time

\* A session begins with an alert, and has stored ones of its address from it on.
SensorRowsBegin ==
    \A i \in DOMAIN sensorRows :
        /\ \E s \in Sessions!Alerts : i = Sessions!Id(s)
        /\ \A p \in sensorRows[i] :
              p \in sensorRaw /\ sensorLog[p].ip = i[1] /\ i[2] <= sensorLog[p].time

\* An alert is in a session, or its session was stored over.
SensorKept(p) == Sessions!Overtaken(p) \/ \E i \in DOMAIN sensorRows : p \in sensorRows[i]

\* A part of the log without a gap.
SensorPart(batch) ==
    /\ batch \subseteq Sessions!Alerts
    /\ \A p \in Sessions!Alerts \ batch : (\A b \in batch : p < b) \/ (\A b \in batch : b < p)

\* A pull brings what is missing of what its cursor will pass, and stores it first.
SensorPullsOn(q) ==
    LET P == sensorPull[q] IN
    /\ P.to \in 0..Len(sensorLog) /\ SensorPart(P.batch)
    /\ P.step # "idle" => 1..P.to \subseteq sensorRaw \cup P.batch
    /\ P.step = "save" => P.batch = {}

SensorStored ==
    /\ sensorRaw \subseteq Sessions!Alerts /\ SensorRowsBegin
    /\ sensorLate \subseteq DOMAIN sensorRows
    /\ \A p \in sensorRaw : SensorKept(p)

SensorInv ==
    /\ SensorLogGrows /\ Len(sensorLog) <= SensorMaxLog /\ sensorWhole \in BOOLEAN
    /\ sensorCursor \in 0..Len(sensorLog) /\ 1..sensorCursor \subseteq sensorRaw
    /\ SensorStored
    /\ sensorPull \in [SensorPullers -> SensorAsked]
    /\ \A q \in SensorPullers : SensorPullsOn(q)

LEMMA SensorLogTyped ==
    ASSUME SensorLogGrows
    PROVE  /\ Len(sensorLog) \in Nat /\ Sessions!Alerts = 1..Len(sensorLog)
           /\ \A p \in Sessions!Alerts : /\ p \in Nat /\ sensorLog[p] \in SensorObservation
                                         /\ sensorLog[p].time \in 1..SensorMaxTime
                                         /\ sensorLog[p].time \in Nat
                                         /\ Sessions!Id(p) \in Sessions!Observations
                                         /\ Sessions!Id(p)[1] = sensorLog[p].ip
                                         /\ Sessions!Id(p)[2] = sensorLog[p].time
<1>1. Len(sensorLog) \in Nat /\ Sessions!Alerts = 1..Len(sensorLog)
  BY DEF SensorLogGrows, Sessions!Alerts
<1>2. ASSUME NEW p \in Sessions!Alerts PROVE p \in Nat /\ sensorLog[p] \in SensorObservation
  BY <1>1 DEF SensorLogGrows
<1>3. ASSUME NEW p \in Sessions!Alerts
      PROVE  /\ sensorLog[p].time \in 1..SensorMaxTime /\ sensorLog[p].time \in Nat
             /\ sensorLog[p].ip \in SensorAddresses
  BY <1>2, Numbers DEF SensorObservation
<1> QED  BY <1>1, <1>2, <1>3 DEF Sessions!Id, Sessions!Observations

\* Numbers that have one have a least one, and, below a bound, a greatest one.
LEMMA SensorLeastOf ==
    ASSUME NEW S, S \subseteq Nat, S # {}
    PROVE  \E x \in S : \A y \in S : x <= y
<1>1. PICK x \in S : \A y \in S : ~(<<y, x>> \in OpToRel(<, Nat))
  BY NatLessThanWellFounded, WFMin
<1>2. \A y \in S : ~(y < x)
  <2> SUFFICES ASSUME NEW y \in S, y < x PROVE FALSE
    OBVIOUS
  <2>1. <<y, x>> \in OpToRel(<, Nat)  BY DEF OpToRel
  <2> QED  BY <1>1, <2>1
<1> QED  BY <1>2

LEMMA SensorGreatestOf ==
    ASSUME NEW n \in Nat, NEW S, S \subseteq 0..n, S # {}
    PROVE  \E x \in S : \A y \in S : y <= x
<1> DEFINE T == {n - x : x \in S}
<1>1. \A x \in S : n - x \in Nat /\ n - x \in T  OBVIOUS
<1>6. T \subseteq Nat /\ T # {}  BY <1>1
<1>2. PICK t \in T : \A u \in T : t <= u  BY <1>6, SensorLeastOf
<1>3. PICK x \in S : t = n - x  OBVIOUS
<1>4. \A y \in S : n - y \in T  OBVIOUS
<1> HIDE DEF T
<1>5. \A y \in S : n - x <= n - y  BY <1>2, <1>3, <1>4
<1> QED  BY <1>5

\* Every alert of a batch is in a session that begins in the batch.
LEMMA SensorStartsCover ==
    ASSUME SensorLogGrows, NEW batch \in SUBSET Sessions!Alerts, NEW p \in batch
    PROVE  \E s \in Sessions!Starts(batch) : p \in Sessions!SessionOf(s, batch)
<1>1. Len(sensorLog) \in Nat /\ Sessions!Alerts = 1..Len(sensorLog)
  BY DEF SensorLogGrows, Sessions!Alerts
<1> DEFINE M == {b \in batch : b <= p /\ sensorLog[b].ip = sensorLog[p].ip}
           S == {s \in Sessions!Starts(batch) : s <= p /\ sensorLog[s].ip = sensorLog[p].ip}
<1>2. p \in M /\ M \subseteq Nat
  <2>1. \A b \in batch : b \in Nat  BY <1>1
  <2> QED  BY <2>1
<1>3. PICK m \in M : \A b \in M : m <= b
  <2>1. M # {}  BY <1>2
  <2> QED  BY <1>2, <2>1, SensorLeastOf
<1>4. m \in Sessions!Starts(batch)
  <2> SUFFICES ASSUME NEW b \in batch, b < m, sensorLog[b].ip = sensorLog[m].ip PROVE FALSE
    BY DEF Sessions!Starts
  <2>1. b \in M  BY <1>1
  <2> QED  BY <1>1, <1>2, <1>3, <2>1
<1>5. S # {} /\ S \subseteq 0..Len(sensorLog)
  <2>1. m \in S  BY <1>4
  <2>2. S \subseteq batch  BY DEF Sessions!Starts
  <2>3. batch \subseteq 0..Len(sensorLog)  BY <1>1
  <2> HIDE DEF S
  <2> QED  BY <2>1, <2>2, <2>3
<1>6. PICK s \in S : \A t \in S : t <= s  BY <1>1, <1>5, SensorGreatestOf
<1>7. \A t \in Sessions!Starts(batch) : sensorLog[t].ip = sensorLog[s].ip /\ t > s => p < t
  <2> SUFFICES ASSUME NEW t \in Sessions!Starts(batch), sensorLog[t].ip = sensorLog[s].ip, t > s,
                      ~(p < t)
               PROVE  FALSE
    OBVIOUS
  <2>1. t \in 1..Len(sensorLog) /\ p \in 1..Len(sensorLog)  BY <1>1 DEF Sessions!Starts
  <2>2. t \in S  BY <2>1
  <2> QED  BY <1>1, <1>5, <1>6, <2>1, <2>2
<1>8. p \in Sessions!SessionOf(s, batch)  BY <1>1, <1>7 DEF Sessions!SessionOf, Sessions!Starts
<1> QED  BY <1>8

\* In a batch an id names one session: what has the time of an earlier alert of
\* its address is in the session of that one.
LEMMA SensorIdsApart ==
    ASSUME SensorLogGrows, NEW batch \in SUBSET Sessions!Alerts,
           NEW p \in Sessions!Starts(batch), NEW r \in Sessions!Starts(batch),
           Sessions!Id(p) = Sessions!Id(r)
    PROVE  p = r
<1>1. p \in batch /\ r \in batch  BY DEF Sessions!Starts
<1>2. p \in Nat /\ r \in Nat /\ sensorLog[p].time \in Nat
  BY <1>1, SensorLogTyped
<1>3. sensorLog[p].ip = sensorLog[r].ip /\ sensorLog[p].time = sensorLog[r].time
  BY DEF Sessions!Id
<1>4. p < r => sensorLog[r].time - sensorLog[p].time > SensorIdle  BY <1>1, <1>3 DEF Sessions!Starts
<1>5. r < p => sensorLog[p].time - sensorLog[r].time > SensorIdle  BY <1>1, <1>3 DEF Sessions!Starts
<1>6. sensorLog[p].time - sensorLog[r].time = 0 /\ sensorLog[r].time - sensorLog[p].time = 0
  BY <1>2, <1>3
<1> QED  BY <1>2, <1>4, <1>5, <1>6, Numbers

\* What the rows of a batch are.
LEMMA SensorRowsOf ==
    ASSUME SensorLogGrows, NEW batch \in SUBSET Sessions!Alerts
    PROVE  LET new == Sessions!SessionRows(batch)
           IN  /\ DOMAIN new = {Sessions!Id(p) : p \in Sessions!Starts(batch)}
               /\ \A p \in Sessions!Starts(batch) : new[Sessions!Id(p)] = Sessions!SessionOf(p, batch)
<1> DEFINE new == Sessions!SessionRows(batch)
<1>1. DOMAIN new = {Sessions!Id(p) : p \in Sessions!Starts(batch)}  BY DEF Sessions!SessionRows
<1>2. ASSUME NEW p \in Sessions!Starts(batch)
      PROVE  new[Sessions!Id(p)] = Sessions!SessionOf(p, batch)
  <2>1. Sessions!Id(p) \in {Sessions!Id(r) : r \in Sessions!Starts(batch)}  OBVIOUS
  <2>2. new[Sessions!Id(p)] = Sessions!SessionOf(CHOOSE r \in Sessions!Starts(batch) : Sessions!Id(r) = Sessions!Id(p), batch)
    BY <2>1 DEF Sessions!SessionRows
  <2>3. (CHOOSE r \in Sessions!Starts(batch) : Sessions!Id(r) = Sessions!Id(p)) = p
    BY SensorIdsApart
  <2> QED  BY <2>2, <2>3
<1> QED  BY <1>1, <1>2

\* A session of a batch has alerts of the batch, of its address and from its
\* first on.
LEMMA SensorSessionHas ==
    ASSUME SensorLogGrows, NEW batch \in SUBSET Sessions!Alerts, NEW s \in Sessions!Starts(batch),
           NEW p \in Sessions!SessionOf(s, batch)
    PROVE  /\ s \in batch /\ p \in batch /\ sensorLog[p].ip = sensorLog[s].ip
           /\ sensorLog[s].time <= sensorLog[p].time
<1>1. s \in batch /\ p \in batch /\ p >= s /\ sensorLog[p].ip = sensorLog[s].ip
  BY DEF Sessions!Starts, Sessions!SessionOf
<1>2. s \in Nat /\ p \in Nat /\ sensorLog[s].time \in Nat  BY <1>1, SensorLogTyped
<1>3. s = p \/ s < p  BY <1>1, <1>2
<1> QED  BY <1>1, <1>2, <1>3 DEF SensorLogGrows

\* A part of the log is stored: its alerts are in sessions, and what was in one
\* is in one, or its session was stored over.
LEMMA SensorStoreKeeps ==
    ASSUME SensorInv, NEW batch, SensorPart(batch), Sessions!Store(batch), sensorLog' = sensorLog
    PROVE  SensorStored' /\ sensorRaw' = sensorRaw \cup batch
<1> DEFINE new == Sessions!SessionRows(batch)
<1>1. SensorLogGrows /\ batch \in SUBSET Sessions!Alerts  BY DEF SensorInv, SensorPart
<1>2. /\ DOMAIN new = {Sessions!Id(p) : p \in Sessions!Starts(batch)}
      /\ \A p \in Sessions!Starts(batch) : new[Sessions!Id(p)] = Sessions!SessionOf(p, batch)
  BY <1>1, SensorRowsOf
<1>3. /\ sensorRaw' = sensorRaw \cup batch
      /\ DOMAIN sensorRows' = DOMAIN new \cup DOMAIN sensorRows
      /\ \A i \in DOMAIN sensorRows' : sensorRows'[i] = IF i \in DOMAIN new THEN new[i] ELSE sensorRows[i]
      /\ sensorLate' = sensorLate \cup (IF \E r \in sensorRaw : \A b \in batch : b < r THEN DOMAIN new ELSE {})
  BY DEF Sessions!Store
<1>4. \A s \in Sessions!Starts(batch) : s \in batch  BY DEF Sessions!Starts
<1> HIDE DEF new
<1>5. Sessions!Alerts' = Sessions!Alerts /\ \A p : Sessions!Id(p)' = Sessions!Id(p)
  BY DEF Sessions!Alerts, Sessions!Id
<1>6. ASSUME NEW i \in DOMAIN sensorRows'
      PROVE  /\ \E s \in Sessions!Alerts : i = Sessions!Id(s)
             /\ \A p \in sensorRows'[i] :
                   p \in sensorRaw' /\ sensorLog[p].ip = i[1] /\ i[2] <= sensorLog[p].time
  <2>1. CASE i \in DOMAIN new
    <3>1. PICK s \in Sessions!Starts(batch) : i = Sessions!Id(s)  BY <1>2, <2>1
    <3>2. sensorRows'[i] = Sessions!SessionOf(s, batch)  BY <1>2, <1>3, <2>1, <3>1
    <3>3. s \in Sessions!Alerts /\ i[1] = sensorLog[s].ip /\ i[2] = sensorLog[s].time
      BY <1>1, <1>4, <3>1, SensorLogTyped
    <3>4. \A p \in Sessions!SessionOf(s, batch) :
              /\ p \in batch /\ sensorLog[p].ip = sensorLog[s].ip
              /\ sensorLog[s].time <= sensorLog[p].time
      BY <1>1, SensorSessionHas
    <3> QED  BY <1>3, <3>1, <3>2, <3>3, <3>4
  <2>2. CASE i \notin DOMAIN new
    <3>1. i \in DOMAIN sensorRows /\ sensorRows'[i] = sensorRows[i]  BY <1>3, <2>2
    <3> QED  BY <1>3, <3>1 DEF SensorInv, SensorStored, SensorRowsBegin
  <2> QED  BY <2>1, <2>2
<1>7. SensorRowsBegin'  BY <1>5, <1>6 DEF SensorRowsBegin
<1>8. ASSUME NEW p \in batch PROVE \E i \in DOMAIN sensorRows' : p \in sensorRows'[i]
  <2>1. PICK s \in Sessions!Starts(batch) : p \in Sessions!SessionOf(s, batch)
    BY <1>1, SensorStartsCover
  <2>2. Sessions!Id(s) \in DOMAIN new /\ p \in new[Sessions!Id(s)]  BY <1>2, <2>1
  <2> QED  BY <1>3, <2>2
<1>9. ASSUME NEW p \in sensorRaw, p \notin batch PROVE SensorKept(p)'
  <2>0. p \in Sessions!Alerts /\ (Sessions!Overtaken(p) \/ \E i \in DOMAIN sensorRows : p \in sensorRows[i])
    BY DEF SensorInv, SensorStored, SensorKept
  <2>1. CASE Sessions!Overtaken(p)
    BY <1>3, <2>1 DEF SensorKept, Sessions!Overtaken, Sessions!Alerts
  <2>2. ASSUME NEW i \in DOMAIN sensorRows, p \in sensorRows[i], i \notin DOMAIN new
        PROVE  SensorKept(p)'
    BY <1>3, <2>2 DEF SensorKept
  <2>3. ASSUME NEW i \in DOMAIN sensorRows, p \in sensorRows[i], i \in DOMAIN new
        PROVE  Sessions!Overtaken(p)'
    <3>1. PICK s \in Sessions!Starts(batch) : i = Sessions!Id(s)  BY <1>2, <2>3
    <3>2. sensorLog[p].ip = i[1] /\ i[2] <= sensorLog[p].time
      BY <2>3 DEF SensorInv, SensorStored, SensorRowsBegin
    <3>3. s \in Sessions!Alerts /\ i[1] = sensorLog[s].ip /\ i[2] = sensorLog[s].time
      BY <1>1, <1>4, <3>1, SensorLogTyped
    <3>4. CASE \A b \in batch : b < p
      <4>1. i \in sensorLate'  BY <1>3, <2>3, <3>4
      <4> QED  BY <3>2, <4>1 DEF Sessions!Overtaken
    <3>5. CASE \A b \in batch : p < b
      <4>1. p < s /\ sensorLog[p].time <= sensorLog[s].time
        BY <1>1, <1>4, <2>0, <3>3, <3>5 DEF SensorLogGrows
      <4>2. /\ sensorLog[p] \in SensorObservation /\ sensorLog[s] \in SensorObservation
            /\ sensorLog[p].time \in Nat /\ sensorLog[s].time \in Nat /\ p \in Nat /\ s \in Nat
        BY <1>1, <2>0, <3>3, SensorLogTyped
      <4>3. sensorLog[p].time = sensorLog[s].time /\ sensorLog[p].ip = sensorLog[s].ip
        BY <3>2, <3>3, <4>1, <4>2
      <4>4. sensorLog[s] = sensorLog[p]  BY <4>2, <4>3 DEF SensorObservation
      <4>5. s > p  BY <4>1, <4>2
      <4> QED  BY <3>3, <4>4, <4>5 DEF Sessions!Overtaken, Sessions!Alerts
    <3> QED  BY <1>9, <2>0, <3>4, <3>5 DEF SensorPart
  <2> QED  BY <2>0, <2>1, <2>2, <2>3 DEF SensorKept
<1>10. \A p \in sensorRaw' : SensorKept(p)'  BY <1>3, <1>8, <1>9 DEF SensorKept
<1>11. sensorLate' \subseteq DOMAIN sensorRows'  BY <1>3 DEF SensorInv, SensorStored
<1>12. sensorRaw' \subseteq Sessions!Alerts'  BY <1>1, <1>3, <1>5 DEF SensorInv, SensorStored
<1> QED  BY <1>3, <1>7, <1>10, <1>11, <1>12 DEF SensorStored

LEMMA SensorAlertKeeps ==
    ASSUME SensorInv, NEW t \in 1..SensorMaxTime, NEW a \in SensorAddresses, Sessions!Alert(t, a)
    PROVE  SensorInv'
<1> DEFINE o == [time |-> t, ip |-> a]
<1>1. /\ sensorLog' = Append(sensorLog, o) /\ sensorCursor' = sensorCursor
      /\ sensorRows' = sensorRows /\ sensorPull' = sensorPull /\ sensorRaw' = sensorRaw
      /\ sensorLate' = sensorLate /\ sensorWhole' = sensorWhole
      /\ t >= Sessions!Newest /\ Len(sensorLog) < SensorMaxLog
  BY DEF Sessions!Alert
<1>2. o \in SensorObservation /\ o.time = t  BY DEF SensorObservation
<1>3. SensorLogGrows /\ sensorLog \in Seq(SensorObservation) /\ Len(sensorLog) \in Nat
  BY DEF SensorInv, SensorLogGrows
<1> HIDE DEF o
<1>4. /\ sensorLog' \in Seq(SensorObservation) /\ Len(sensorLog') = Len(sensorLog) + 1
      /\ \A b \in 1..Len(sensorLog) : sensorLog'[b] = sensorLog[b]
      /\ sensorLog'[Len(sensorLog) + 1] = o
  BY <1>1, <1>2, <1>3
<1>5. ASSUME NEW b \in Sessions!Alerts PROVE sensorLog[b].time <= t
  <2>1. b \in 1..Len(sensorLog) /\ Len(sensorLog) \in Sessions!Alerts
    BY <1>3 DEF Sessions!Alerts
  <2>2. sensorLog[b].time \in Nat /\ sensorLog[Len(sensorLog)].time \in Nat
    BY <1>3, <2>1, SensorLogTyped
  <2>3. sensorLog # <<>>  BY <1>3, <2>1
  <2>4. t >= sensorLog[Len(sensorLog)].time /\ t \in Nat
    BY <1>1, <2>3, Numbers DEF Sessions!Newest
  <2>5. b = Len(sensorLog) \/ sensorLog[b].time <= sensorLog[Len(sensorLog)].time
    BY <1>3, <2>1 DEF SensorLogGrows
  <2> QED  BY <2>2, <2>4, <2>5
<1>6. SensorLogGrows'
  <2> SUFFICES ASSUME NEW b \in 1..Len(sensorLog'), NEW c \in 1..Len(sensorLog'), b < c
               PROVE  sensorLog'[b].time <= sensorLog'[c].time
    BY <1>4 DEF SensorLogGrows, Sessions!Alerts
  <2>1. b \in 1..Len(sensorLog)  BY <1>3, <1>4
  <2>2. CASE c = Len(sensorLog) + 1  BY <1>2, <1>4, <1>5, <2>1, <2>2 DEF Sessions!Alerts
  <2>3. CASE c # Len(sensorLog) + 1
    <3>1. c \in 1..Len(sensorLog)  BY <1>3, <1>4, <2>3
    <3> QED  BY <1>3, <1>4, <2>1, <3>1 DEF SensorLogGrows, Sessions!Alerts
  <2> QED  BY <2>2, <2>3
<1>7. /\ \A p \in Sessions!Alerts : /\ p \in Sessions!Alerts' /\ Sessions!Id(p)' = Sessions!Id(p)
                                    /\ sensorLog'[p] = sensorLog[p] /\ p \in 1..Len(sensorLog)
      /\ \A p \in Sessions!Alerts' : p \in Sessions!Alerts \/ p = Len(sensorLog) + 1
  BY <1>3, <1>4 DEF Sessions!Alerts, Sessions!Id
<1>8. SensorStored'
  <2>1. sensorRaw \subseteq Sessions!Alerts  BY DEF SensorInv, SensorStored
  <2>2. SensorRowsBegin'
    BY <1>1, <1>7, <2>1 DEF SensorInv, SensorStored, SensorRowsBegin
  <2>3. ASSUME NEW p \in sensorRaw PROVE SensorKept(p)'
    <3>1. SensorKept(p) /\ p \in Sessions!Alerts  BY <2>1 DEF SensorInv, SensorStored
    <3>2. Sessions!Overtaken(p) => Sessions!Overtaken(p)'
      BY <1>1, <1>7, <3>1 DEF Sessions!Overtaken
    <3> QED  BY <1>1, <3>1, <3>2 DEF SensorKept
  <2> QED  BY <1>1, <1>7, <2>1, <2>2, <2>3 DEF SensorInv, SensorStored
<1>9. ASSUME NEW q \in SensorPullers PROVE SensorPullsOn(q)'
  <2>1. SensorPullsOn(q)  BY DEF SensorInv
  <2>2. SensorPart(sensorPull[q].batch)'
    <3>1. sensorPull[q].batch \subseteq Sessions!Alerts  BY <2>1 DEF SensorPullsOn, SensorPart
    <3>2. \A b \in sensorPull[q].batch : b < Len(sensorLog) + 1  BY <1>3, <1>7, <3>1
    <3> QED  BY <1>1, <1>7, <2>1, <3>1, <3>2 DEF SensorPullsOn, SensorPart
  <2> QED  BY <1>1, <1>3, <1>4, <2>1, <2>2 DEF SensorPullsOn
<1>10. Len(sensorLog') <= SensorMaxLog /\ sensorCursor' \in 0..Len(sensorLog')
  BY <1>1, <1>3, <1>4, Numbers DEF SensorInv
<1> QED  BY <1>1, <1>6, <1>8, <1>9, <1>10 DEF SensorInv

\* What a step of a pull leaves alone, and what it has to keep of the pulls.
LEMMA SensorPullKeeps ==
    ASSUME SensorInv, NEW q \in SensorPullers, NEW P \in SensorAsked,
           sensorLog' = sensorLog, sensorWhole' = sensorWhole,
           sensorPull' = [sensorPull EXCEPT ![q] = P],
           sensorRaw \subseteq sensorRaw', SensorStored',
           sensorCursor' \in 0..Len(sensorLog), 1..sensorCursor' \subseteq sensorRaw',
           P.to \in 0..Len(sensorLog), SensorPart(P.batch),
           P.step # "idle" => 1..P.to \subseteq sensorRaw' \cup P.batch,
           P.step = "save" => P.batch = {}
    PROVE  SensorInv'
<1>1. SensorLogGrows'  BY DEF SensorInv, SensorLogGrows, Sessions!Alerts
<1>2. /\ sensorPull' \in [SensorPullers -> SensorAsked] /\ sensorPull'[q] = P
      /\ \A r \in SensorPullers : r # q => sensorPull'[r] = sensorPull[r]
  BY DEF SensorInv
<1>3. Sessions!Alerts' = Sessions!Alerts  BY DEF Sessions!Alerts
<1>4. ASSUME NEW r \in SensorPullers, r # q PROVE SensorPullsOn(r)'
  <2>1. SensorPullsOn(r) /\ sensorPull'[r] = sensorPull[r]  BY <1>2, <1>4 DEF SensorInv
  <2> QED  BY <1>3, <2>1 DEF SensorPullsOn, SensorPart
<1>5. SensorPullsOn(q)'  BY <1>2, <1>3 DEF SensorPullsOn, SensorPart
<1> QED  BY <1>1, <1>2, <1>4, <1>5 DEF SensorInv

LEMMA SensorSameStored ==
    ASSUME SensorInv, sensorLog' = sensorLog, sensorRows' = sensorRows, sensorRaw' = sensorRaw,
           sensorLate' = sensorLate
    PROVE  SensorStored'
<1>1. Sessions!Alerts' = Sessions!Alerts /\ (\A p : Sessions!Id(p)' = Sessions!Id(p))
  BY DEF Sessions!Alerts, Sessions!Id
<1>2. \A p : Sessions!Overtaken(p) => Sessions!Overtaken(p)'  BY DEF Sessions!Overtaken, Sessions!Alerts
<1> QED  BY <1>1, <1>2 DEF SensorInv, SensorStored, SensorRowsBegin, SensorKept

LEMMA SensorNoPull ==
    /\ Sessions!NoPull \in SensorAsked /\ Sessions!NoPull.step = "idle"
    /\ Sessions!NoPull.batch = {} /\ Sessions!NoPull.to = 0 /\ SensorPart({})
<1>1. {} \in SUBSET Nat /\ 0 \in Nat  OBVIOUS
<1> QED  BY <1>1 DEF Sessions!NoPull, SensorAsked, SensorPart

LEMMA SensorBeginKeeps == ASSUME SensorInv, NEW q \in SensorPullers, Sessions!Begin(q) PROVE SensorInv'
<1> DEFINE to == IF Len(sensorLog) < sensorCursor + SensorLimit THEN Len(sensorLog) ELSE sensorCursor + SensorLimit
           P  == [step |-> "store", batch |-> sensorCursor + 1..to, to |-> to]
<1>1. /\ sensorLog' = sensorLog /\ sensorCursor' = sensorCursor /\ sensorRows' = sensorRows
      /\ sensorRaw' = sensorRaw /\ sensorLate' = sensorLate /\ sensorWhole' = sensorWhole
      /\ sensorPull' = [sensorPull EXCEPT ![q] = P]
  BY DEF Sessions!Begin
<1>2. /\ Len(sensorLog) \in Nat /\ sensorCursor \in 0..Len(sensorLog) /\ SensorLimit \in Nat
      /\ Sessions!Alerts = 1..Len(sensorLog)
  BY Numbers, SensorLogTyped DEF SensorInv
<1>3. to \in sensorCursor..Len(sensorLog)  BY <1>2
<1> HIDE DEF to
<1>4. P \in SensorAsked
  <2>1. to \in Nat /\ (sensorCursor + 1)..to \in SUBSET Nat  BY <1>2, <1>3
  <2> QED  BY <2>1 DEF SensorAsked
<1>5. P.step = "store" /\ P.batch = (sensorCursor + 1)..to /\ P.to = to  OBVIOUS
<1> HIDE DEF P
<1>6. SensorPart((sensorCursor + 1)..to)
  BY <1>2, <1>3 DEF SensorPart
<1>7. 1..to \subseteq sensorRaw \cup ((sensorCursor + 1)..to)
  <2>1. 1..sensorCursor \subseteq sensorRaw  BY DEF SensorInv
  <2>2. \A p \in 1..to : p \in 1..sensorCursor \/ p \in (sensorCursor + 1)..to  BY <1>2, <1>3
  <2> QED  BY <2>1, <2>2
<1>8. SensorStored'  BY <1>1, SensorSameStored
<1>9. 1..sensorCursor \subseteq sensorRaw  BY DEF SensorInv
<1>10. to \in 0..Len(sensorLog)  BY <1>2, <1>3
<1> QED  BY <1>1, <1>2, <1>4, <1>5, <1>6, <1>7, <1>8, <1>9, <1>10, SensorPullKeeps

LEMMA SensorSaveCursorKeeps ==
    ASSUME SensorInv, NEW q \in SensorPullers, Sessions!SaveCursor(q)
    PROVE  SensorInv'
<1>1. /\ sensorLog' = sensorLog /\ sensorRows' = sensorRows /\ sensorCursor' = sensorPull[q].to
      /\ sensorRaw' = sensorRaw /\ sensorLate' = sensorLate /\ sensorWhole' = sensorWhole
      /\ sensorPull[q].step = "save"
      /\ sensorPull' = [sensorPull EXCEPT ![q] = Sessions!NoPull]
  BY DEF Sessions!SaveCursor
<1>2. sensorPull[q].to \in 0..Len(sensorLog) /\ 1..sensorPull[q].to \subseteq sensorRaw
  <2>1. SensorPullsOn(q)  BY DEF SensorInv
  <2> QED  BY <1>1, <2>1 DEF SensorPullsOn
<1>3. SensorStored'  BY <1>1, SensorSameStored
<1>4. 0 \in 0..Len(sensorLog)  BY SensorLogTyped DEF SensorInv
<1> QED  BY <1>1, <1>2, <1>3, <1>4, SensorNoPull, SensorPullKeeps

LEMMA SensorFailKeeps == ASSUME SensorInv, NEW q \in SensorPullers, Sessions!Fail(q) PROVE SensorInv'
<1>1. /\ sensorLog' = sensorLog /\ sensorRows' = sensorRows /\ sensorCursor' = sensorCursor
      /\ sensorRaw' = sensorRaw /\ sensorLate' = sensorLate /\ sensorWhole' = sensorWhole
      /\ sensorPull' = [sensorPull EXCEPT ![q] = Sessions!NoPull]
  BY DEF Sessions!Fail
<1>2. SensorStored'  BY <1>1, SensorSameStored
<1>3. 0 \in 0..Len(sensorLog) /\ sensorCursor \in 0..Len(sensorLog) /\ 1..sensorCursor \subseteq sensorRaw
  BY SensorLogTyped DEF SensorInv
<1> QED  BY <1>1, <1>2, <1>3, SensorNoPull, SensorPullKeeps

LEMMA SensorStoreRecordsKeeps ==
    ASSUME SensorInv, NEW q \in SensorPullers, Sessions!StoreRecords(q)
    PROVE  SensorInv'
<1> DEFINE P == [sensorPull[q] EXCEPT !.step = "save", !.batch = {}]
<1>1. /\ sensorLog' = sensorLog /\ sensorCursor' = sensorCursor /\ sensorWhole' = sensorWhole
      /\ sensorPull[q].step = "store" /\ Sessions!Store(sensorPull[q].batch)
      /\ sensorPull' = [sensorPull EXCEPT ![q] = P]
  BY DEF Sessions!StoreRecords
<1>2. SensorPullsOn(q) /\ sensorPull[q] \in SensorAsked  BY DEF SensorInv
<1>3. P \in SensorAsked /\ P.step = "save" /\ P.batch = {} /\ P.to = sensorPull[q].to
  <2>1. {} \in SUBSET Nat  OBVIOUS
  <2> QED  BY <1>2, <2>1 DEF SensorAsked
<1> HIDE DEF P
<1>4. SensorStored' /\ sensorRaw' = sensorRaw \cup sensorPull[q].batch
  BY <1>1, <1>2, SensorStoreKeeps DEF SensorPullsOn
<1>5. 1..P.to \subseteq sensorRaw' /\ P.to \in 0..Len(sensorLog)
  BY <1>1, <1>2, <1>3, <1>4 DEF SensorPullsOn
<1>6. sensorCursor \in 0..Len(sensorLog) /\ 1..sensorCursor \subseteq sensorRaw'
  BY <1>4 DEF SensorInv
<1> QED  BY <1>1, <1>3, <1>4, <1>5, <1>6, SensorNoPull, SensorPullKeeps

LEMMA SensorUploadKeeps == ASSUME SensorInv, NEW n, Sessions!Upload(n) PROVE SensorInv'
<1>1. /\ sensorLog' = sensorLog /\ sensorCursor' = sensorCursor /\ sensorPull' = sensorPull
      /\ sensorWhole' = sensorWhole /\ n \in Sessions!Alerts /\ Sessions!Store(1..n)
  BY DEF Sessions!Upload
<1>2. /\ Len(sensorLog) \in Nat /\ Sessions!Alerts = 1..Len(sensorLog)
  BY SensorLogTyped DEF SensorInv
<1>3. SensorPart(1..n)  BY <1>1, <1>2 DEF SensorPart
<1>4. SensorStored' /\ sensorRaw \subseteq sensorRaw'  BY <1>1, <1>3, SensorStoreKeeps
<1>5. ASSUME NEW q \in SensorPullers PROVE SensorPullsOn(q)'
  <2>1. SensorPullsOn(q)  BY DEF SensorInv
  <2> QED  BY <1>1, <1>4, <2>1 DEF SensorPullsOn, SensorPart, Sessions!Alerts
<1>6. SensorLogGrows'  BY <1>1 DEF SensorInv, SensorLogGrows, Sessions!Alerts
<1> QED  BY <1>1, <1>4, <1>5, <1>6 DEF SensorInv

LEMMA SensorStep == SensorInv /\ (Sessions!Next \/ UNCHANGED sensorVars) => SensorInv'
<1> SUFFICES ASSUME SensorInv, Sessions!Next \/ UNCHANGED sensorVars PROVE SensorInv'
  OBVIOUS
<1>1. CASE \E t \in 1..SensorMaxTime, a \in SensorAddresses : Sessions!Alert(t, a)
  BY <1>1, SensorAlertKeeps
<1>2. CASE \E q \in SensorPullers : \/ Sessions!Begin(q) \/ Sessions!StoreRecords(q)
                                    \/ Sessions!SaveCursor(q) \/ Sessions!Fail(q)
  BY <1>2, SensorBeginKeeps, SensorStoreRecordsKeeps, SensorSaveCursorKeeps, SensorFailKeeps
<1>3. CASE \E n \in Sessions!Alerts : Sessions!Upload(n)  BY <1>3, SensorUploadKeeps
<1>4. CASE UNCHANGED sensorVars
  <2>1. /\ sensorLog' = sensorLog /\ sensorRows' = sensorRows /\ sensorCursor' = sensorCursor
        /\ sensorRaw' = sensorRaw /\ sensorLate' = sensorLate /\ sensorWhole' = sensorWhole
        /\ sensorPull' = sensorPull
    BY <1>4 DEF sensorVars
  <2>2. SensorStored'  BY <2>1, SensorSameStored
  <2>3. \A q \in SensorPullers : SensorPullsOn(q)'
    BY <2>1 DEF SensorInv, SensorPullsOn, SensorPart, Sessions!Alerts
  <2>4. SensorLogGrows'  BY <2>1 DEF SensorInv, SensorLogGrows, Sessions!Alerts
  <2> QED  BY <2>1, <2>2, <2>3, <2>4 DEF SensorInv
<1> QED  BY <1>1, <1>2, <1>3, <1>4 DEF Sessions!Next

LEMMA SensorInit == Sessions!Init => SensorInv
<1> SUFFICES ASSUME Sessions!Init PROVE SensorInv
  OBVIOUS
<1>1. /\ sensorLog = <<>> /\ sensorCursor = 0 /\ sensorRows = <<>> /\ sensorRaw = {}
      /\ sensorLate = {} /\ sensorWhole \in BOOLEAN
      /\ sensorPull = [q \in SensorPullers |-> Sessions!NoPull]
  BY DEF Sessions!Init
<1>2. Len(sensorLog) = 0 /\ sensorLog \in Seq(SensorObservation)  BY <1>1
<1>3. SensorLogGrows /\ sensorCursor \in 0..Len(sensorLog) /\ 1..sensorCursor = {}
  BY <1>1, <1>2 DEF SensorLogGrows, Sessions!Alerts
<1>4. DOMAIN sensorRows = {}  BY <1>1
<1>5. SensorStored  BY <1>1, <1>4 DEF SensorStored, SensorRowsBegin
<1>6. sensorPull \in [SensorPullers -> SensorAsked]  BY <1>1, SensorNoPull
<1>7. ASSUME NEW q \in SensorPullers PROVE SensorPullsOn(q)
  <2>1. sensorPull[q] = Sessions!NoPull /\ 0 \in 0..Len(sensorLog)  BY <1>1, <1>2
  <2> QED  BY <2>1, SensorNoPull DEF SensorPullsOn
<1> QED  BY <1>1, <1>2, <1>3, <1>5, <1>6, <1>7, Numbers DEF SensorInv

\* Every variable has its type, and what the cursor has passed is kept.
LEMMA SensorTyped == SensorInv /\ faults \in 0..MaxFaults => Sessions!TypeOK
<1> SUFFICES ASSUME SensorInv, faults \in 0..MaxFaults PROVE Sessions!TypeOK
  OBVIOUS
<1>1. DOMAIN sensorRows \subseteq Sessions!Observations /\ \A i \in DOMAIN sensorRows : sensorRows[i] \subseteq sensorRaw
  BY SensorLogTyped DEF SensorInv, SensorStored, SensorRowsBegin
<1>2. \A q \in SensorPullers : sensorPull[q] \in SensorAsked /\ SensorPullsOn(q)  BY DEF SensorInv
<1>3. \A q \in SensorPullers : /\ sensorPull[q].step \in {"idle", "store", "save"}
                               /\ sensorPull[q].batch \subseteq Sessions!Alerts
                               /\ sensorPull[q].to \in 0..Len(sensorLog)
  BY <1>2 DEF SensorAsked, SensorPullsOn, SensorPart
<1> QED  BY <1>1, <1>3 DEF SensorInv, SensorLogGrows, SensorObservation, SensorStored, Sessions!TypeOK

LEMMA SensorPassed == SensorInv => Sessions!PassedIsInASession
BY DEF SensorInv, SensorStored, SensorKept, Sessions!PassedIsInASession

-----------------------------------------------------------------------------
(* The paged reads of the feed.                                            *)

FeedStates  == {"open", "committed", "completed", "failed"}
FeedOp      ==
    [path : Reading!Paths, tag : Reading!Bodies, items : Seq(FeedValues), done : Nat,
     state : FeedStates]
FeedReadOf  ==
    [step : {"idle", "page", "import"}, op : Nat, path : Reading!Paths \cup {None},
     tag : Reading!Bodies \cup {None}, got : Seq(FeedValues), pages : Nat]

\* What was published by now.
FeedMade == {t \in Reading!Bodies : t.stamp <= feedStamp}

FeedTypes ==
    /\ feedStamp \in Nat /\ feedFile \in [Reading!Paths -> FeedMade \cup {None}]
    /\ feedKnown \in [Reading!Paths -> FeedMade \cup {None}]
    /\ DOMAIN feedCache \subseteq FeedMade /\ \A t \in DOMAIN feedCache : feedCache[t] \in Reading!Bodies
    /\ feedOps \in Seq(FeedOp) /\ (\A i \in DOMAIN feedOps : feedOps[i].tag \in FeedMade)
    /\ feedRead \in FeedReadOf /\ feedRead.tag \in FeedMade \cup {None}

\* What can be acknowledged.
FeedCurrent == {feedFile[Reading!Snapshot]} \cup {feedKnown[b] : b \in FeedBatches}

\* The state has the digest of a batch's file, and that of the snapshot, or one
\* that nothing has any more.
FeedDigests ==
    /\ \A b \in FeedBatches :
          feedKnown[b] # None => feedKnown[b] = feedFile[b] /\ feedKnown[b].items = FeedBatchItems[b]
    /\ feedKnown[Reading!Snapshot] # None =>
          \/ feedKnown[Reading!Snapshot] = feedFile[Reading!Snapshot]
          \/ feedKnown[Reading!Snapshot] \notin FeedCurrent
    /\ \A b \in FeedBatches : feedFile[b] # None => feedFile[b] # feedFile[Reading!Snapshot]

FeedCacheHolds == \A t \in DOMAIN feedCache : t \in FeedCurrent => feedCache[t].items = t.items

FeedBegins(s, t) == Len(s) <= Len(t) /\ \A k \in 1..Len(s) : s[k] = t[k]

\* What was imported of an operation that can be acknowledged is from its body.
FeedOpHolds(o, current) ==
    o.tag \in current =>
        /\ FeedBegins(o.items, o.tag.items) /\ Len(o.items) = o.done
        /\ o.state = "committed" => o.items = o.tag.items

FeedOpsHold == \A i \in DOMAIN feedOps : FeedOpHolds(feedOps[i], FeedCurrent)

FeedReadHolds ==
    /\ feedRead.op \in 0..Len(feedOps)
    /\ feedRead.step # "idle" =>
          feedRead.path = IF feedRead.op = 0 THEN Reading!Snapshot ELSE feedOps[feedRead.op].path
    /\ feedRead.step = "page" =>
          IF feedRead.pages = 0 THEN feedRead.got = <<>>
          ELSE /\ feedRead.tag \in Reading!Bodies
               /\ feedRead.tag \in FeedCurrent => FeedBegins(feedRead.got, feedRead.tag.items)
    /\ feedRead.step = "import" =>
          /\ feedRead.op # 0 /\ feedRead.tag = feedOps[feedRead.op].tag
          /\ feedRead.tag \in FeedCurrent => feedRead.got = feedRead.tag.items

FeedInv ==
    /\ FeedTypes /\ FeedDigests /\ FeedCacheHolds /\ FeedOpsHold /\ FeedReadHolds
    /\ Reading!AckedIsTheBody

\* Nothing that was published before becomes current again.
FeedRenews == \A t \in FeedMade : t \in FeedCurrent' => t \in FeedCurrent

-----------------------------------------------------------------------------
LEMMA FeedBodyFacts ==
    /\ \A t \in Reading!Bodies : t.items \in Seq(FeedValues) /\ t.stamp \in Nat
    /\ \A s \in FeedServed : \A n \in 1..FeedMaxStamp :
          /\ Reading!Body(s, n) \in Reading!Bodies /\ Reading!Body(s, n).items = s
          /\ Reading!Body(s, n).stamp = n
<1>1. ASSUME NEW t \in Reading!Bodies PROVE t.items \in Seq(FeedValues) /\ t.stamp \in Nat
  <2>1. PICK s \in FeedServed, n \in 1..FeedMaxStamp : t = Reading!Body(s, n)
    BY DEF Reading!Bodies, FeedServed
  <2> QED  BY <2>1, BackendAssumption DEF Reading!Body
<1>2. ASSUME NEW s \in FeedServed, NEW n \in 1..FeedMaxStamp
      PROVE  /\ Reading!Body(s, n) \in Reading!Bodies /\ Reading!Body(s, n).items = s
             /\ Reading!Body(s, n).stamp = n
  BY DEF Reading!Bodies, FeedServed, Reading!Body
<1> QED  BY <1>1, <1>2

LEMMA FeedSeqEqual ==
    ASSUME NEW S, NEW s \in Seq(S), NEW t \in Seq(S), Len(s) = Len(t),
           \A k \in 1..Len(t) : s[k] = t[k]
    PROVE  s = t
<1>1. DOMAIN s = 1..Len(s) /\ DOMAIN t = 1..Len(t) /\ Len(s) \in Nat /\ Len(t) \in Nat  OBVIOUS
<1>2. s = [k \in DOMAIN s |-> s[k]] /\ t = [k \in DOMAIN t |-> t[k]]  OBVIOUS
<1>3. DOMAIN s = DOMAIN t /\ \A k \in DOMAIN t : s[k] = t[k]  BY <1>1
<1> QED  BY <1>2, <1>3

\* A page after a beginning is a longer beginning, and the last one completes it.
LEMMA FeedPageAfter ==
    ASSUME NEW items \in Seq(FeedValues), NEW got \in Seq(FeedValues), NEW n \in Nat \ {0}
    PROVE  LET last == Len(got) + n
               page == SubSeq(items, Len(got) + 1, IF last < Len(items) THEN last ELSE Len(items))
           IN  /\ got \o page \in Seq(FeedValues)
               /\ FeedBegins(got, items) => FeedBegins(got \o page, items)
               /\ FeedBegins(got, items) /\ ~(last < Len(items)) => got \o page = items
<1> DEFINE last == Len(got) + n
           e    == IF last < Len(items) THEN last ELSE Len(items)
           page == SubSeq(items, Len(got) + 1, e)
<1>1. Len(items) \in Nat /\ Len(got) \in Nat /\ e \in Nat /\ e <= Len(items)  OBVIOUS
<1> HIDE DEF e
<1>2. page \in Seq(FeedValues)
  BY <1>1
<1>3. ASSUME FeedBegins(got, items)
      PROVE  /\ Len(page) = e - Len(got) /\ Len(got) <= e
             /\ \A k \in 1..Len(page) : page[k] = items[Len(got) + k]
  <2>1. Len(got) <= Len(items)  BY <1>3 DEF FeedBegins
  <2>2. Len(got) <= e  BY <1>1, <2>1 DEF e
  <2> QED  BY <1>1, <2>2
<1> HIDE DEF page
<1>4. got \o page \in Seq(FeedValues)  BY <1>2
<1>5. ASSUME FeedBegins(got, items)
      PROVE  /\ Len(got \o page) = e
             /\ \A k \in 1..e : (got \o page)[k] = items[k]
  <2>1. Len(got \o page) = Len(got) + Len(page) /\ Len(page) \in Nat  BY <1>2
  <2>2. ASSUME NEW k \in 1..e PROVE (got \o page)[k] = items[k]
    <3>1. CASE k <= Len(got)
      <4>1. (got \o page)[k] = got[k]  BY <1>1, <1>2, <3>1
      <4> QED  BY <1>1, <1>5, <3>1, <4>1 DEF FeedBegins
    <3>2. CASE k > Len(got)
      <4>1. k - Len(got) \in 1..Len(page)  BY <1>1, <1>3, <1>5, <3>2
      <4>2. (got \o page)[k] = page[k - Len(got)]  BY <1>1, <1>2, <3>2, <4>1, <2>1
      <4>3. page[k - Len(got)] = items[Len(got) + (k - Len(got))]  BY <1>3, <1>5, <4>1
      <4>4. Len(got) + (k - Len(got)) = k  BY <1>1
      <4> QED  BY <4>2, <4>3, <4>4
    <3>3. k \in Nat /\ Len(got) \in Nat  BY <1>1
    <3>4. k <= Len(got) \/ k > Len(got)  BY <3>3
    <3> QED  BY <3>1, <3>2, <3>4
  <2>3. Len(got \o page) = e  BY <1>1, <1>3, <1>5, <2>1
  <2> QED  BY <2>2, <2>3
<1>6. FeedBegins(got, items) => FeedBegins(got \o page, items)
  BY <1>1, <1>5 DEF FeedBegins
<1>7. ASSUME FeedBegins(got, items), ~(last < Len(items)) PROVE got \o page = items
  <2>1. e = Len(items)  BY <1>7 DEF e
  <2>2. Len(got \o page) = Len(items) /\ \A k \in 1..Len(items) : (got \o page)[k] = items[k]
    BY <1>5, <1>7, <2>1
  <2> QED  BY <1>4, <2>2, FeedSeqEqual
<1> QED  BY <1>4, <1>6, <1>7 DEF e, page

\* What a path is served with.
LEMMA FeedServes ==
    ASSUME FeedInv, NEW p \in Reading!Paths, Reading!IsServed(p)
    PROVE  /\ Reading!Tag(p) \in FeedMade /\ Reading!Payload(p) \in Reading!Bodies
           /\ feedFile[p] \in Reading!Bodies
           /\ Reading!Tag(p) \in FeedCurrent => Reading!Payload(p).items = Reading!Tag(p).items /\ feedFile[p] = Reading!Tag(p)
<1>1. feedFile[p] \in FeedMade /\ Reading!Tag(p) \in FeedMade
  BY DEF FeedInv, FeedTypes, Reading!IsServed, Reading!Tag
<1>2. Reading!Tag(p) \in FeedCurrent => feedFile[p] = Reading!Tag(p)
  <2>1. CASE p = Reading!Snapshot  BY <2>1 DEF FeedInv, FeedDigests, Reading!Tag
  <2>2. CASE p \in FeedBatches  BY <2>2 DEF FeedInv, FeedDigests, Reading!Tag, Reading!IsServed
  <2> QED  BY <2>1, <2>2 DEF Reading!Paths
<1>3. Reading!Payload(p) \in Reading!Bodies
  BY <1>1 DEF Reading!Payload, FeedInv, FeedTypes, FeedMade
<1>4. Reading!Tag(p) \in FeedCurrent => Reading!Payload(p).items = Reading!Tag(p).items
  BY <1>2 DEF Reading!Payload, FeedInv, FeedCacheHolds
<1> QED  BY <1>1, <1>2, <1>3, <1>4 DEF FeedMade

\* What a step that renews leaves true of what it does not touch.
LEMMA FeedOpsKept ==
    ASSUME FeedInv, FeedRenews, NEW o, o.tag \in FeedMade, FeedOpHolds(o, FeedCurrent)
    PROVE  FeedOpHolds(o, FeedCurrent')
BY DEF FeedRenews, FeedOpHolds

LEMMA FeedCacheKept ==
    ASSUME FeedInv, FeedRenews, DOMAIN feedCache' \subseteq DOMAIN feedCache,
           \A t \in DOMAIN feedCache' : feedCache'[t] = feedCache[t]
    PROVE  FeedCacheHolds'
BY DEF FeedInv, FeedTypes, FeedRenews, FeedCacheHolds

LEMMA FeedReadKept ==
    ASSUME FeedInv, FeedRenews, feedRead' = feedRead, Len(feedOps') \in Nat,
           Len(feedOps) <= Len(feedOps'),
           \A i \in DOMAIN feedOps : feedOps'[i].tag = feedOps[i].tag /\ feedOps'[i].path = feedOps[i].path
    PROVE  FeedReadHolds'
<1>1. DOMAIN feedOps = 1..Len(feedOps) /\ Len(feedOps) \in Nat  BY DEF FeedInv, FeedTypes
<1>2. feedRead.op # 0 => feedRead.op \in DOMAIN feedOps  BY <1>1 DEF FeedInv, FeedReadHolds
<1>3. feedRead.tag \in Reading!Bodies => feedRead.tag \in FeedMade
  BY BackendAssumption DEF FeedInv, FeedTypes
<1>4. feedRead.op # 0 => feedOps[feedRead.op].tag \in FeedMade  BY <1>2 DEF FeedInv, FeedTypes
<1>5. feedRead.tag \in FeedMade /\ feedRead.tag \in FeedCurrent' => feedRead.tag \in FeedCurrent
  BY DEF FeedRenews
<1> QED  BY <1>1, <1>2, <1>3, <1>4, <1>5 DEF FeedInv, FeedReadHolds

\* One operation changes, the others stay.
LEMMA FeedOpChanged ==
    ASSUME FeedInv, NEW i \in DOMAIN feedOps, NEW o \in FeedOp,
           feedOps' = [feedOps EXCEPT ![i] = o],
           o.tag = feedOps[i].tag, o.path = feedOps[i].path, feedStamp' = feedStamp,
           FeedRenews, FeedOpHolds(o, FeedCurrent)
    PROVE  /\ feedOps' \in Seq(FeedOp) /\ (\A k \in DOMAIN feedOps' : feedOps'[k].tag \in FeedMade')
           /\ Len(feedOps') = Len(feedOps) /\ Len(feedOps) \in Nat
           /\ DOMAIN feedOps = 1..Len(feedOps)
           /\ \A k \in DOMAIN feedOps : feedOps'[k].tag = feedOps[k].tag /\ feedOps'[k].path = feedOps[k].path
           /\ feedOps'[i] = o
           /\ FeedOpsHold'
<1>1. feedOps \in Seq(FeedOp) /\ Len(feedOps) \in Nat /\ DOMAIN feedOps = 1..Len(feedOps)
  BY DEF FeedInv, FeedTypes
<1>2. feedOps' \in Seq(FeedOp) /\ Len(feedOps') = Len(feedOps) /\ DOMAIN feedOps' = DOMAIN feedOps
      /\ \A k \in DOMAIN feedOps : feedOps'[k] = IF k = i THEN o ELSE feedOps[k]
  BY <1>1
<1>3. \A k \in DOMAIN feedOps : feedOps[k].tag \in FeedMade /\ FeedOpHolds(feedOps[k], FeedCurrent)
  BY DEF FeedInv, FeedTypes, FeedOpsHold
<1>4. FeedMade' = FeedMade  BY DEF FeedMade
<1>5. \A k \in DOMAIN feedOps : feedOps'[k].tag = feedOps[k].tag /\ feedOps'[k].path = feedOps[k].path
  BY <1>2
<1>6. ASSUME NEW k \in DOMAIN feedOps' PROVE FeedOpHolds(feedOps'[k], FeedCurrent')
  <2>1. feedOps'[k].tag \in FeedMade /\ FeedOpHolds(feedOps'[k], FeedCurrent)  BY <1>2, <1>3
  <2> QED  BY <2>1, FeedOpsKept
<1> QED  BY <1>1, <1>2, <1>3, <1>4, <1>5, <1>6 DEF FeedOpsHold

\* An operation is added.
LEMMA FeedOpAdded ==
    ASSUME FeedInv, NEW o \in FeedOp, feedOps' = Append(feedOps, o), o.tag \in FeedMade',
           FeedMade \subseteq FeedMade',
           FeedRenews, FeedOpHolds(o, FeedCurrent')
    PROVE  /\ feedOps' \in Seq(FeedOp) /\ (\A k \in DOMAIN feedOps' : feedOps'[k].tag \in FeedMade')
           /\ Len(feedOps') \in Nat /\ Len(feedOps) <= Len(feedOps')
           /\ \A k \in DOMAIN feedOps : feedOps'[k].tag = feedOps[k].tag /\ feedOps'[k].path = feedOps[k].path
           /\ FeedOpsHold'
<1>1. feedOps \in Seq(FeedOp) /\ Len(feedOps) \in Nat /\ DOMAIN feedOps = 1..Len(feedOps)
  BY DEF FeedInv, FeedTypes
<1>2. /\ feedOps' \in Seq(FeedOp) /\ Len(feedOps') = Len(feedOps) + 1
      /\ DOMAIN feedOps' = 1..(Len(feedOps) + 1)
      /\ feedOps'[Len(feedOps) + 1] = o /\ \A k \in 1..Len(feedOps) : feedOps'[k] = feedOps[k]
  BY <1>1
<1>3. \A k \in DOMAIN feedOps : feedOps[k].tag \in FeedMade /\ FeedOpHolds(feedOps[k], FeedCurrent)
  BY DEF FeedInv, FeedTypes, FeedOpsHold
<1>4. ASSUME NEW k \in DOMAIN feedOps'
      PROVE  feedOps'[k].tag \in FeedMade' /\ FeedOpHolds(feedOps'[k], FeedCurrent')
  <2>1. CASE k = Len(feedOps) + 1  BY <1>2, <2>1
  <2>2. CASE k # Len(feedOps) + 1
    <3>1. k \in DOMAIN feedOps  BY <1>1, <1>2, <2>2
    <3>2. feedOps'[k].tag \in FeedMade /\ FeedOpHolds(feedOps'[k], FeedCurrent)
      BY <1>1, <1>2, <1>3, <3>1
    <3> QED  BY <3>2, FeedOpsKept
  <2> QED  BY <2>1, <2>2
<1> QED  BY <1>1, <1>2, <1>4 DEF FeedOpsHold

\* The state of an operation changes.
LEMMA FeedStateChanged ==
    ASSUME FeedInv, NEW i \in DOMAIN feedOps, NEW st \in FeedStates,
           feedOps' = [feedOps EXCEPT ![i].state = st],
           UNCHANGED feedStamp, FeedRenews,
           st = "committed" => (feedOps[i].tag \in FeedCurrent => feedOps[i].items = feedOps[i].tag.items)
    PROVE  /\ feedOps' \in Seq(FeedOp) /\ (\A k \in DOMAIN feedOps' : feedOps'[k].tag \in FeedMade')
           /\ Len(feedOps') = Len(feedOps) /\ Len(feedOps) \in Nat
           /\ DOMAIN feedOps = 1..Len(feedOps)
           /\ \A k \in DOMAIN feedOps : feedOps'[k].tag = feedOps[k].tag /\ feedOps'[k].path = feedOps[k].path
           /\ FeedOpsHold'
<1> DEFINE o == [feedOps[i] EXCEPT !.state = st]
<1>1. feedOps[i] \in FeedOp  BY DEF FeedInv, FeedTypes
<1>2. /\ o \in FeedOp /\ o.tag = feedOps[i].tag /\ o.path = feedOps[i].path
      /\ o.items = feedOps[i].items
      /\ o.done = feedOps[i].done /\ o.state = st
  BY <1>1 DEF FeedOp
<1>3. feedOps' = [feedOps EXCEPT ![i] = o]  OBVIOUS
<1>4. FeedOpHolds(feedOps[i], FeedCurrent)  BY DEF FeedInv, FeedOpsHold
<1> HIDE DEF o
<1>5. FeedOpHolds(o, FeedCurrent)  BY <1>2, <1>4 DEF FeedOpHolds
<1> QED  BY <1>2, <1>3, <1>5, FeedOpChanged

\* A step that publishes nothing.
LEMMA FeedSteady ==
    ASSUME FeedInv, UNCHANGED <<feedFile, feedKnown, feedStamp>>
    PROVE  FeedRenews /\ FeedMade' = FeedMade /\ FeedCurrent' = FeedCurrent /\ FeedDigests'
<1>1. FeedMade' = FeedMade /\ FeedCurrent' = FeedCurrent  BY DEF FeedMade, FeedCurrent
<1> QED  BY <1>1 DEF FeedRenews, FeedInv, FeedDigests

LEMMA FeedNoReadHolds ==
    ASSUME feedRead' = Reading!NoRead, feedOps' \in Seq(FeedOp)
    PROVE  FeedReadHolds' /\ (feedRead \in FeedReadOf)' /\ (feedRead.tag \in FeedMade \cup {None})'
<1>1. Len(feedOps') \in Nat  OBVIOUS
<1>2. 0 \in 0..Len(feedOps')  BY <1>1
<1>3. <<>> \in Seq(FeedValues)  OBVIOUS
<1> QED  BY <1>2, <1>3 DEF FeedReadHolds, Reading!NoRead, FeedReadOf

LEMMA FeedCacheSame == ASSUME FeedInv, UNCHANGED feedCache, FeedRenews PROVE FeedCacheHolds'
BY FeedCacheKept

-----------------------------------------------------------------------------
(* The Gateway.                                                            *)

\* What a new body is.
LEMMA FeedNewBody ==
    ASSUME FeedInv, NEW s \in FeedServed, feedStamp < FeedMaxStamp, feedStamp' = feedStamp + 1
    PROVE  LET body == Reading!Body(s, feedStamp + 1) IN
           /\ body \in Reading!Bodies /\ body.items = s /\ body \in FeedMade'
           /\ body \notin FeedMade
           /\ body # None /\ FeedMade \subseteq FeedMade' /\ None \notin FeedMade
<1>1. feedStamp \in Nat /\ FeedMaxStamp \in Nat  BY BackendAssumption DEF FeedInv, FeedTypes
<1>2. feedStamp + 1 \in 1..FeedMaxStamp  BY <1>1
<1>3. PICK body : body = Reading!Body(s, feedStamp + 1)  OBVIOUS
<1>4. body \in Reading!Bodies /\ body.items = s /\ body.stamp = feedStamp + 1
  BY <1>2, <1>3, FeedBodyFacts
<1>5. \A t \in Reading!Bodies : t.stamp \in Nat  BY FeedBodyFacts
<1> QED  BY <1>1, <1>3, <1>4, <1>5, BackendAssumption DEF FeedMade

LEMMA FeedPublishLegacyKeeps ==
    ASSUME FeedInv, NEW items \in FeedSnapshots, NEW whole \in BOOLEAN,
           Reading!PublishLegacy(items, whole)
    PROVE  FeedInv'
<1> DEFINE body == Reading!Body(items, feedStamp + 1)
<1>1. items \in FeedServed /\ feedStamp < FeedMaxStamp /\ feedStamp' = feedStamp + 1
  BY DEF Reading!PublishLegacy, FeedServed
<1>2. /\ body \in Reading!Bodies /\ body.items = items /\ body \in FeedMade' /\ body \notin FeedMade
      /\ body # None /\ FeedMade \subseteq FeedMade' /\ None \notin FeedMade
  BY <1>1, FeedNewBody
<1>3. /\ feedFile' = [feedFile EXCEPT ![Reading!Snapshot] = body]
      /\ UNCHANGED <<feedOps, feedRead, feedDelivered>>
      /\ \/ /\ feedKnown' = [p \in Reading!Paths |-> IF p = Reading!Snapshot THEN body ELSE None]
            /\ feedCache' = [t \in DOMAIN feedCache \cup {body} |-> IF t = body THEN body ELSE feedCache[t]]
         \/ UNCHANGED <<feedKnown, feedCache>>
  BY DEF Reading!PublishLegacy, Reading!Cached
<1> HIDE DEF body
<1>4. /\ Reading!Snapshot \in Reading!Paths
      /\ (\A b \in FeedBatches : b \in Reading!Paths /\ b # Reading!Snapshot)
  BY BackendAssumption DEF Reading!Paths
<1>5. /\ feedFile \in [Reading!Paths -> FeedMade \cup {None}]
      /\ feedKnown \in [Reading!Paths -> FeedMade \cup {None}]
  BY DEF FeedInv, FeedTypes
<1>6. /\ feedFile'[Reading!Snapshot] = body /\ \A b \in FeedBatches : feedFile'[b] = feedFile[b]
      /\ feedFile' \in [Reading!Paths -> FeedMade' \cup {None}]
  BY <1>2, <1>3, <1>4, <1>5
<1>7. \/ feedKnown' = feedKnown
      \/ feedKnown'[Reading!Snapshot] = body /\ \A b \in FeedBatches : feedKnown'[b] = None
  BY <1>3, <1>4
<1>8. feedKnown' \in [Reading!Paths -> FeedMade' \cup {None}]  BY <1>2, <1>3, <1>5
<1>9. FeedCurrent' \subseteq FeedCurrent \cup {body, None}
  BY <1>6, <1>7 DEF FeedCurrent
<1>10. FeedRenews  BY <1>2, <1>9 DEF FeedRenews
<1>11. FeedDigests'
  <2>1. \A b \in FeedBatches : feedKnown'[b] # None => feedKnown'[b] = feedFile'[b] /\ feedKnown'[b].items = FeedBatchItems[b]
    BY <1>6, <1>7 DEF FeedInv, FeedDigests
  <2>2. ASSUME feedKnown'[Reading!Snapshot] # None,
               feedKnown'[Reading!Snapshot] # feedFile'[Reading!Snapshot]
        PROVE  feedKnown'[Reading!Snapshot] \notin FeedCurrent'
    <3>1. feedKnown' = feedKnown  BY <1>6, <1>7, <2>2
    <3>2. feedKnown[Reading!Snapshot] \in FeedMade  BY <1>4, <1>5, <2>2, <3>1
    <3>3. CASE feedKnown[Reading!Snapshot] = feedFile[Reading!Snapshot]
      <4>1. \A b \in FeedBatches : feedKnown[b] # feedKnown[Reading!Snapshot]
        BY <3>2, <3>3, <1>2 DEF FeedInv, FeedDigests
      <4> QED  BY <1>2, <1>6, <3>1, <3>2, <4>1 DEF FeedCurrent
    <3>4. CASE feedKnown[Reading!Snapshot] \notin FeedCurrent
      BY <1>2, <1>9, <3>1, <3>2, <3>4
    <3> QED  BY <2>2, <3>1, <3>3, <3>4 DEF FeedInv, FeedDigests
  <2>3. \A b \in FeedBatches : feedFile'[b] # None => feedFile'[b] # feedFile'[Reading!Snapshot]
    BY <1>2, <1>4, <1>5, <1>6
  <2> QED  BY <2>1, <2>2, <2>3 DEF FeedDigests
<1>12. /\ DOMAIN feedCache' \subseteq FeedMade' /\ \A t \in DOMAIN feedCache' : feedCache'[t] \in Reading!Bodies
  BY <1>2, <1>3 DEF FeedInv, FeedTypes
<1>13. FeedCacheHolds'
  <2>1. CASE UNCHANGED feedCache  BY <1>10, <2>1, FeedCacheSame
  <2>2. CASE feedCache' = [t \in DOMAIN feedCache \cup {body} |-> IF t = body THEN body ELSE feedCache[t]]
    <3>1. ASSUME NEW t \in DOMAIN feedCache', t \in FeedCurrent', t # body
          PROVE  feedCache'[t].items = t.items
      BY <1>10, <2>2, <3>1 DEF FeedInv, FeedTypes, FeedCacheHolds, FeedRenews
    <3> QED  BY <2>2, <3>1 DEF FeedCacheHolds
  <2> QED  BY <1>3, <2>1, <2>2
<1>14. /\ feedOps' \in Seq(FeedOp) /\ (\A k \in DOMAIN feedOps' : feedOps'[k].tag \in FeedMade')
       /\ Len(feedOps') \in Nat
  BY <1>2, <1>3 DEF FeedInv, FeedTypes
<1>15. FeedOpsHold'
  <2>1. ASSUME NEW k \in DOMAIN feedOps' PROVE FeedOpHolds(feedOps'[k], FeedCurrent')
    <3>1. feedOps'[k].tag \in FeedMade /\ FeedOpHolds(feedOps'[k], FeedCurrent)
      BY <1>3, <2>1 DEF FeedInv, FeedTypes, FeedOpsHold
    <3> QED  BY <1>10, <3>1, FeedOpsKept
  <2> QED  BY <2>1 DEF FeedOpsHold
<1>16. FeedReadHolds'  BY <1>3, <1>10, <1>14, FeedReadKept
<1>17. (feedRead \in FeedReadOf)' /\ (feedRead.tag \in FeedMade \cup {None})'
  BY <1>2, <1>3 DEF FeedInv, FeedTypes
<1>18. Reading!AckedIsTheBody'  BY <1>3 DEF FeedInv, Reading!AckedIsTheBody
<1>19. feedStamp' \in Nat  BY <1>1 DEF FeedInv, FeedTypes
<1> QED
  BY <1>6, <1>8, <1>11, <1>12, <1>13, <1>14, <1>15, <1>16, <1>17, <1>18, <1>19
     DEF FeedInv, FeedTypes

LEMMA FeedPublishBatchKeeps ==
    ASSUME FeedInv, NEW b \in FeedBatches, NEW whole \in BOOLEAN, Reading!PublishBatch(b, whole)
    PROVE  FeedInv'
<1> DEFINE body  == Reading!Body(FeedBatchItems[b], feedStamp + 1)
           first == feedKnown[b] = None
           tag   == IF first THEN body ELSE feedKnown[b]
           o     == [path |-> b, tag |-> tag, items |-> <<>>, done |-> 0, state |-> "open"]
<1>1. FeedBatchItems[b] \in FeedServed /\ feedStamp < FeedMaxStamp /\ feedStamp' = feedStamp + 1
  BY DEF Reading!PublishBatch, FeedServed
<1>2. /\ body \in Reading!Bodies /\ body.items = FeedBatchItems[b] /\ body \in FeedMade'
      /\ body \notin FeedMade
      /\ body # None /\ FeedMade \subseteq FeedMade' /\ None \notin FeedMade
  BY <1>1, FeedNewBody
<1>3. /\ feedFile' = IF first THEN [feedFile EXCEPT ![b] = body] ELSE feedFile
      /\ UNCHANGED <<feedRead, feedDelivered>>
      /\ \/ /\ feedKnown' = IF first THEN [Reading!WithBatches EXCEPT ![b] = body] ELSE feedKnown
            /\ feedCache' = [t \in DOMAIN feedCache \cup {tag} |-> IF t = tag THEN body ELSE feedCache[t]]
            /\ feedOps' = Append(feedOps, o)
         \/ first /\ UNCHANGED <<feedKnown, feedCache, feedOps>>
  BY DEF Reading!PublishBatch, Reading!Cached
<1> HIDE DEF body
<1>4. /\ Reading!Snapshot \in Reading!Paths /\ b \in Reading!Paths
      /\ (\A c \in FeedBatches : c \in Reading!Paths /\ c # Reading!Snapshot)
  BY BackendAssumption DEF Reading!Paths
<1>5. /\ feedFile \in [Reading!Paths -> FeedMade \cup {None}]
      /\ feedKnown \in [Reading!Paths -> FeedMade \cup {None}]
  BY DEF FeedInv, FeedTypes
<1>6. /\ feedFile'[Reading!Snapshot] = feedFile[Reading!Snapshot]
      /\ \A c \in FeedBatches : feedFile'[c] = IF first /\ c = b THEN body ELSE feedFile[c]
      /\ feedFile' \in [Reading!Paths -> FeedMade' \cup {None}]
  BY <1>2, <1>3, <1>4, <1>5
<1>7. /\ Reading!WithBatches \in [Reading!Paths -> FeedMade \cup {None}]
      /\ \A c \in FeedBatches : Reading!WithBatches[c] = feedKnown[c]
      /\ Reading!WithBatches[Reading!Snapshot] \in {feedKnown[Reading!Snapshot], feedFile[Reading!Snapshot]}
  BY <1>4, <1>5 DEF Reading!WithBatches
<1>8. \/ feedKnown' = feedKnown
      \/ /\ first /\ feedKnown'[b] = body /\ (\A c \in FeedBatches \ {b} : feedKnown'[c] = feedKnown[c])
         /\ feedKnown'[Reading!Snapshot] \in {feedKnown[Reading!Snapshot], feedFile[Reading!Snapshot]}
  BY <1>3, <1>4, <1>7
<1>9. feedKnown' \in [Reading!Paths -> FeedMade' \cup {None}]  BY <1>2, <1>3, <1>5, <1>7
<1>10. FeedCurrent' \subseteq FeedCurrent \cup {body}
  BY <1>6, <1>8 DEF FeedCurrent
<1>11. FeedRenews  BY <1>2, <1>10 DEF FeedRenews
<1>12. FeedDigests'
  <2>1. \A c \in FeedBatches : feedKnown'[c] # None => feedKnown'[c] = feedFile'[c] /\ feedKnown'[c].items = FeedBatchItems[c]
    BY <1>2, <1>6, <1>8 DEF FeedInv, FeedDigests
  <2>2. ASSUME feedKnown'[Reading!Snapshot] # None,
               feedKnown'[Reading!Snapshot] # feedFile'[Reading!Snapshot]
        PROVE  feedKnown'[Reading!Snapshot] \notin FeedCurrent'
    <3>1. feedKnown'[Reading!Snapshot] = feedKnown[Reading!Snapshot]  BY <1>6, <1>8, <2>2
    <3>2. feedKnown[Reading!Snapshot] \in FeedMade  BY <1>4, <1>5, <2>2, <3>1
    <3>3. feedKnown[Reading!Snapshot] \notin FeedCurrent
      BY <1>6, <2>2, <3>1 DEF FeedInv, FeedDigests
    <3> QED  BY <1>2, <1>10, <3>1, <3>2, <3>3
  <2>3. \A c \in FeedBatches : feedFile'[c] # None => feedFile'[c] # feedFile'[Reading!Snapshot]
    BY <1>2, <1>4, <1>5, <1>6 DEF FeedInv, FeedDigests
  <2> QED  BY <2>1, <2>2, <2>3 DEF FeedDigests
<1>13. tag \in Reading!Bodies /\ tag \in FeedMade' /\ body.items = tag.items
  <2>1. CASE first  BY <1>2, <2>1
  <2>2. CASE ~first
    <3>1. feedKnown[b] \in FeedMade /\ feedKnown[b].items = FeedBatchItems[b]
      BY <1>4, <1>5, <2>2 DEF FeedInv, FeedDigests
    <3> QED  BY <1>2, <2>2, <3>1 DEF FeedMade
  <2> QED  BY <2>1, <2>2
<1> HIDE DEF tag
<1>14. /\ DOMAIN feedCache' \subseteq FeedMade' /\ \A t \in DOMAIN feedCache' : feedCache'[t] \in Reading!Bodies
  BY <1>2, <1>3, <1>13 DEF FeedInv, FeedTypes
<1>15. FeedCacheHolds'
  <2>1. CASE UNCHANGED feedCache  BY <1>11, <2>1, FeedCacheSame
  <2>2. CASE feedCache' = [t \in DOMAIN feedCache \cup {tag} |-> IF t = tag THEN body ELSE feedCache[t]]
    <3>1. ASSUME NEW t \in DOMAIN feedCache', t \in FeedCurrent', t # tag
          PROVE  feedCache'[t].items = t.items
      BY <1>11, <2>2, <3>1 DEF FeedInv, FeedTypes, FeedCacheHolds, FeedRenews
    <3> QED  BY <1>13, <2>2, <3>1 DEF FeedCacheHolds
  <2> QED  BY <1>3, <2>1, <2>2
<1>16. /\ feedOps' \in Seq(FeedOp) /\ (\A k \in DOMAIN feedOps' : feedOps'[k].tag \in FeedMade')
       /\ Len(feedOps') \in Nat /\ Len(feedOps) <= Len(feedOps')
       /\ \A k \in DOMAIN feedOps : feedOps'[k].tag = feedOps[k].tag /\ feedOps'[k].path = feedOps[k].path
       /\ FeedOpsHold'
  <2>1. CASE UNCHANGED feedOps
    <3>1. /\ feedOps' \in Seq(FeedOp) /\ Len(feedOps') \in Nat
          /\ (\A k \in DOMAIN feedOps' : feedOps'[k].tag \in FeedMade')
      BY <1>2, <2>1 DEF FeedInv, FeedTypes
    <3>2. ASSUME NEW k \in DOMAIN feedOps' PROVE FeedOpHolds(feedOps'[k], FeedCurrent')
      <4>1. feedOps'[k].tag \in FeedMade /\ FeedOpHolds(feedOps'[k], FeedCurrent)
        BY <2>1, <3>2 DEF FeedInv, FeedTypes, FeedOpsHold
      <4> QED  BY <1>11, <4>1, FeedOpsKept
    <3> QED  BY <2>1, <3>1, <3>2 DEF FeedOpsHold
  <2>2. CASE feedOps' = Append(feedOps, o)
    <3>1. <<>> \in Seq(FeedValues) /\ Len(<<>>) = 0 /\ "open" \in FeedStates  BY DEF FeedStates
    <3>2. o \in FeedOp /\ o.tag = tag /\ o.items = <<>> /\ o.done = 0 /\ o.state = "open"
      BY <1>4, <1>13, <3>1 DEF FeedOp
    <3>3. Len(tag.items) \in Nat  BY <1>13, FeedBodyFacts
    <3> HIDE DEF o
    <3>4. FeedOpHolds(o, FeedCurrent')  BY <3>1, <3>2, <3>3 DEF FeedOpHolds, FeedBegins
    <3> QED  BY <1>2, <1>11, <1>13, <2>2, <3>2, <3>4, FeedOpAdded
  <2> QED  BY <1>3, <2>1, <2>2
<1>17. FeedReadHolds'  BY <1>3, <1>11, <1>16, FeedReadKept
<1>18. (feedRead \in FeedReadOf)' /\ (feedRead.tag \in FeedMade \cup {None})'
  BY <1>2, <1>3 DEF FeedInv, FeedTypes
<1>19. Reading!AckedIsTheBody'  BY <1>3 DEF FeedInv, Reading!AckedIsTheBody
<1>20. feedStamp' \in Nat  BY <1>1 DEF FeedInv, FeedTypes
<1> QED
  BY <1>6, <1>9, <1>12, <1>14, <1>15, <1>16, <1>17, <1>18, <1>19, <1>20 DEF FeedInv, FeedTypes

LEMMA FeedRestartKeeps == ASSUME FeedInv, Reading!Restart PROVE FeedInv'
<1>1. /\ UNCHANGED <<feedFile, feedKnown, feedOps, feedRead, feedStamp, feedDelivered>>
      /\ feedCache' = <<>>
  BY DEF Reading!Restart
<1>2. FeedRenews /\ FeedMade' = FeedMade /\ FeedCurrent' = FeedCurrent /\ FeedDigests'
  BY <1>1, FeedSteady
<1>3. DOMAIN feedCache' = {}  BY <1>1
<1>4. FeedCacheHolds'  BY <1>3 DEF FeedCacheHolds
<1>5. FeedOpsHold' /\ Reading!AckedIsTheBody'
  BY <1>1, <1>2 DEF FeedInv, FeedOpsHold, Reading!AckedIsTheBody
<1>6. FeedReadHolds'
  <2>1. Len(feedOps') \in Nat  BY <1>1 DEF FeedInv, FeedTypes
  <2> QED  BY <1>1, <1>2, <2>1, FeedReadKept
<1> QED  BY <1>1, <1>2, <1>3, <1>4, <1>5, <1>6 DEF FeedInv, FeedTypes

-----------------------------------------------------------------------------
(* The backend.                                                            *)

\* A step of the read alone.
LEMMA FeedReadSteps ==
    ASSUME FeedInv, UNCHANGED <<feedFile, feedKnown, feedOps, feedStamp, feedDelivered>>,
           FeedReadHolds',
           feedRead' \in FeedReadOf, feedRead'.tag \in FeedMade \cup {None},
           \/ UNCHANGED feedCache
           \/ /\ DOMAIN feedCache' \subseteq FeedMade /\ (\A t \in DOMAIN feedCache' : feedCache'[t] \in Reading!Bodies)
              /\ FeedCacheHolds'
    PROVE  FeedInv'
<1>1. FeedRenews /\ FeedMade' = FeedMade /\ FeedCurrent' = FeedCurrent /\ FeedDigests'
  BY FeedSteady
<1>2. FeedCacheHolds'  BY <1>1, FeedCacheSame
<1>3. DOMAIN feedCache' \subseteq FeedMade' /\ \A t \in DOMAIN feedCache' : feedCache'[t] \in Reading!Bodies
  BY <1>1 DEF FeedInv, FeedTypes
<1>4. FeedOpsHold' /\ Reading!AckedIsTheBody'
  BY <1>1 DEF FeedInv, FeedOpsHold, Reading!AckedIsTheBody
<1> QED  BY <1>1, <1>2, <1>3, <1>4 DEF FeedInv, FeedTypes

LEMMA FeedBeginKeeps == ASSUME FeedInv, NEW i \in 0..Len(feedOps), Reading!Begin(i) PROVE FeedInv'
<1>1. /\ UNCHANGED <<feedFile, feedKnown, feedCache, feedOps, feedStamp, feedDelivered>>
      /\ feedRead' = [Reading!NoRead EXCEPT !.step = "page", !.op = i,
                      !.path = IF i = 0 THEN Reading!Snapshot ELSE feedOps[i].path]
  BY DEF Reading!Begin
<1>2. feedOps \in Seq(FeedOp) /\ Len(feedOps) \in Nat /\ DOMAIN feedOps = 1..Len(feedOps)
  BY DEF FeedInv, FeedTypes
<1>3. i # 0 => feedOps[i].path \in Reading!Paths
  <2>1. ASSUME i # 0 PROVE feedOps[i] \in FeedOp  BY <1>2, <2>1
  <2> QED  BY <2>1 DEF FeedOp
<1>4. <<>> \in Seq(FeedValues)  OBVIOUS
<1>5. /\ feedRead'.step = "page" /\ feedRead'.op = i /\ feedRead'.tag = None /\ feedRead'.got = <<>>
      /\ feedRead'.pages = 0 /\ feedRead'.path = IF i = 0 THEN Reading!Snapshot ELSE feedOps[i].path
  BY <1>1 DEF Reading!NoRead
<1>6. feedRead' \in FeedReadOf
  <2>1. i \in Nat /\ Reading!Snapshot \in Reading!Paths  BY <1>2 DEF Reading!Paths
  <2>2. (IF i = 0 THEN Reading!Snapshot ELSE feedOps[i].path) \in Reading!Paths \cup {None}
    BY <1>3, <2>1
  <2> QED  BY <1>1, <1>4, <2>1, <2>2 DEF Reading!NoRead, FeedReadOf
<1>7. FeedReadHolds'  BY <1>1, <1>2, <1>5 DEF FeedReadHolds
<1> QED  BY <1>1, <1>5, <1>6, <1>7, FeedReadSteps

LEMMA FeedNotModifiedKeeps == ASSUME FeedInv, Reading!NotModified PROVE FeedInv'
<1>1. /\ UNCHANGED <<feedFile, feedKnown, feedCache, feedOps, feedStamp, feedDelivered>>
      /\ feedRead' = Reading!NoRead
  BY DEF Reading!NotModified, Reading!Leave
<1>2. feedOps' \in Seq(FeedOp)  BY <1>1 DEF FeedInv, FeedTypes
<1>3. FeedReadHolds' /\ feedRead' \in FeedReadOf  BY <1>1, <1>2, FeedNoReadHolds
<1> QED  BY <1>1, <1>3, FeedReadSteps DEF Reading!NoRead

LEMMA FeedStopKeeps == ASSUME FeedInv, Reading!Stop PROVE FeedInv'
<1>1. /\ UNCHANGED <<feedFile, feedKnown, feedCache, feedOps, feedStamp, feedDelivered>>
      /\ feedRead' = Reading!NoRead
  BY DEF Reading!Stop, Reading!Leave
<1>2. feedOps' \in Seq(FeedOp)  BY <1>1 DEF FeedInv, FeedTypes
<1>3. FeedReadHolds' /\ feedRead' \in FeedReadOf  BY <1>1, <1>2, FeedNoReadHolds
<1> QED  BY <1>1, <1>3, FeedReadSteps DEF Reading!NoRead

\* A step of the operations that publishes nothing and leaves the read as it is,
\* or ends it.
LEMMA FeedOpSteps ==
    ASSUME FeedInv, UNCHANGED <<feedFile, feedKnown, feedStamp, feedDelivered>>,
           UNCHANGED feedCache \/ FeedCacheHolds',
           DOMAIN feedCache' \subseteq FeedMade, \A t \in DOMAIN feedCache' : feedCache'[t] \in Reading!Bodies,
           feedRead' = feedRead \/ feedRead' = Reading!NoRead,
           feedOps' \in Seq(FeedOp), \A k \in DOMAIN feedOps' : feedOps'[k].tag \in FeedMade',
           Len(feedOps') \in Nat, Len(feedOps) <= Len(feedOps'),
           \A k \in DOMAIN feedOps : feedOps'[k].tag = feedOps[k].tag /\ feedOps'[k].path = feedOps[k].path,
           FeedOpsHold'
    PROVE  FeedInv'
<1>1. FeedRenews /\ FeedMade' = FeedMade /\ FeedCurrent' = FeedCurrent /\ FeedDigests'
  BY FeedSteady
<1>2. FeedCacheHolds'  BY <1>1, FeedCacheSame
<1>3. DOMAIN feedCache' \subseteq FeedMade'  BY <1>1
<1>4. Reading!AckedIsTheBody'  BY DEF FeedInv, Reading!AckedIsTheBody
<1>5. FeedReadHolds' /\ (feedRead \in FeedReadOf)' /\ (feedRead.tag \in FeedMade \cup {None})'
  <2>1. CASE feedRead' = feedRead
    <3>1. FeedReadHolds'  BY <1>1, <2>1, FeedReadKept
    <3> QED  BY <1>1, <2>1, <3>1 DEF FeedInv, FeedTypes
  <2>2. CASE feedRead' = Reading!NoRead  BY <2>2, FeedNoReadHolds
  <2> QED  BY <2>1, <2>2
<1> QED  BY <1>1, <1>2, <1>3, <1>4, <1>5 DEF FeedInv, FeedTypes

LEMMA FeedEndedKeeps ==
    ASSUME FeedInv, NEW st \in {"failed", "committed"}, Reading!Leave(Reading!Ended(st)),
           UNCHANGED <<feedFile, feedKnown, feedStamp, feedDelivered>>, UNCHANGED feedCache \/ FeedCacheHolds',
           DOMAIN feedCache' \subseteq FeedMade, \A t \in DOMAIN feedCache' : feedCache'[t] \in Reading!Bodies,
           st = "committed" => /\ feedRead.op # 0
                               /\ feedOps[feedRead.op].tag \in FeedCurrent =>
                                     feedOps[feedRead.op].items = feedOps[feedRead.op].tag.items
    PROVE  FeedInv'
<1>1. feedRead' = Reading!NoRead /\ feedOps' = Reading!Ended(st)  BY DEF Reading!Leave
<1>2. feedOps \in Seq(FeedOp) /\ Len(feedOps) \in Nat /\ DOMAIN feedOps = 1..Len(feedOps)
  BY DEF FeedInv, FeedTypes
<1>4. CASE feedRead.op = 0
  <2>1. UNCHANGED feedOps  BY <1>1, <1>4 DEF Reading!Ended
  <2>2. FeedReadHolds' /\ feedRead' \in FeedReadOf  BY <1>1, <1>2, <2>1, FeedNoReadHolds
  <2> QED  BY <1>1, <2>1, <2>2, FeedReadSteps DEF Reading!NoRead
<1>5. CASE feedRead.op # 0
  <2>1. PICK i : i = feedRead.op  OBVIOUS
  <2>2. i \in DOMAIN feedOps  BY <1>2, <1>5, <2>1 DEF FeedInv, FeedReadHolds
  <2>3. feedOps' = [feedOps EXCEPT ![i].state = st] /\ st \in FeedStates
    BY <1>1, <1>5, <2>1 DEF Reading!Ended, FeedStates
  <2>4. FeedRenews  BY FeedSteady
  <2>5. /\ feedOps' \in Seq(FeedOp) /\ (\A k \in DOMAIN feedOps' : feedOps'[k].tag \in FeedMade')
        /\ Len(feedOps') = Len(feedOps)
        /\ \A k \in DOMAIN feedOps : feedOps'[k].tag = feedOps[k].tag /\ feedOps'[k].path = feedOps[k].path
        /\ FeedOpsHold'
    BY <2>1, <2>2, <2>3, <2>4, FeedStateChanged
  <2> QED  BY <1>1, <1>2, <2>5, FeedOpSteps
<1> QED  BY <1>4, <1>5

LEMMA FeedCacheTyped == FeedInv => DOMAIN feedCache \subseteq FeedMade /\ \A t \in DOMAIN feedCache : feedCache[t] \in Reading!Bodies
BY DEF FeedInv, FeedTypes

LEMMA FeedReadFailsKeeps == ASSUME FeedInv, Reading!ReadFails PROVE FeedInv'
<1>1. /\ UNCHANGED <<feedFile, feedKnown, feedCache, feedStamp, feedDelivered>>
      /\ Reading!Leave(Reading!Ended("failed"))
  BY DEF Reading!ReadFails
<1>2. DOMAIN feedCache' \subseteq FeedMade /\ \A t \in DOMAIN feedCache' : feedCache'[t] \in Reading!Bodies
  BY <1>1, FeedCacheTyped
<1> QED  BY <1>1, <1>2, FeedEndedKeeps

LEMMA FeedReadPageKeeps == ASSUME FeedInv, Reading!ReadPage PROVE FeedInv'
<1> DEFINE p    == feedRead.path
           tag  == Reading!Tag(p)
           got  == feedRead.got \o Reading!Page(p)
           more == Reading!HasMore(p)
           o    == [path |-> Reading!Snapshot, tag |-> tag, items |-> <<>>, done |-> 0, state |-> "open"]
<1>1. /\ feedRead.step = "page" /\ Reading!IsServed(p) /\ Reading!CursorHolds(p)
      /\ UNCHANGED <<feedFile, feedKnown, feedStamp, feedDelivered>>
      /\ \/ UNCHANGED feedCache
         \/ feedCache' = [t \in {tag} |-> feedFile[p]]
      /\ \/ more /\ feedRead' = [feedRead EXCEPT !.tag = tag, !.got = got, !.pages = @ + 1] /\ UNCHANGED feedOps
         \/ ~more /\ feedRead.op = 0 /\ Reading!Leave(Reading!Adopted(tag, got))
         \/ ~more /\ feedRead.op # 0 /\ Reading!Leave(Reading!Ended("failed"))
         \/ /\ ~more /\ feedRead.op # 0 /\ feedOps[feedRead.op].tag = tag /\ UNCHANGED feedOps
            /\ feedRead' = [feedRead EXCEPT !.step = "import", !.tag = tag, !.got = got]
  BY DEF Reading!ReadPage
<1>2. /\ feedOps \in Seq(FeedOp) /\ Len(feedOps) \in Nat /\ DOMAIN feedOps = 1..Len(feedOps)
      /\ feedRead \in FeedReadOf
  BY DEF FeedInv, FeedTypes
<1>3. p \in Reading!Paths
  <2>1. CASE feedRead.op = 0  BY <1>1, <2>1 DEF FeedInv, FeedReadHolds, Reading!Paths
  <2>2. CASE feedRead.op # 0
    <3>1. feedRead.op \in DOMAIN feedOps  BY <1>2, <2>2 DEF FeedInv, FeedReadHolds
    <3>2. feedOps[feedRead.op] \in FeedOp  BY <1>2, <3>1
    <3> QED  BY <1>1, <2>2, <3>2 DEF FeedInv, FeedReadHolds, FeedOp
  <2> QED  BY <2>1, <2>2
<1>4. /\ tag \in FeedMade /\ Reading!Payload(p) \in Reading!Bodies /\ feedFile[p] \in Reading!Bodies
      /\ tag \in FeedCurrent => Reading!Payload(p).items = tag.items /\ feedFile[p] = tag
  BY <1>1, <1>3, FeedServes
<1>5. /\ tag \in Reading!Bodies /\ tag.items \in Seq(FeedValues)
      /\ Reading!Payload(p).items \in Seq(FeedValues)
  BY <1>4, FeedBodyFacts DEF FeedMade
<1>6. feedRead.got \in Seq(FeedValues) /\ feedRead.pages \in Nat  BY <1>2 DEF FeedReadOf
<1>7. tag \in FeedCurrent => FeedBegins(feedRead.got, tag.items)
  <2>1. CASE feedRead.pages = 0
    <3>1. feedRead.got = <<>>  BY <1>1, <2>1 DEF FeedInv, FeedReadHolds
    <3>2. Len(<<>>) = 0 /\ Len(tag.items) \in Nat  BY <1>5
    <3> QED  BY <3>1, <3>2 DEF FeedBegins
  <2>2. CASE feedRead.pages # 0  BY <1>1, <2>2 DEF FeedInv, FeedReadHolds, Reading!CursorHolds
  <2> QED  BY <2>1, <2>2
<1>8. FeedPageSize \in Nat \ {0}  BY BackendAssumption
<1>9. /\ got \in Seq(FeedValues)
      /\ FeedBegins(feedRead.got, Reading!Payload(p).items) => FeedBegins(got, Reading!Payload(p).items)
      /\ FeedBegins(feedRead.got, Reading!Payload(p).items) /\ ~more => got = Reading!Payload(p).items
  BY <1>5, <1>6, <1>8, FeedPageAfter DEF Reading!Page, Reading!HasMore
<1>10. tag \in FeedCurrent => FeedBegins(got, tag.items) /\ (~more => got = tag.items)
  BY <1>4, <1>7, <1>9
<1>11. FeedRenews /\ FeedMade' = FeedMade /\ FeedCurrent' = FeedCurrent  BY <1>1, FeedSteady
<1>12. /\ DOMAIN feedCache' \subseteq FeedMade
       /\ (\A t \in DOMAIN feedCache' : feedCache'[t] \in Reading!Bodies)
       /\ FeedCacheHolds'
  <2>1. CASE UNCHANGED feedCache  BY <1>11, <2>1, FeedCacheSame, FeedCacheTyped
  <2>2. CASE feedCache' = [t \in {tag} |-> feedFile[p]]
    <3>1. DOMAIN feedCache' = {tag} /\ feedCache'[tag] = feedFile[p]  BY <2>2
    <3> QED  BY <1>4, <1>11, <3>1 DEF FeedCacheHolds
  <2> QED  BY <1>1, <2>1, <2>2
<1> HIDE DEF tag, got, more
<1>13. CASE more /\ feedRead' = [feedRead EXCEPT !.tag = tag, !.got = got, !.pages = @ + 1] /\ UNCHANGED feedOps
  <2>1. /\ feedRead' \in FeedReadOf /\ feedRead'.step = "page" /\ feedRead'.tag = tag
        /\ feedRead'.got = got
        /\ feedRead'.pages = feedRead.pages + 1 /\ feedRead'.op = feedRead.op
        /\ feedRead'.path = feedRead.path
    <3>1. /\ feedRead.pages + 1 \in Nat /\ got \in Seq(FeedValues) /\ tag \in Reading!Bodies
          /\ feedRead \in FeedReadOf
      BY <1>2, <1>5, <1>6, <1>9
    <3> QED  BY <1>1, <1>13, <3>1 DEF FeedReadOf
  <2>2. FeedReadHolds'  BY <1>1, <1>5, <1>6, <1>10, <1>11, <1>13, <2>1 DEF FeedInv, FeedReadHolds
  <2> QED  BY <1>1, <1>4, <1>12, <1>13, <2>1, <2>2, FeedReadSteps
<1>14. CASE ~more /\ feedRead.op = 0 /\ Reading!Leave(Reading!Adopted(tag, got))
  <2>1. feedRead' = Reading!NoRead /\ (UNCHANGED feedOps \/ feedOps' = Append(feedOps, o))
    BY <1>14 DEF Reading!Leave, Reading!Adopted
  <2>2. /\ feedOps' \in Seq(FeedOp) /\ (\A k \in DOMAIN feedOps' : feedOps'[k].tag \in FeedMade')
        /\ Len(feedOps') \in Nat /\ Len(feedOps) <= Len(feedOps')
        /\ \A k \in DOMAIN feedOps : feedOps'[k].tag = feedOps[k].tag /\ feedOps'[k].path = feedOps[k].path
        /\ FeedOpsHold'
    <3>1. CASE UNCHANGED feedOps  BY <1>2, <1>11, <3>1 DEF FeedInv, FeedTypes, FeedOpsHold
    <3>2. CASE feedOps' = Append(feedOps, o)
      <4>1. /\ <<>> \in Seq(FeedValues) /\ Len(<<>>) = 0 /\ "open" \in FeedStates
            /\ Reading!Snapshot \in Reading!Paths
        BY DEF FeedStates, Reading!Paths
      <4>2. o \in FeedOp /\ o.tag = tag /\ o.items = <<>> /\ o.done = 0 /\ o.state = "open"
        BY <1>5, <4>1 DEF FeedOp
      <4>3. Len(tag.items) \in Nat  BY <1>5
      <4> HIDE DEF o
      <4>4. FeedOpHolds(o, FeedCurrent')  BY <4>1, <4>2, <4>3 DEF FeedOpHolds, FeedBegins
      <4>5. o.tag \in FeedMade' /\ FeedMade \subseteq FeedMade'  BY <1>4, <1>11, <4>2
      <4> QED  BY <1>11, <3>2, <4>2, <4>4, <4>5, FeedOpAdded
    <3> QED  BY <2>1, <3>1, <3>2
  <2> QED  BY <1>1, <1>12, <2>1, <2>2, FeedOpSteps
<1>15. CASE feedRead.op # 0 /\ Reading!Leave(Reading!Ended("failed"))
  BY <1>1, <1>12, <1>15, FeedEndedKeeps
<1>16. CASE /\ ~more /\ feedRead.op # 0 /\ feedOps[feedRead.op].tag = tag /\ UNCHANGED feedOps
            /\ feedRead' = [feedRead EXCEPT !.step = "import", !.tag = tag, !.got = got]
  <2>1. /\ feedRead' \in FeedReadOf /\ feedRead'.step = "import" /\ feedRead'.tag = tag
        /\ feedRead'.got = got
        /\ feedRead'.pages = feedRead.pages /\ feedRead'.op = feedRead.op
        /\ feedRead'.path = feedRead.path
    BY <1>1, <1>2, <1>5, <1>6, <1>9, <1>16 DEF FeedReadOf
  <2>2. FeedReadHolds'  BY <1>1, <1>10, <1>11, <1>16, <2>1 DEF FeedInv, FeedReadHolds
  <2> QED  BY <1>1, <1>4, <1>12, <1>16, <2>1, <2>2, FeedReadSteps
<1> QED  BY <1>1, <1>13, <1>14, <1>15, <1>16

\* What a read imports.
LEMMA FeedReadOfOp ==
    ASSUME FeedInv, feedRead.step = "import"
    PROVE  /\ feedRead.op \in DOMAIN feedOps /\ feedOps[feedRead.op] \in FeedOp
           /\ feedRead.got \in Seq(FeedValues)
           /\ feedOps[feedRead.op].tag \in Reading!Bodies
           /\ feedOps[feedRead.op].tag.items \in Seq(FeedValues)
           /\ FeedOpHolds(feedOps[feedRead.op], FeedCurrent)
           /\ feedOps[feedRead.op].tag \in FeedCurrent => feedRead.got = feedOps[feedRead.op].tag.items
<1>1. /\ feedOps \in Seq(FeedOp) /\ Len(feedOps) \in Nat /\ DOMAIN feedOps = 1..Len(feedOps)
      /\ feedRead \in FeedReadOf
  BY DEF FeedInv, FeedTypes
<1>2. feedRead.op \in DOMAIN feedOps /\ feedRead.tag = feedOps[feedRead.op].tag
  BY <1>1 DEF FeedInv, FeedReadHolds
<1>3. feedOps[feedRead.op] \in FeedOp /\ feedRead.got \in Seq(FeedValues)
  BY <1>1, <1>2 DEF FeedReadOf
<1>4. feedOps[feedRead.op].tag \in Reading!Bodies  BY <1>3 DEF FeedOp
<1>5. feedOps[feedRead.op].tag.items \in Seq(FeedValues)  BY <1>4, FeedBodyFacts
<1> QED  BY <1>2, <1>3, <1>4, <1>5 DEF FeedInv, FeedReadHolds, FeedOpsHold

LEMMA FeedImportKeeps == ASSUME FeedInv, Reading!Import PROVE FeedInv'
<1>1. PICK i : i = feedRead.op  OBVIOUS
<1> DEFINE op == feedOps[i]
           x  == feedRead.got[op.done + 1]
           o  == [op EXCEPT !.done = @ + 1, !.items = Append(@, x)]
<1>2. /\ i \in DOMAIN feedOps /\ op \in FeedOp /\ feedRead.got \in Seq(FeedValues)
      /\ op.tag \in Reading!Bodies /\ op.tag.items \in Seq(FeedValues)
      /\ FeedOpHolds(op, FeedCurrent)
      /\ op.tag \in FeedCurrent => feedRead.got = op.tag.items
  BY <1>1, FeedReadOfOp DEF Reading!Import
<1>3. op.done \in Nat /\ op.items \in Seq(FeedValues) /\ op.state \in FeedStates  BY <1>2 DEF FeedOp
<1>4. op.done < Len(feedRead.got) /\ Len(feedRead.got) \in Nat  BY <1>1, <1>2 DEF Reading!Import
<1>5. /\ op.done + 1 \in 1..Len(feedRead.got) /\ Reading!From(op) = op.done + 1
      /\ Reading!From(op) <= Len(feedRead.got)
  BY <1>3, <1>4 DEF Reading!From
<1>6. x \in FeedValues  BY <1>2, <1>5
<1>7. feedOps' = [feedOps EXCEPT ![i] = o]  BY <1>1, <1>5 DEF Reading!Import
<1> HIDE DEF x, op
<1>8. /\ o \in FeedOp /\ o.tag = op.tag /\ o.path = op.path /\ o.done = op.done + 1
      /\ o.items = Append(op.items, x) /\ o.state = op.state
  <2>1. op.done + 1 \in Nat /\ Append(op.items, x) \in Seq(FeedValues)  BY <1>3, <1>6
  <2>2. op \in FeedOp  BY <1>2
  <2> QED  BY <2>1, <2>2 DEF FeedOp
<1> HIDE DEF o
<1>9. FeedOpHolds(o, FeedCurrent)
  <2>1. SUFFICES ASSUME op.tag \in FeedCurrent
                 PROVE  /\ FeedBegins(o.items, op.tag.items) /\ Len(o.items) = o.done
                        /\ op.state # "committed"
    BY <1>8 DEF FeedOpHolds
  <2>2. PICK items : items = op.tag.items  OBVIOUS
  <2>3. /\ FeedBegins(op.items, items) /\ Len(op.items) = op.done
        /\ op.state = "committed" => op.items = items
    BY <1>2, <2>1, <2>2 DEF FeedOpHolds
  <2>4. feedRead.got = items /\ x = items[op.done + 1]  BY <1>2, <2>1, <2>2 DEF x
  <2>5. /\ Len(o.items) = op.done + 1 /\ o.items[op.done + 1] = x
        /\ \A k \in 1..op.done : o.items[k] = op.items[k]
    BY <1>3, <1>6, <1>8, <2>3
  <2>6. FeedBegins(o.items, items)
    <3>1. Len(o.items) <= Len(items)  BY <1>3, <1>4, <1>5, <2>4, <2>5
    <3>2. ASSUME NEW k \in 1..Len(o.items) PROVE o.items[k] = items[k]
      <4>1. k = op.done + 1 \/ k \in 1..op.done  BY <1>3, <2>5
      <4> QED  BY <2>3, <2>4, <2>5, <4>1 DEF FeedBegins
    <3> QED  BY <3>1, <3>2 DEF FeedBegins
  <2>7. op.state # "committed"  BY <1>3, <1>4, <2>3, <2>4
  <2> QED  BY <1>8, <2>2, <2>5, <2>6, <2>7
<1>10. /\ UNCHANGED <<feedFile, feedKnown, feedCache, feedStamp, feedDelivered>>
       /\ (feedRead' = feedRead \/ feedRead' = Reading!NoRead)
  BY DEF Reading!Import
<1>11. FeedRenews  BY <1>10, FeedSteady
<1>12. o.tag = feedOps[i].tag /\ o.path = feedOps[i].path  BY <1>8 DEF op
<1>13. /\ feedOps' \in Seq(FeedOp) /\ (\A k \in DOMAIN feedOps' : feedOps'[k].tag \in FeedMade')
       /\ Len(feedOps') = Len(feedOps) /\ Len(feedOps) \in Nat
       /\ \A k \in DOMAIN feedOps : feedOps'[k].tag = feedOps[k].tag /\ feedOps'[k].path = feedOps[k].path
       /\ FeedOpsHold'
  BY <1>2, <1>7, <1>8, <1>9, <1>10, <1>11, <1>12, FeedOpChanged
<1>14. DOMAIN feedCache' \subseteq FeedMade /\ \A t \in DOMAIN feedCache' : feedCache'[t] \in Reading!Bodies
  BY <1>10, FeedCacheTyped
<1> QED  BY <1>10, <1>13, <1>14, FeedOpSteps

LEMMA FeedCommitKeeps == ASSUME FeedInv, Reading!Commit PROVE FeedInv'
<1>1. /\ UNCHANGED <<feedFile, feedKnown, feedCache, feedStamp, feedDelivered>>
      /\ Reading!Leave(Reading!Ended("committed"))
      /\ feedRead.step = "import" /\ feedOps[feedRead.op].done >= Len(feedRead.got)
  BY DEF Reading!Commit
<1>2. PICK i : i = feedRead.op  OBVIOUS
<1>3. /\ i \in DOMAIN feedOps /\ feedOps[i] \in FeedOp /\ feedRead.got \in Seq(FeedValues)
      /\ feedOps[i].tag.items \in Seq(FeedValues) /\ FeedOpHolds(feedOps[i], FeedCurrent)
      /\ feedOps[i].tag \in FeedCurrent => feedRead.got = feedOps[i].tag.items
  BY <1>1, <1>2, FeedReadOfOp
<1>4. i # 0  BY <1>3 DEF FeedInv, FeedTypes
<1>5. ASSUME feedOps[i].tag \in FeedCurrent PROVE feedOps[i].items = feedOps[i].tag.items
  <2>1. PICK s, t : s = feedOps[i].items /\ t = feedOps[i].tag.items  OBVIOUS
  <2>2. s \in Seq(FeedValues) /\ t \in Seq(FeedValues) /\ feedOps[i].done \in Nat
    BY <1>3, <2>1 DEF FeedOp
  <2>3. FeedBegins(s, t) /\ Len(s) = feedOps[i].done  BY <1>3, <1>5, <2>1 DEF FeedOpHolds
  <2>4. Len(s) >= Len(t)  BY <1>1, <1>2, <1>3, <1>5, <2>1, <2>3
  <2>5. Len(s) = Len(t)  BY <2>2, <2>3, <2>4 DEF FeedBegins
  <2>6. \A k \in 1..Len(t) : s[k] = t[k]  BY <2>3, <2>5 DEF FeedBegins
  <2> QED  BY <2>1, <2>2, <2>5, <2>6, FeedSeqEqual
<1>6. DOMAIN feedCache' \subseteq FeedMade /\ \A t \in DOMAIN feedCache' : feedCache'[t] \in Reading!Bodies
  BY <1>1, FeedCacheTyped
<1> QED  BY <1>1, <1>2, <1>4, <1>5, <1>6, FeedEndedKeeps

LEMMA FeedAcknowledgeFailsKeeps ==
    ASSUME FeedInv, NEW i \in DOMAIN feedOps, Reading!AcknowledgeFails(i)
    PROVE  FeedInv'
<1>1. /\ UNCHANGED <<feedFile, feedKnown, feedCache, feedRead, feedStamp, feedDelivered>>
      /\ feedOps' = [feedOps EXCEPT ![i].state = "failed"] /\ "failed" \in FeedStates
  BY DEF Reading!AcknowledgeFails, FeedStates
<1>2. FeedRenews  BY <1>1, FeedSteady
<1>3. /\ feedOps' \in Seq(FeedOp) /\ (\A k \in DOMAIN feedOps' : feedOps'[k].tag \in FeedMade')
      /\ Len(feedOps') = Len(feedOps) /\ Len(feedOps) \in Nat
      /\ \A k \in DOMAIN feedOps : feedOps'[k].tag = feedOps[k].tag /\ feedOps'[k].path = feedOps[k].path
      /\ FeedOpsHold'
  BY <1>1, <1>2, FeedStateChanged
<1>4. DOMAIN feedCache' \subseteq FeedMade /\ \A t \in DOMAIN feedCache' : feedCache'[t] \in Reading!Bodies
  BY <1>1, FeedCacheTyped
<1> QED  BY <1>1, <1>3, <1>4, FeedOpSteps

LEMMA FeedAcknowledgeKeeps ==
    ASSUME FeedInv, NEW i \in DOMAIN feedOps, Reading!Acknowledge(i)
    PROVE  FeedInv'
<1>1. /\ feedOps[i].state = "committed" /\ Reading!IsCurrent(feedOps[i])
      /\ UNCHANGED <<feedFile, feedCache, feedRead, feedStamp>>
      /\ \/ UNCHANGED feedKnown
         \/ feedKnown' = [p \in Reading!Paths |-> IF p = Reading!Snapshot THEN feedFile[p] ELSE None]
      /\ feedOps' = [feedOps EXCEPT ![i].state = "completed"] /\ "completed" \in FeedStates
      /\ feedDelivered' = feedDelivered \cup {[items |-> feedOps[i].items, tag |-> feedOps[i].tag]}
  BY DEF Reading!Acknowledge, FeedStates
<1>2. /\ Reading!Snapshot \in Reading!Paths
      /\ (\A b \in FeedBatches : b \in Reading!Paths /\ b # Reading!Snapshot)
  BY BackendAssumption DEF Reading!Paths
<1>3. feedOps[i] \in FeedOp /\ FeedOpHolds(feedOps[i], FeedCurrent)
  BY DEF FeedInv, FeedTypes, FeedOpsHold
<1>4. feedOps[i].tag \in FeedCurrent
  <2>1. feedOps[i].path \in Reading!Paths  BY <1>3 DEF FeedOp
  <2> QED  BY <1>1, <1>2, <2>1 DEF Reading!IsCurrent, FeedCurrent, Reading!Paths
<1>5. feedOps[i].items = feedOps[i].tag.items  BY <1>1, <1>3, <1>4 DEF FeedOpHolds
<1>6. Reading!AckedIsTheBody'  BY <1>1, <1>5 DEF FeedInv, Reading!AckedIsTheBody
<1>7. FeedMade' = FeedMade /\ None \notin FeedMade  BY <1>1, BackendAssumption DEF FeedMade
<1>8. \/ UNCHANGED feedKnown
      \/ feedKnown'[Reading!Snapshot] = feedFile[Reading!Snapshot] /\ \A b \in FeedBatches : feedKnown'[b] = None
  BY <1>1, <1>2
<1>9. FeedCurrent' \subseteq FeedCurrent \cup {None}  BY <1>1, <1>8 DEF FeedCurrent
<1>10. FeedRenews  BY <1>7, <1>9 DEF FeedRenews
<1>11. feedKnown' \in [Reading!Paths -> FeedMade' \cup {None}]  BY <1>1, <1>7 DEF FeedInv, FeedTypes
<1>12. FeedDigests'
  <2>1. CASE UNCHANGED feedKnown  BY <1>1, <2>1, <1>7, FeedSteady
  <2>2. CASE feedKnown'[Reading!Snapshot] = feedFile[Reading!Snapshot] /\ \A b \in FeedBatches : feedKnown'[b] = None
    BY <1>1, <2>2 DEF FeedInv, FeedDigests
  <2> QED  BY <1>8, <2>1, <2>2
<1>13. FeedCacheHolds'  BY <1>1, <1>10, FeedCacheSame
<1>14. /\ feedOps' \in Seq(FeedOp) /\ (\A k \in DOMAIN feedOps' : feedOps'[k].tag \in FeedMade')
       /\ Len(feedOps') = Len(feedOps) /\ Len(feedOps) \in Nat
       /\ \A k \in DOMAIN feedOps : feedOps'[k].tag = feedOps[k].tag /\ feedOps'[k].path = feedOps[k].path
       /\ FeedOpsHold'
  BY <1>1, <1>10, FeedStateChanged
<1>15. FeedReadHolds'  BY <1>1, <1>10, <1>14, FeedReadKept
<1> QED
  BY <1>1, <1>6, <1>7, <1>11, <1>12, <1>13, <1>14, <1>15 DEF FeedInv, FeedTypes

-----------------------------------------------------------------------------
LEMMA FeedStep == FeedInv /\ (Reading!Next \/ UNCHANGED feedVars) => FeedInv'
<1> SUFFICES ASSUME FeedInv, Reading!Next \/ UNCHANGED feedVars PROVE FeedInv'  OBVIOUS
<1>1. CASE UNCHANGED feedVars
  <2>1. UNCHANGED <<feedFile, feedKnown, feedCache, feedOps, feedRead, feedStamp, feedDelivered>>
    BY <1>1 DEF feedVars
  <2>2. FeedRenews /\ FeedCurrent' = FeedCurrent  BY <2>1, FeedSteady
  <2>3. FeedReadHolds'  BY <2>1, <2>2 DEF FeedInv, FeedReadHolds
  <2>4. feedRead' \in FeedReadOf /\ feedRead'.tag \in FeedMade \cup {None}
    BY <2>1 DEF FeedInv, FeedTypes
  <2> QED  BY <2>1, <2>3, <2>4, FeedReadSteps
<1>2. CASE Reading!Next
  <2>1. CASE \E whole \in BOOLEAN, s \in FeedSnapshots : Reading!PublishLegacy(s, whole)
    BY <2>1, FeedPublishLegacyKeeps
  <2>2. CASE \E whole \in BOOLEAN, b \in FeedBatches : Reading!PublishBatch(b, whole)
    BY <2>2, FeedPublishBatchKeeps
  <2>3. CASE \E i \in 0..Len(feedOps) : Reading!Begin(i)  BY <2>3, FeedBeginKeeps
  <2>4. CASE \E i \in DOMAIN feedOps : Reading!Acknowledge(i)  BY <2>4, FeedAcknowledgeKeeps
  <2>5. CASE \E i \in DOMAIN feedOps : Reading!AcknowledgeFails(i)
    BY <2>5, FeedAcknowledgeFailsKeeps
  <2>6. CASE Reading!Restart  BY <2>6, FeedRestartKeeps
  <2>7. CASE Reading!NotModified  BY <2>7, FeedNotModifiedKeeps
  <2>8. CASE Reading!ReadFails  BY <2>8, FeedReadFailsKeeps
  <2>9. CASE Reading!ReadPage  BY <2>9, FeedReadPageKeeps
  <2>10. CASE Reading!Import  BY <2>10, FeedImportKeeps
  <2>11. CASE Reading!Commit  BY <2>11, FeedCommitKeeps
  <2>12. CASE Reading!Stop  BY <2>12, FeedStopKeeps
  <2> QED
    BY <1>2, <2>1, <2>2, <2>3, <2>4, <2>5, <2>6, <2>7, <2>8, <2>9, <2>10, <2>11, <2>12, Zenon
       DEF Reading!Next
<1> QED  BY <1>1, <1>2

LEMMA FeedInit == Reading!Init => FeedInv
<1> SUFFICES ASSUME Reading!Init PROVE FeedInv  OBVIOUS
<1>1. /\ feedFile = [p \in Reading!Paths |-> None] /\ feedKnown = feedFile /\ feedCache = <<>>
      /\ feedOps = <<>>
      /\ feedRead = Reading!NoRead /\ feedStamp = 0 /\ feedDelivered = {}
  BY DEF Reading!Init
<1>2. /\ feedOps \in Seq(FeedOp) /\ Len(feedOps) = 0 /\ DOMAIN feedOps = {} /\ DOMAIN feedCache = {}
      /\ <<>> \in Seq(FeedValues)
  BY <1>1
<1>3. 0 \in 0..Len(feedOps)  BY <1>2
<1>4. feedRead \in FeedReadOf /\ feedRead.tag = None /\ feedRead.op = 0 /\ feedRead.step = "idle"
  BY <1>1, <1>2 DEF Reading!NoRead, FeedReadOf
<1>5. FeedTypes  BY <1>1, <1>2, <1>4 DEF FeedTypes
<1>6. Reading!Snapshot \in Reading!Paths /\ (\A b \in FeedBatches : b \in Reading!Paths)
  BY DEF Reading!Paths
<1>7. FeedDigests  BY <1>1, <1>6 DEF FeedDigests
<1>8. FeedCacheHolds /\ FeedOpsHold /\ Reading!AckedIsTheBody
  BY <1>1, <1>2 DEF FeedCacheHolds, FeedOpsHold, Reading!AckedIsTheBody
<1>9. FeedReadHolds  BY <1>3, <1>4 DEF FeedReadHolds
<1> QED  BY <1>5, <1>7, <1>8, <1>9 DEF FeedInv

\* No more was published, read or imported than there may be.
FeedDoneWithin(ops) == \A i \in DOMAIN ops : ops[i].done <= Len(ops[i].items)

FeedCounts ==
    feedStamp <= FeedMaxStamp /\ feedRead.pages \in 0..FeedMaxPages /\ FeedDoneWithin(feedOps)

\* What counts in an operation are its items, which are fewer than what is done
\* of it only if it was just begun.
LEMMA FeedOpEnds ==
    ASSUME FeedInv, FeedCounts, NEW k, NEW s
    PROVE  FeedDoneWithin([feedOps EXCEPT ![k].state = s])
<1> DEFINE new == [feedOps EXCEPT ![k].state = s]
<1>1. feedOps \in Seq(FeedOp)  BY DEF FeedInv, FeedTypes
<1>2. DOMAIN new = DOMAIN feedOps  BY <1>1
<1>3. ASSUME NEW i \in DOMAIN feedOps
      PROVE  new[i].done = feedOps[i].done /\ new[i].items = feedOps[i].items
  <2>1. feedOps[i] \in FeedOp  BY <1>1
  <2>2. CASE i = k
    <3>1. new[i] = [feedOps[i] EXCEPT !.state = s]  BY <1>1, <2>2
    <3> HIDE DEF new
    <3> QED  BY <2>1, <3>1 DEF FeedOp
  <2>3. CASE i # k
    <3>1. new[i] = feedOps[i]  BY <1>1, <2>3
    <3> QED  BY <3>1
  <2> QED  BY <2>2, <2>3
<1> HIDE DEF new
<1>4. FeedDoneWithin(new)  BY <1>2, <1>3 DEF FeedCounts, FeedDoneWithin
<1> QED  BY <1>4 DEF new

LEMMA FeedOpBegins ==
    ASSUME FeedInv, FeedCounts, NEW op, op.done = 0, op.items = <<>>
    PROVE  FeedDoneWithin(Append(feedOps, op))
<1> DEFINE new == Append(feedOps, op)
<1>1. feedOps \in Seq(FeedOp) /\ Len(feedOps) \in Nat  BY DEF FeedInv, FeedTypes
<1>2. /\ DOMAIN new = DOMAIN feedOps \cup {Len(feedOps) + 1} /\ new[Len(feedOps) + 1] = op
      /\ \A i \in DOMAIN feedOps : new[i] = feedOps[i]
  BY <1>1
<1>3. Len(op.items) = 0  OBVIOUS
<1> HIDE DEF new
<1>4. FeedDoneWithin(new)  BY <1>2, <1>3 DEF FeedCounts, FeedDoneWithin
<1> QED  BY <1>4 DEF new

\* An import takes the next of what was read.
LEMMA FeedImportCounts == ASSUME FeedInv, FeedCounts, Reading!Import PROVE FeedCounts'
<1> DEFINE k   == feedRead.op
           op  == feedOps[k]
           new == IF Reading!From(op) <= Len(feedRead.got)
                  THEN Append(op.items, feedRead.got[Reading!From(op)]) ELSE op.items
           R   == [op EXCEPT !.done = @ + 1, !.items = new]
<1>1. /\ feedRead.step = "import" /\ op.done < Len(feedRead.got)
      /\ feedOps' = [feedOps EXCEPT ![k].done = @ + 1,
            ![k].items = IF Reading!From(op) <= Len(feedRead.got)
                         THEN Append(@, feedRead.got[Reading!From(op)]) ELSE @]
      /\ feedRead' = Reading!NoRead \/ feedRead' = feedRead
      /\ feedStamp' = feedStamp
  BY DEF Reading!Import
<1>2. /\ feedOps \in Seq(FeedOp) /\ Len(feedOps) \in Nat /\ feedRead \in FeedReadOf
      /\ k \in 0..Len(feedOps) /\ k # 0
  BY <1>1 DEF FeedInv, FeedTypes, FeedReadHolds
<1>3. k \in DOMAIN feedOps /\ op \in FeedOp  BY <1>2
<1>4. op.done \in Nat /\ op.items \in Seq(FeedValues) /\ feedRead.got \in Seq(FeedValues)
  BY <1>2, <1>3 DEF FeedOp, FeedReadOf
<1>5. Reading!From(op) = op.done + 1 /\ Reading!From(op) <= Len(feedRead.got)
  BY <1>1, <1>4 DEF Reading!From
<1>6. Len(new) = Len(op.items) + 1  BY <1>4, <1>5
<1>7. feedOps' = [feedOps EXCEPT ![k] = R]  BY <1>1, <1>3
<1> HIDE DEF new
<1>8. R.done = op.done + 1 /\ R.items = new  BY <1>3 DEF FeedOp
<1>9. op.done <= Len(op.items)  BY <1>3 DEF FeedCounts, FeedDoneWithin
<1>10. R.done <= Len(R.items)
  <2>1. Len(op.items) \in Nat  BY <1>4
  <2> HIDE DEF R, op
  <2> QED  BY <1>4, <1>6, <1>8, <1>9, <2>1
<1> HIDE DEF R, op
<1>11. FeedDoneWithin(feedOps')
  BY <1>2, <1>3, <1>7, <1>10 DEF FeedCounts, FeedDoneWithin
<1>12. feedRead'.pages \in 0..FeedMaxPages
  BY <1>1, Numbers DEF Reading!NoRead, FeedCounts
<1> QED  BY <1>1, <1>11, <1>12 DEF FeedCounts

\* Every step keeps the counts.
LEMMA FeedCountsStep ==
    FeedInv /\ FeedCounts /\ (Reading!Next \/ UNCHANGED feedVars) => FeedCounts'
<1> SUFFICES ASSUME FeedInv, FeedCounts, Reading!Next \/ UNCHANGED feedVars PROVE FeedCounts'
  OBVIOUS
<1>1. /\ feedStamp \in Nat /\ feedRead \in FeedReadOf /\ feedRead.pages \in Nat
  BY DEF FeedInv, FeedTypes, FeedReadOf
<1>2. Reading!NoRead.pages \in 0..FeedMaxPages  BY Numbers DEF Reading!NoRead
<1>3. ASSUME UNCHANGED <<feedStamp, feedOps, feedRead>> PROVE FeedCounts'
  BY <1>3 DEF FeedCounts
<1>4. CASE UNCHANGED feedVars  BY <1>3, <1>4 DEF feedVars
<1>5. ASSUME NEW s, NEW whole, Reading!PublishLegacy(s, whole) PROVE FeedCounts'
  BY <1>1, <1>5, Numbers DEF Reading!PublishLegacy, FeedCounts
<1>6. ASSUME NEW b, NEW whole, Reading!PublishBatch(b, whole) PROVE FeedCounts'
  <2>1. /\ feedStamp < FeedMaxStamp /\ feedStamp' = feedStamp + 1 /\ feedRead' = feedRead
        /\ \/ feedOps' = feedOps
           \/ \E op : op.done = 0 /\ op.items = <<>> /\ feedOps' = Append(feedOps, op)
    <3> DEFINE first == feedKnown[b] = None
               tag   == IF first THEN Reading!Body(FeedBatchItems[b], feedStamp + 1) ELSE feedKnown[b]
               op    == [path |-> b, tag |-> tag, items |-> <<>>, done |-> 0, state |-> "open"]
    <3>1. op.done = 0 /\ op.items = <<>>  OBVIOUS
    <3>2. /\ feedStamp < FeedMaxStamp /\ feedStamp' = feedStamp + 1 /\ feedRead' = feedRead
          /\ feedOps' = feedOps \/ feedOps' = Append(feedOps, op)
      BY <1>6 DEF Reading!PublishBatch
    <3> HIDE DEF op
    <3> QED  BY <3>1, <3>2
  <2>2. FeedDoneWithin(feedOps')  BY <2>1, FeedOpBegins DEF FeedCounts
  <2>3. feedStamp' <= FeedMaxStamp  BY <1>1, <2>1, Numbers
  <2> QED  BY <2>1, <2>2, <2>3 DEF FeedCounts
<1>7. ASSUME NEW i, Reading!Begin(i) PROVE FeedCounts'
  <2>1. feedStamp' = feedStamp /\ feedOps' = feedOps /\ feedRead'.pages = 0
    BY <1>7 DEF Reading!Begin, Reading!NoRead
  <2> QED  BY <2>1, Numbers DEF FeedCounts
<1>8. ASSUME NEW i, Reading!Acknowledge(i) \/ Reading!AcknowledgeFails(i) PROVE FeedCounts'
  <2>1. /\ feedStamp' = feedStamp /\ feedRead' = feedRead
        /\ \E s : feedOps' = [feedOps EXCEPT ![i].state = s]
    BY <1>8 DEF Reading!Acknowledge, Reading!AcknowledgeFails
  <2>2. PICK s : feedOps' = [feedOps EXCEPT ![i].state = s]  BY <2>1
  <2>3. FeedDoneWithin([feedOps EXCEPT ![i].state = s])  BY FeedOpEnds
  <2>4. FeedDoneWithin(feedOps')  BY <2>2, <2>3
  <2> QED  BY <2>1, <2>4 DEF FeedCounts
<1>9. CASE Reading!Restart  BY <1>3, <1>9 DEF Reading!Restart
<1>10. ASSUME NEW s, feedStamp' = feedStamp, feedRead' = Reading!NoRead,
              feedOps' = feedOps \/ feedOps' = Reading!Ended(s)
       PROVE  FeedCounts'
  <2>1. FeedDoneWithin(feedOps')  BY <1>10, FeedOpEnds DEF Reading!Ended, FeedCounts
  <2> QED  BY <1>2, <1>10, <2>1 DEF FeedCounts
<1>11. CASE Reading!NotModified \/ Reading!ReadFails \/ Reading!Commit \/ Reading!Stop
  BY <1>10, <1>11 DEF Reading!NotModified, Reading!ReadFails, Reading!Commit, Reading!Stop,
                      Reading!Leave
<1>12. CASE Reading!Import  BY <1>12, FeedImportCounts
<1>13. CASE Reading!ReadPage
  <2> DEFINE p    == feedRead.path
             got  == feedRead.got \o Reading!Page(p)
             more == [feedRead EXCEPT !.tag = Reading!Tag(p), !.got = got, !.pages = @ + 1]
             last == [feedRead EXCEPT !.step = "import", !.tag = Reading!Tag(p), !.got = got]
             op   == [path |-> Reading!Snapshot, tag |-> Reading!Tag(p), items |-> <<>>,
                      done |-> 0, state |-> "open"]
  <2>1. /\ feedStamp' = feedStamp /\ feedRead.pages < FeedMaxPages
        /\ \/ feedRead' = more /\ feedOps' = feedOps
           \/ feedRead' = last /\ feedOps' = feedOps
           \/ feedRead' = Reading!NoRead /\ (feedOps' = feedOps \/ feedOps' = Append(feedOps, op))
           \/ feedRead' = Reading!NoRead /\ feedOps' = Reading!Ended("failed")
    BY <1>13 DEF Reading!ReadPage, Reading!Leave, Reading!Adopted
  <2>2. op.done = 0 /\ op.items = <<>>  OBVIOUS
  <2> HIDE DEF p, got, op
  <2>3. more.pages = feedRead.pages + 1 /\ last.pages = feedRead.pages
    BY <1>1 DEF FeedReadOf
  <2> HIDE DEF more, last
  <2>4. CASE feedRead' \in {more, last} /\ feedOps' = feedOps
    BY <1>1, <2>1, <2>3, <2>4, Numbers DEF FeedCounts
  <2>5. CASE feedRead' = Reading!NoRead /\ feedOps' = Append(feedOps, op)
    <3>1. FeedDoneWithin(feedOps')  BY <2>2, <2>5, FeedOpBegins
    <3> QED  BY <1>2, <2>1, <2>5, <3>1 DEF FeedCounts
  <2> QED  BY <1>10, <2>1, <2>4, <2>5
<1> QED
  BY <1>4, <1>5, <1>6, <1>7, <1>8, <1>9, <1>11, <1>12, <1>13 DEF Reading!Next

LEMMA FeedCountsInit == Reading!Init => FeedCounts
<1> SUFFICES ASSUME Reading!Init PROVE FeedCounts
  OBVIOUS
<1>1. feedStamp = 0 /\ feedOps = <<>> /\ feedRead = Reading!NoRead  BY DEF Reading!Init
<1>2. DOMAIN feedOps = {} /\ feedRead.pages = 0  BY <1>1 DEF Reading!NoRead
<1> QED  BY <1>1, <1>2, Numbers DEF FeedCounts, FeedDoneWithin

\* Both say that every variable has its type.
LEMMA FeedTyped == FeedInv /\ FeedCounts /\ faults \in 0..MaxFaults => Reading!TypeOK
<1> SUFFICES ASSUME FeedInv, FeedCounts, faults \in 0..MaxFaults PROVE Reading!TypeOK
  OBVIOUS
<1>1. /\ \A p \in Reading!Paths : feedFile[p] # None => feedFile[p] \in Reading!Bodies
      /\ \A p \in Reading!Paths : feedKnown[p] # None => feedKnown[p] \in Reading!Bodies
      /\ DOMAIN feedCache \subseteq Reading!Bodies
  BY DEF FeedInv, FeedTypes, FeedMade
<1>2. ASSUME NEW i \in DOMAIN feedOps
      PROVE  /\ feedOps[i].path \in Reading!Paths /\ feedOps[i].done \in 0..Len(feedOps[i].items)
             /\ feedOps[i].state \in {"open", "committed", "completed", "failed"}
  <2>1. feedOps[i] \in FeedOp  BY DEF FeedInv, FeedTypes
  <2>2. /\ feedOps[i].path \in Reading!Paths /\ feedOps[i].done \in Nat
        /\ feedOps[i].items \in Seq(FeedValues) /\ feedOps[i].state \in FeedStates
    BY <2>1 DEF FeedOp
  <2>3. feedOps[i].done <= Len(feedOps[i].items) /\ Len(feedOps[i].items) \in Nat
    BY <2>2 DEF FeedCounts, FeedDoneWithin
  <2> QED  BY <2>2, <2>3 DEF FeedStates
<1>3. /\ feedRead.step \in {"idle", "page", "import"} /\ feedRead.pages \in 0..FeedMaxPages
      /\ feedRead.op \in 0..Len(feedOps)
  BY DEF FeedInv, FeedTypes, FeedReadHolds, FeedReadOf, FeedCounts
<1>4. feedStamp \in 0..FeedMaxStamp  BY Numbers DEF FeedInv, FeedTypes, FeedCounts
<1> QED  BY <1>1, <1>2, <1>3, <1>4 DEF Reading!TypeOK

-----------------------------------------------------------------------------
(* The services together.                                                  *)

FaultsBounded == faults \in 0..MaxFaults

\* A service that takes a step has no more faults than there may be.
LEMMA FaultsStep ==
    FaultsBounded
    /\ (Misp!Next \/ Import!Next \/ Sessions!Next \/ Reading!Next \/ UNCHANGED faults)
        => FaultsBounded'
<1> SUFFICES ASSUME FaultsBounded,
                    \/ Misp!Next \/ Import!Next \/ Sessions!Next \/ Reading!Next
                    \/ UNCHANGED faults
             PROVE  faults' = faults \/ (faults < MaxFaults /\ faults' = faults + 1)
  BY Numbers DEF FaultsBounded
<1>1. CASE Misp!Next
  <2>1. CASE \E e \in MispEvents, a \in MispAttributes : Misp!Change(e, a)
    BY <2>1 DEF Misp!Change
  <2>2. ASSUME NEW q \in MispRequests, NEW kind, NEW ids, Misp!Begin(q, kind, ids)
        PROVE  faults' = faults
    BY <2>2 DEF Misp!Begin
  <2>3. ASSUME NEW q \in MispRequests, NEW e, Misp!Take(q, e) \/ Misp!Skip(q, e)
        PROVE  faults' = faults
    BY <2>3 DEF Misp!Take, Misp!Skip
  <2>4. ASSUME NEW q \in MispRequests, NEW a, Misp!Post(q, a)
        PROVE  faults' = faults
    BY <2>4 DEF Misp!Post
  <2>5. ASSUME NEW q \in MispRequests,
               \/ Misp!Find(q) \/ Misp!Create(q) \/ Misp!Posted(q) \/ Misp!Verify(q)
        PROVE  faults' = faults
    BY <2>5 DEF Misp!Find, Misp!Create, Misp!Posted, Misp!Verify
  <2>6. ASSUME NEW q \in MispRequests,
               \/ \E a \in MispAttributes : Misp!Discard(q, a)
               \/ Misp!CallFails(q) \/ Misp!Dies(q)
        PROVE  Misp!Fault
    BY <2>6 DEF Misp!Discard, Misp!CallFails, Misp!Dies
  <2>7. Misp!Fault => faults < MaxFaults /\ faults' = faults + 1  BY DEF Misp!Fault
  <2> QED  BY <1>1, <2>1, <2>2, <2>3, <2>4, <2>5, <2>6, <2>7 DEF Misp!Next
<1>2. CASE Import!Next
  <2>1. ASSUME NEW x, Import!Rewrite(x) PROVE faults' = faults  BY <2>1 DEF Import!Rewrite
  <2>2. ASSUME NEW q \in ImportRequests, NEW x, NEW item, Import!Decide(q, x, item)
        PROVE  faults' = faults
    BY <2>2 DEF Import!Decide
  <2>3. ASSUME NEW q \in ImportRequests, NEW item,
               Import!ReadPage(q, item) \/ Import!Compare(q, item)
        PROVE  faults' = faults
    BY <2>3 DEF Import!ReadPage, Import!Compare
  <2>4. ASSUME NEW q \in ImportRequests,
               \/ Import!ReadDigest(q) \/ Import!CheckDigest(q) \/ Import!Match(q)
               \/ Import!ReadRow(q) \/ Import!WriteRow(q) \/ Import!Finish(q)
        PROVE  faults' = faults
    BY <2>4 DEF Import!ReadDigest, Import!CheckDigest, Import!Match, Import!ReadRow,
                Import!WriteRow, Import!Finish
  <2>5. ASSUME NEW q \in ImportRequests, Import!StepFails(q) \/ Import!Dies(q)
        PROVE  faults < MaxFaults /\ faults' = faults + 1
    BY <2>5 DEF Import!StepFails, Import!Dies, Import!Fault
  <2> QED  BY <1>2, <2>1, <2>2, <2>3, <2>4, <2>5 DEF Import!Next
<1>3. CASE Sessions!Next
  BY <1>3 DEF Sessions!Next, Sessions!Alert, Sessions!Begin, Sessions!SaveCursor,
              Sessions!Fail, Sessions!Upload, Sessions!StoreRecords, Sessions!Fault
<1>4. CASE Reading!Next
  BY <1>4 DEF Reading!Next, Reading!PublishLegacy, Reading!PublishBatch, Reading!Begin,
              Reading!Acknowledge, Reading!AcknowledgeFails, Reading!Restart,
              Reading!NotModified, Reading!ReadFails, Reading!ReadPage, Reading!Import,
              Reading!Commit, Reading!Stop, Reading!Fault
<1> QED  BY <1>1, <1>2, <1>3, <1>4

\* What the proofs keep of all services.
BackendInv ==
    /\ AccountInv /\ MispInv
    /\ ImportInv /\ ImportRunsOn
    /\ SensorInv
    /\ FeedInv /\ FeedCounts

\* Each service starts in its own invariant.
LEMMA BackendStarts == BackendInit => BackendInv
BY AccountInit, MispInitInv, ImportInit, ImportRunsInit, SensorInit, FeedInit,
   FeedCountsInit, BackendAssumption
   DEF BackendInit, BackendInv

\* A step is of one service, and leaves alone what the others keep.
LEMMA ServicesApart ==
    [BackendNext]_allVars =>
        /\ [Next]_vars
        /\ Users!Next \/ UNCHANGED accountVars
        /\ Misp!Next \/ UNCHANGED mispVars
        /\ Import!Next \/ UNCHANGED importVars
        /\ Sessions!Next \/ UNCHANGED sensorVars
        /\ Reading!Next \/ UNCHANGED feedVars
        /\ Misp!Next \/ Import!Next \/ Sessions!Next \/ Reading!Next \/ UNCHANGED faults
BY DEF BackendNext, allVars

\* What the deliveries keep says of the faults only how many there may be.
LEMMA MispRests == MispInv /\ FaultsBounded' /\ UNCHANGED mispVars => MispInv'
<1> SUFFICES ASSUME MispInv, FaultsBounded', UNCHANGED mispVars PROVE MispInv'
  OBVIOUS
<1>1. /\ mispEvent' = mispEvent /\ mispMisp' = mispMisp /\ mispReq' = mispReq
      /\ mispAudit' = mispAudit /\ mispStarted' = mispStarted
  BY DEF mispVars
<1>2. MispTypes'  BY <1>1 DEF MispInv, MispTypes, FaultsBounded, MispContents, MispEntry
<1>3. MispApart'  BY <1>1 DEF MispInv, MispApart
<1>4. ASSUME NEW q \in MispRequests PROVE MispLocal(q)'
  BY <1>1 DEF MispInv, MispLocal, MispOwned, MispWasRead, MispIsAt, MispKnows, Misp!Running
<1>5. Misp!DeliveredIsStored'  BY <1>1 DEF MispInv, Misp!DeliveredIsStored
<1> QED  BY <1>2, <1>3, <1>4, <1>5 DEF MispInv

\* Every step keeps the invariants of all services.
LEMMA BackendStep == BackendInv /\ [BackendNext]_allVars => BackendInv'
<1> SUFFICES ASSUME BackendInv, [BackendNext]_allVars PROVE BackendInv'
  OBVIOUS
<1>1. FaultsBounded  BY DEF BackendInv, MispInv, MispTypes, FaultsBounded
<1>2. FaultsBounded'  BY <1>1, ServicesApart, FaultsStep
<1>3. AccountInv'  BY ServicesApart, AccountStep DEF BackendInv
<1>4. MispInv'  BY <1>2, ServicesApart, MispStep, MispRests, BackendAssumption DEF BackendInv
<1>5. ImportInv' /\ ImportRunsOn'  BY ServicesApart, ImportStep, ImportRunsStep DEF BackendInv
<1>6. SensorInv'  BY ServicesApart, SensorStep DEF BackendInv
<1>7. FeedInv' /\ FeedCounts'  BY ServicesApart, FeedStep, FeedCountsStep DEF BackendInv
<1> QED  BY <1>3, <1>4, <1>5, <1>6, <1>7 DEF BackendInv

\* The invariants hold in every behaviour of the backend.
LEMMA BackendAlways == BackendSpec => []BackendInv
BY BackendStarts, BackendStep, PTL DEF BackendSpec

\* The feed of the Gateway is as it is on its own.
LEMMA FeedIsTheFeed == BackendSpec => Spec
<1>1. BackendInit => Init  BY DEF BackendInit
<1>2. [BackendNext]_allVars => [Next]_vars  BY ServicesApart
<1> QED  BY <1>1, <1>2, PTL DEF BackendSpec, Spec

\* Every variable of every service has its type.
THEOREM BackendTyped == BackendSpec => []Typed
<1>1. BackendInv /\ TypeOK => Typed
  <2> SUFFICES ASSUME BackendInv, TypeOK PROVE Typed
    OBVIOUS
  <2>1. faults \in 0..MaxFaults  BY DEF BackendInv, MispInv, MispTypes
  <2>2. Users!TypeOK
    <3>1. \A r \in AccountRequests : accountRequest[r] \in AccountAsked  BY DEF BackendInv, AccountInv
    <3> QED  BY <3>1 DEF BackendInv, AccountInv, AccountAsked, Users!TypeOK
  <2> QED
    BY <2>1, <2>2, MispTyped, ImportTyped, SensorTyped, FeedTyped DEF BackendInv, Typed
<1> QED  BY <1>1, BackendAlways, FeedIsTheFeed, Typing, PTL

\* Whatever failed, was repeated, rewritten or published in between: what the
\* audit log calls delivered is in MISP, a run imported one edition of its
\* export and all of it, what was acknowledged at the Gateway is what was
\* imported, and an alert that the cursor has passed is stored and in a session,
\* unless its session was stored over: with any pulls and uploads side by side.
THEOREM StoredStaysTrue == BackendSpec => []StoredIsTrue
<1>1. BackendInv => StoredIsTrue
  BY SensorPassed DEF BackendInv, MispInv, ImportInv, FeedInv, StoredIsTrue
<1> QED  BY <1>1, BackendAlways, PTL

\* Once there was an administrator there is one, whoever asks for what and
\* however many requests overlap; unless one is committed that knew of another
\* administrator, whom a request beside it has taken away since.
THEOREM AdministratorStays == BackendSpec => AdminRemains
<1>1. BackendInv /\ [BackendNext]_allVars => [AccountRemains]_Users!vars
  BY ServicesApart, AccountStep DEF BackendInv
<1> QED
  BY <1>1, BackendAlways, PTL DEF BackendSpec, AdminRemains, Users!AdminRemains, AccountRemains

\* A delivery fails only if a call of its own failed or another request was at
\* the same event: what an earlier one left in MISP, complete or not, is no
\* reason.
THEOREM RepeatsSucceed == BackendSpec => RepeatIsIdempotent
<1> DEFINE Explained ==
        \A q \in MispRequests :
            (\E a \in mispAudit' \ mispAudit : a.id = mispReq[q].id /\ a.status = "failed")
                => mispReq[q].disturbed \/ faults' # faults
<1>1. BackendInv /\ [BackendNext]_allVars => [Explained]_Misp!vars
  <2> SUFFICES ASSUME BackendInv, [BackendNext]_allVars PROVE Explained
    OBVIOUS
  <2>1. CASE Misp!Next  BY <2>1, MispExplained, BackendAssumption DEF BackendInv
  <2>2. CASE UNCHANGED mispVars  BY <2>2 DEF mispVars
  <2> QED  BY <2>1, <2>2, ServicesApart
<1> QED  BY <1>1, BackendAlways, PTL DEF BackendSpec, RepeatIsIdempotent, Misp!RepeatIsIdempotent
=============================================================================
