---------------------------- MODULE BackendAccounts ----------------------------
(***************************************************************************)
(* The accounts of the backend (api/v1/router.py over the users table).  A *)
(* request is answered in a session of its own: it reads who asks, reads   *)
(* the account it is about and counts the administrators, and commits.     *)
(* Between these steps other requests commit; the database isolates no     *)
(* more than a statement.                                                  *)
(*                                                                         *)
(* Abstraction.  A session updates only the column it changed, and nothing *)
(* when the value it read is the value it sets.  An account's password is  *)
(* left out: it bears on no other column.  Roles below administrator are   *)
(* one.  Audit rows go with the commit they are part of.                   *)
(***************************************************************************)
EXTENDS Naturals, FiniteSets

CONSTANTS Names, Requests, None

Roles == {"viewer", "admin"}

VARIABLES
    users,   \* the table: role and is_active by name, None if there is no row
    request, \* a request: its step, who asks, what is asked, the rows it has read
    overtaken \* history: requests that know of an administrator who is none any more

vars == <<users, request, overtaken>>

Row  == [role : Roles, active : BOOLEAN]
\* What an operation has no use for has one value.
Ask  == {a \in [op : {"create", "role", "active", "register", "bootstrap"},
                name : Names, role : Roles, active : BOOLEAN] :
            /\ a.op # "active" => a.active
            /\ a.op \in {"active", "register"} => a.role = "viewer"
            /\ a.op = "bootstrap" => a.role = "admin"}
Free == [step |-> "free", user |-> None, ask |-> None, row |-> None]

TypeOK ==
    /\ users \in [Names -> Row \cup {None}]
    /\ \A r \in Requests :
        /\ request[r].step \in {"free", "lookup", "protect", "commit"}
        /\ request[r].user \in Names \cup {None} /\ request[r].ask \in Ask \cup {None}
        /\ request[r].row \in Row \cup {None}
    /\ overtaken \subseteq Requests

Init ==
    /\ users = [n \in Names |-> None] /\ request = [r \in Requests |-> Free]
    /\ overtaken = {}

Exists(n) == users[n] # None

\* get_current_user: the token names the account, the table says what it may do.
MayAdminister(n) == Exists(n) /\ users[n].active /\ users[n].role = "admin"

-----------------------------------------------------------------------------
\* require_roles("admin"), and what is asked.
Authorise(r, n, ask) ==
    /\ request[r] = Free /\ MayAdminister(n) /\ ask.op \in {"create", "role", "active"}
    /\ request' = [request EXCEPT ![r] =
          [step |-> "lookup", user |-> n, ask |-> ask, row |-> users[n]]]
    /\ overtaken' = overtaken \ {r} /\ UNCHANGED users

\* bootstrap_admin counts the accounts; register looks for the name.
Anonymous(r, ask) ==
    /\ request[r] = Free
    /\ \/ ask.op = "bootstrap" /\ \A n \in Names : ~Exists(n)
       \/ ask.op = "register" /\ ~Exists(ask.name)
    /\ request' = [request EXCEPT ![r] = [Free EXCEPT !.step = "commit", !.ask = ask]]
    /\ overtaken' = overtaken \ {r} /\ UNCHANGED users

\* The account that is created must be new, the one that is changed be there.
\* The session has the row of who asks already and does not read it again.
Lookup(r) ==
    LET q == request[r]
        row == IF q.ask.name = q.user THEN q.row ELSE users[q.ask.name]
        found == IF q.ask.op = "create" THEN row = None ELSE row # None
    IN  /\ q.step = "lookup"
        /\ request' = [request EXCEPT ![r] =
              IF found THEN [q EXCEPT !.step = "protect", !.row = row] ELSE Free]
        /\ UNCHANGED <<users, overtaken>>

\* Mutation: an administrator that is not active counts as well.
Administrators_All == {n \in Names : Exists(n) /\ users[n].role = "admin"}

Administrators == {n \in Names : Exists(n) /\ users[n].role = "admin" /\ users[n].active}

\* Does the request take an administrator away?
Weakens(q) ==
    /\ q.ask.op \in {"role", "active"} /\ q.row.role = "admin" /\ q.row.active
    /\ IF q.ask.op = "role" THEN q.ask.role # "admin" ELSE ~q.ask.active

\* _protect_last_active_admin.
Protect(r) ==
    LET q == request[r]
    IN  /\ q.step = "protect"
        /\ request' = [request EXCEPT ![r] =
              IF Weakens(q) /\ Cardinality(Administrators) <= 1 THEN Free
              ELSE [q EXCEPT !.step = "commit"]]
        /\ UNCHANGED <<users, overtaken>>

\* The row as the commit leaves it: a new one, or the column that was changed.
Committed(q) ==
    CASE q.ask.op = "role" ->
            [users[q.ask.name] EXCEPT !.role = IF q.ask.role = q.row.role THEN @ ELSE q.ask.role]
      [] q.ask.op = "active" ->
            [users[q.ask.name] EXCEPT !.active = IF q.ask.active = q.row.active THEN @ ELSE q.ask.active]
      [] OTHER -> [role |-> q.ask.role, active |-> TRUE]

\* An administrator is taken away: the requests that have read rows may count on
\* him; those that were only authorised, if he was the last.
Disturbed(r) ==
    LET q == request[r]
        away == /\ q.ask.op \in {"role", "active"} /\ MayAdminister(q.ask.name)
                /\ ~(Committed(q).role = "admin" /\ Committed(q).active)
    IN  {p \in Requests :
           /\ away
           /\ \/ request[p].step \in {"protect", "commit"}
              \/ request[p].step = "lookup" /\ Administrators = {q.ask.name}}

\* The unique name refuses a second account.
Commit(r) ==
    LET q == request[r]
        taken == q.ask.op \notin {"role", "active"} /\ Exists(q.ask.name)
    IN  /\ q.step = "commit" /\ request' = [request EXCEPT ![r] = Free]
        /\ IF taken THEN UNCHANGED users
           ELSE users' = [users EXCEPT ![q.ask.name] = Committed(q)]
        /\ overtaken' = (overtaken \cup Disturbed(r)) \ {r}

Next ==
    \/ \E r \in Requests, n \in Names, ask \in Ask : Authorise(r, n, ask)
    \/ \E r \in Requests, ask \in Ask : Anonymous(r, ask)
    \/ \E r \in Requests : Lookup(r) \/ Protect(r) \/ Commit(r)

Spec == Init /\ [][Next]_vars

-----------------------------------------------------------------------------
(* Properties.                                                             *)

\* "The last active administrator cannot be demoted or deactivated"
\* (router.py:472): once there was one, there is an administrator who can ask;
\* unless a request took the last one away that knew of another, and one beside
\* it, that was committed in between, had taken that one away.
AdminRemains ==
    [][(\E n \in Names : MayAdminister(n)) =>
          \/ \E n \in Names : MayAdminister(n)'
          \/ \E r \in overtaken : request[r].step = "commit" /\ request'[r] = Free]_vars
=============================================================================
