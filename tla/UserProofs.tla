----------------------------- MODULE UserProofs -----------------------------
(* Theorems about Accounts and, further down, about Notifications: the     *)
(* users, for every number of requests, employees and warehouses, and what *)
(* a user's page shows him, for every number of notifications, clicks and  *)
(* mishaps and every length of the list.                                   *)
EXTENDS Accounts, Notifications, FiniteSetTheorems, SequenceTheorems, TLAPS

-----------------------------------------------------------------------------
(* The inductive invariant *)

(* The requests that make a user. *)
Creating == {"create", "seed"}

(* What a request is for, and how far it can be. *)
RequestOK(r) ==
    /\ r.kind \in Creating \union {"role"} => r.arg \in Role
    /\ r.kind = "update" => r.arg \in UserStatus
    /\ r.kind = "assign" => r.arg \in Warehouses
    /\ r.kind = "seed" => r.email = SeedEmail
    /\ r.step = "signUp" => r.id = 0
    /\ r.step = "mail" => r.kind = "create" /\ r.id # 0

RequestsInv == \A s \in Sessions : RequestOK(req[s])

(* A user is of one creation only, and is not finished while that one is   *)
(* under way.                                                              *)
IdsInv ==
    /\ \A e \in Emails : row[e].id \in 0..ids
    /\ \A s \in Sessions : req[s].kind \in Creating /\ req[s].id # 0 =>
         /\ req[s].id \notin finished
         /\ \A t \in Sessions \ {s} : req[t].kind \in Creating => req[t].id # req[s].id

(* Two requests about one user are remembered. *)
NamedInv ==
    \A s, t \in Sessions : s # t /\ Email(s) = Email(t) => Email(s) \in crossed \union {Nobody}

(* The row of a request r about a user no other request is about. *)
RowAsLeft(r) ==
    /\ r.step = "attributes" => row[r.email] = Fresh(r.id)
    /\ r.step = "mail" =>
         /\ row[r.email].id = r.id /\ Live(r.email) /\ row[r.email].status = "ACTIVE"
         /\ row[r.email].role = r.arg /\ row[r.email].needPasswordChange
    /\ r.step = "write" =>
         /\ row[r.email].id = r.id /\ Live(r.email)
         /\ r.kind = "assign" => Assignable(r.email)

RowsInv == \A s \in Sessions : Email(s) \notin crossed => RowAsLeft(req[s])

(* The types, the accounting of the rows, and what each request is owed.   *)
AccountsInv ==
    /\ TypeOK /\ RowsAccountedFor
    /\ RequestsInv /\ IdsInv /\ NamedInv /\ RowsInv

-----------------------------------------------------------------------------
(* Requests *)

(* A request is one of those the module names, or none. *)
LEMMA RequestType ==
    ASSUME TypeOK, NEW s \in Sessions
    PROVE  /\ req[s] \in Request \union {NoRequest}
           /\ req[s].id \in 0..ids /\ req[s].id \in Nat
           /\ req[s] # NoRequest => req[s] \in Request /\ Email(s) \in Emails
  <1>1. req[s] \in Request \union {NoRequest} /\ req[s].id <= ids /\ ids \in Nat
    BY DEF TypeOK
  <1>2. req[s].id \in Nat
    BY <1>1 DEF Request, NoRequest
  <1>3. req[s] \in Request => Email(s) \in Emails
    BY DEF Request, Email
  <1>4. QED
    BY <1>1, <1>2, <1>3

(* NoRequest is not a request, and nothing is asked of it. *)
LEMMA NoRequestFacts ==
    /\ NoRequest \notin Request
    /\ NoRequest.kind \notin Creating \union Kind /\ NoRequest.email = Nobody /\ NoRequest.id = 0
    /\ RequestOK(NoRequest) /\ (\A e \in Emails : e # Nobody)
    /\ NoRequest.step = "none"
  BY AccountsAssumption DEF NoRequest, Request, Kind, Creating, RequestOK

(* Every row of the table has a user's columns. *)
LEMMA FreshType == \A id \in Nat : Fresh(id) \in User /\ Fresh(id).id = id
  BY DEF Fresh, User, Role, UserStatus

(* A request that begins has seen the row it is about. *)
LEMMA BeginKeeps ==
    ASSUME AccountsInv, NEW s \in Sessions, NEW kind \in Kind, NEW e \in Emails,
           NEW arg \in Role \union UserStatus \union Warehouses \union {Nobody},
           NEW step \in Step, NEW id \in 0..ids, Begin(s, kind, e, arg, step, id),
           kind \in Creating \union {"role"} => arg \in Role,
           kind = "update" => arg \in UserStatus,
           kind = "assign" => arg \in Warehouses,
           kind = "seed" => e = SeedEmail,
           kind \in Creating => step = "signUp" /\ id = 0,
           kind \notin Creating => step = "write" /\ id = row[e].id /\ Live(e),
           kind = "assign" => Assignable(e)
    PROVE  AccountsInv'
  <1> DEFINE r == [kind |-> kind, email |-> e, arg |-> arg, step |-> step, id |-> id]
  <1> USE DEF AccountsInv
  <1>0. /\ req[s] = NoRequest /\ served' = served + 1 /\ req' = [req EXCEPT ![s] = r]
        /\ crossed' = crossed \union ({e} \intersect NamedByOpen)
        /\ UNCHANGED <<row, ids, finished, orphans>>
    BY DEF Begin
  <1>1. /\ r \in Request /\ r.kind = kind /\ r.email = e /\ r.arg = arg /\ r.step = step
        /\ r.id = id /\ id \in Nat /\ id <= ids
    BY DEF Request, TypeOK
  <1>2. RequestOK(r)
    BY <1>1 DEF RequestOK, Creating
  <1>3. kind \in Creating => id = 0
    OBVIOUS
  <1>4. RowAsLeft(r)
    BY <1>1 DEF RowAsLeft, Creating
  <1> HIDE DEF r
  <1>5. /\ req'[s] = r /\ (\A t \in Sessions \ {s} : req'[t] = req[t])
        /\ req' \in [Sessions -> Request \union {NoRequest}]
    BY <1>0, <1>1 DEF TypeOK
  <1>6. TypeOK'
    BY <1>0, <1>1, <1>5 DEF TypeOK, Exists
  <1>7. RowsAccountedFor'
    <2> SUFFICES ASSUME NEW f \in Emails, Exists(f), row[f].id \notin finished \union orphans
                 PROVE  Creators(f)' # {}
      BY <1>0 DEF RowsAccountedFor, Exists
    <2>1. PICK t \in Sessions : req[t].kind \in {"create", "seed"} /\ Email(t) = f /\ Mine(t)
      BY DEF RowsAccountedFor, Creators
    <2>2. t # s
      BY <2>1, <1>0, NoRequestFacts DEF Creating
    <2>3. t \in Creators(f)'
      BY <2>1, <2>2, <1>0, <1>5 DEF Creators, Email, Mine, Exists
    <2>4. QED
      BY <2>3
  <1>8. RequestsInv'
    BY <1>2, <1>5 DEF RequestsInv
  <1>9. IdsInv'
    <2> SUFFICES ASSUME NEW t \in Sessions, req'[t].kind \in Creating, req'[t].id # 0
                 PROVE  /\ req'[t].id \notin finished
                        /\ \A u \in Sessions \ {t} :
                             req'[u].kind \in Creating => req'[u].id # req'[t].id
      BY <1>0 DEF IdsInv
    <2>1. t # s
      BY <1>1, <1>3, <1>5
    <2>2. QED
      BY <2>1, <1>1, <1>3, <1>5 DEF IdsInv
  <1>10. NamedInv'
    <2> SUFFICES ASSUME NEW t \in Sessions, NEW u \in Sessions, t # u,
                        req'[t].email = req'[u].email
                 PROVE  req'[t].email \in crossed' \union {Nobody}
      BY DEF NamedInv, Email
    <2>1. CASE t = s \/ u = s
      BY <2>1, <1>0, <1>1, <1>5 DEF NamedByOpen
    <2>2. CASE t # s /\ u # s
      BY <2>2, <1>0, <1>5 DEF NamedInv, Email
    <2>3. QED
      BY <2>1, <2>2
  <1>11. RowsInv'
    <2>1. ASSUME NEW t \in Sessions, NEW x, x = req'[t], x.email \notin crossed'
          PROVE  RowAsLeft(x)'
      <3>1. RowAsLeft(x)
        BY <1>0, <1>4, <1>5, <2>1 DEF RowsInv, Email
      <3>2. QED
        BY <3>1, <1>0 DEF RowAsLeft, Live, Exists, Assignable
    <2>2. QED
      BY <2>1 DEF RowsInv, Email
  <1>12. QED
    BY <1>6, <1>7, <1>8, <1>9, <1>10, <1>11

-----------------------------------------------------------------------------
(* Statements of an open request *)

(* A statement of a request: it writes the row the request is about, if    *)
(* any, gives out at most one id, and what it leaves in the table is       *)
(* somebody's.                                                             *)
LEMMA StatementKeeps ==
    ASSUME AccountsInv, NEW s \in Sessions, req[s] # NoRequest,
           NEW x \in User, NEW r \in Request \union {NoRequest},
           req' = [req EXCEPT ![s] = r], row' = [row EXCEPT ![Email(s)] = x],
           UNCHANGED <<served, crossed>>,
           ids' \in {ids, ids + 1},
           x.id \in {0, row[Email(s)].id} \/ (ids' = ids + 1 /\ x.id = ids'),
           r = NoRequest \/ r.email = Email(s),
           r.kind \in Creating => req[s].kind \in Creating,
           r.id \in {0, req[s].id} \/ (ids' = ids + 1 /\ r.id = ids'),
           RequestOK(r),
           Email(s) \notin crossed /\ r # NoRequest => RowAsLeft(r)',
           orphans' \in {orphans, orphans \union {req[s].id}},
           finished' \in {finished, finished \union {req[s].id}},
           orphans' # orphans \/ finished' # finished => req[s].id # 0,
           finished' # finished => r = NoRequest /\ req[s].kind \in Creating,
           \/ x.id \in finished' \union orphans' \union {0}
           \/ r.kind \in Creating /\ r.id = x.id
           \/ x.id = row[Email(s)].id /\ (req[s].kind \notin Creating \/ ~Mine(s))
    PROVE  AccountsInv'
  <1> USE DEF AccountsInv
  <1>1. /\ Email(s) \in Emails /\ req[s].id \in 0..ids /\ ids \in Nat /\ ids' \in Nat
        /\ ids <= ids' /\ row \in [Emails -> User] /\ \A e \in Emails : e # Nobody
    BY RequestType, NoRequestFacts DEF TypeOK
  <1>2. PICK e \in Emails : e = Email(s)
    BY <1>1
  <1>3. /\ row' \in [Emails -> User] /\ row'[e] = x
        /\ \A f \in Emails \ {e} : row'[f] = row[f]
    BY <1>1, <1>2
  <1>4. /\ req' \in [Sessions -> Request \union {NoRequest}] /\ req'[s] = r
        /\ \A t \in Sessions \ {s} : req'[t] = req[t]
    BY DEF TypeOK
  <1>5. r.id \in Nat /\ r.id <= ids'
    BY <1>1
  <1>6. \A f \in Emails : row[f].id \in Nat /\ row[f].id <= ids
    BY <1>1 DEF IdsInv
  <1>7. x.id \in Nat /\ x.id <= ids'
    BY <1>1, <1>2, <1>6
  <1>8. \A t \in Sessions : req[t].id \in Nat /\ req[t].id <= ids
    BY <1>1, RequestType
  <1>9. TypeOK'
    <2>1. \A f, g \in Emails : row'[f].id # 0 /\ row'[f].id = row'[g].id => f = g
      <3>1. \A f \in Emails \ {e} : x.id # 0 => x.id # row[f].id
        BY <1>1, <1>2, <1>6 DEF TypeOK, Exists
      <3>2. \A f, g \in Emails : row[f].id # 0 /\ row[f].id = row[g].id => f = g
        BY DEF TypeOK, Exists
      <3>3. QED
        BY <1>3, <3>1, <3>2
    <2>2. finished' \subseteq 1..ids' /\ orphans' \subseteq 1..ids'
      BY <1>1 DEF TypeOK
    <2>3. \A t \in Sessions : req'[t].id <= ids'
      BY <1>1, <1>4, <1>5, <1>8
    <2>4. QED
      BY <1>1, <1>3, <1>4, <2>1, <2>2, <2>3 DEF TypeOK, Exists
  <1>10. RowsAccountedFor'
    <2>1. ASSUME NEW f \in Emails, row'[f].id # 0, row'[f].id \notin finished' \union orphans'
          PROVE  \E t \in Sessions : /\ req'[t].kind \in {"create", "seed"} /\ req'[t].email = f
                                     /\ row'[f].id = req'[t].id
      <3>1. CASE f = e /\ r.kind \in Creating /\ r.id = x.id
        <4>1. r.email = e
          BY <3>1, <1>2, NoRequestFacts
        <4>2. QED
          BY <3>1, <4>1, <1>3, <1>4 DEF Creating
      <3>2. CASE f # e \/ (x.id = row[e].id /\ (req[s].kind \notin Creating \/ ~Mine(s)))
        <4>1. row'[f].id = row[f].id
          BY <3>2, <1>3
        <4>2. row[f].id \notin finished \union orphans
          BY <2>1, <4>1
        <4>3. PICK t \in Sessions : req[t].kind \in {"create", "seed"} /\ req[t].email = f
                                    /\ row[f].id = req[t].id
          BY <2>1, <4>1, <4>2 DEF RowsAccountedFor, Creators, Email, Mine, Exists
        <4>4. t # s
          BY <2>1, <3>2, <4>1, <4>3, <1>2 DEF Creating, Email, Mine, Exists
        <4>5. QED
          BY <4>1, <4>3, <4>4, <1>4
      <3>3. CASE f = e /\ x.id \in finished' \union orphans' \union {0}
        BY <2>1, <3>3, <1>3
      <3>4. \/ x.id \in finished' \union orphans' \union {0}
            \/ r.kind \in Creating /\ r.id = x.id
            \/ x.id = row[e].id /\ (req[s].kind \notin Creating \/ ~Mine(s))
        BY <1>2
      <3>5. QED
        BY <3>1, <3>2, <3>3, <3>4
    <2>2. QED
      BY <2>1 DEF RowsAccountedFor, Creators, Email, Mine, Exists
  <1>11. RequestsInv'
    BY <1>4 DEF RequestsInv
  <1>12. IdsInv'
    <2>1. \A f \in Emails : row'[f].id \in 0..ids'
      BY <1>1, <1>3, <1>6, <1>7
    <2>2. ASSUME NEW t \in Sessions \ {s}, req[t].kind \in Creating, req[t].id # 0
          PROVE  req[t].id \notin finished' /\ (r.kind \in Creating => r.id # req[t].id)
      <3>1. req[s].kind \in Creating => req[s].id # req[t].id
        BY <2>2 DEF IdsInv
      <3>2. req[t].id \notin finished
        BY <2>2 DEF IdsInv
      <3>3. req[t].id # ids + 1
        BY <1>1, <1>8
      <3>4. QED
        BY <2>2, <3>1, <3>2, <3>3
    <2>3. ASSUME r.kind \in Creating, r.id # 0 PROVE r.id \notin finished'
      <3>1. finished' = finished
        BY <2>3, NoRequestFacts
      <3>2. CASE r.id = req[s].id
        BY <2>3, <3>1, <3>2 DEF IdsInv
      <3>3. CASE r.id = ids + 1
        BY <3>1, <3>3, <1>1 DEF TypeOK
      <3>4. QED
        BY <2>3, <3>2, <3>3
    <2>4. ASSUME NEW t \in Sessions, NEW u \in Sessions, t # u, req'[t].kind \in Creating,
                 req'[t].id # 0, req'[u].kind \in Creating
          PROVE  req'[u].id # req'[t].id
      <3>1. CASE t = s
        <4>1. req'[u] = req[u] /\ req'[t] = r /\ u \in Sessions \ {s}
          BY <2>4, <3>1, <1>4
        <4>2. QED
          BY <2>2, <2>4, <4>1
      <3>2. CASE u = s
        <4>1. req'[t] = req[t] /\ req'[u] = r /\ t \in Sessions \ {s}
          BY <2>4, <3>2, <1>4
        <4>2. QED
          BY <2>2, <2>4, <4>1
      <3>3. CASE t # s /\ u # s
        <4>1. req'[t] = req[t] /\ req'[u] = req[u]
          BY <3>3, <1>4
        <4>2. QED
          BY <2>4, <4>1 DEF IdsInv
      <3>4. QED
        BY <3>1, <3>2, <3>3
    <2>5. ASSUME NEW t \in Sessions, req'[t].kind \in Creating, req'[t].id # 0
          PROVE  req'[t].id \notin finished'
      BY <2>2, <2>3, <2>5, <1>4
    <2>6. QED
      BY <2>1, <2>4, <2>5 DEF IdsInv
  <1>13. NamedInv'
    <2>1. ASSUME NEW t \in Sessions, NEW u \in Sessions, t # u,
                 req'[t].email = req'[u].email
          PROVE  req'[t].email \in crossed \union {Nobody}
      <3>1. req'[t].email = Nobody \/ req'[t].email = req[t].email
        BY <1>4, NoRequestFacts DEF Email
      <3>2. req'[u].email = Nobody \/ req'[u].email = req[u].email
        BY <1>4, NoRequestFacts DEF Email
      <3>3. QED
        BY <2>1, <3>1, <3>2 DEF NamedInv, Email
    <2>2. QED
      BY <2>1 DEF NamedInv, Email
  <1>14. RowsInv'
    <2>1. ASSUME NEW t \in Sessions, NEW y, y = req'[t], y.email \notin crossed
          PROVE  RowAsLeft(y)'
      <3>1. CASE y = NoRequest
        BY <3>1, NoRequestFacts DEF RowAsLeft
      <3>2. CASE t = s /\ y # NoRequest
        BY <2>1, <3>2, <1>4
      <3>3. CASE t # s /\ y # NoRequest
        <4>1. y = req[t] /\ y \in Request /\ y.email \in Emails /\ y.email # e
          BY <2>1, <3>3, <1>1, <1>2, <1>4, RequestType DEF NamedInv, Email
        <4>2. RowAsLeft(y)
          BY <2>1, <4>1 DEF RowsInv, Email
        <4>3. row'[y.email] = row[y.email]
          BY <4>1, <1>3
        <4>4. QED
          BY <4>2, <4>3 DEF RowAsLeft, Live, Exists, Assignable
      <3>4. QED
        BY <3>1, <3>2, <3>3
    <2>2. QED
      BY <2>1 DEF RowsInv, Email
  <1>15. QED
    BY <1>9, <1>10, <1>11, <1>12, <1>13, <1>14

(* A row written by the id it was read with, keeping that id. *)
LEMMA WriteKeeps ==
    ASSUME AccountsInv, NEW s \in Sessions, NEW kind \in Kind \ Creating, NEW x \in User,
           Write(s, kind, x), x.id = row[Email(s)].id
    PROVE  AccountsInv'
  <1>0. AccountsInv /\ req[s].kind = kind /\ row' = [row EXCEPT ![Email(s)] = x]
        /\ req' = [req EXCEPT ![s] = NoRequest]
        /\ UNCHANGED <<served, crossed, ids, finished, orphans>>
    BY DEF Write, At, End
  <1>1. req[s] # NoRequest
    BY <1>0, NoRequestFacts
  <1>2. NoRequest \in Request \union {NoRequest}
    OBVIOUS
  <1>3. /\ RequestOK(NoRequest) /\ NoRequest.kind \notin Creating /\ NoRequest.id = 0
    BY NoRequestFacts
  <1>4. kind \notin Creating
    OBVIOUS
  <1>5. QED
    BY <1>0, <1>1, <1>2, <1>3, <1>4, StatementKeeps

(* The columns of a row one column of which is written. *)
LEMMA ColumnTypes ==
    ASSUME NEW u \in User, NEW role \in Role, NEW status \in UserStatus,
           NEW w \in Warehouses \union {Nobody}
    PROVE  /\ [u EXCEPT !.status = status] \in User /\ [u EXCEPT !.status = status].id = u.id
           /\ [u EXCEPT !.role = role] \in User /\ [u EXCEPT !.role = role].id = u.id
           /\ [u EXCEPT !.warehouse = w] \in User /\ [u EXCEPT !.warehouse = w].id = u.id
           /\ [u EXCEPT !.needPasswordChange = FALSE] \in User
           /\ [u EXCEPT !.needPasswordChange = FALSE].id = u.id
           /\ [u EXCEPT !.isDeleted = TRUE, !.status = "DELETED"] \in User
           /\ [u EXCEPT !.isDeleted = TRUE, !.status = "DELETED"].id = u.id
  BY DEF User, UserStatus

(* Every operation on a user. *)
LEMMA WritesKeep ==
    ASSUME AccountsInv, NEW s \in Sessions,
           \/ BlockUser(s) \/ UnblockUser(s) \/ AssignRole(s) \/ UpdateUser(s) \/ DeleteUser(s)
           \/ AssignUserToWarehouse(s) \/ UnassignUserFromWarehouse(s) \/ ChangePassword(s)
    PROVE  AccountsInv'
  <1>0. TypeOK /\ RequestOK(req[s])
    BY DEF AccountsInv, RequestsInv
  <1>1. req[s] # NoRequest
    BY NoRequestFacts DEF BlockUser, UnblockUser, AssignRole, UpdateUser, DeleteUser, Kind,
       AssignUserToWarehouse, UnassignUserFromWarehouse, ChangePassword, Write, At
  <1>2. row[Email(s)] \in User
    BY <1>0, <1>1, RequestType DEF TypeOK
  <1>3. {"ACTIVE", "BLOCKED"} \subseteq UserStatus
        /\ {"block", "unblock", "role", "update", "delete", "assign", "unassign", "password"}
             \subseteq Kind \ Creating
        /\ "STAFF" \in Role
    BY DEF UserStatus, Kind, Creating, Role
  <1>4. CASE BlockUser(s)
    BY <1>2, <1>3, <1>4, ColumnTypes, WriteKeeps DEF BlockUser
  <1>5. CASE UnblockUser(s)
    BY <1>2, <1>3, <1>5, ColumnTypes, WriteKeeps DEF UnblockUser
  <1>6. CASE AssignRole(s)
    <2>1. req[s].arg \in Role
      BY <1>0, <1>6 DEF AssignRole, Write, At, RequestOK
    <2>2. QED
      BY <1>2, <1>3, <1>6, <2>1, ColumnTypes, WriteKeeps DEF AssignRole
  <1>7. CASE UpdateUser(s)
    <2>1. req[s].arg \in UserStatus
      BY <1>0, <1>7 DEF UpdateUser, Write, At, RequestOK
    <2>2. QED
      BY <1>2, <1>3, <1>7, <2>1, ColumnTypes, WriteKeeps DEF UpdateUser
  <1>8. CASE DeleteUser(s)
    BY <1>2, <1>3, <1>8, ColumnTypes, WriteKeeps DEF DeleteUser
  <1>9. CASE AssignUserToWarehouse(s)
    <2>1. req[s].arg \in Warehouses \union {Nobody}
      BY <1>0, <1>9 DEF AssignUserToWarehouse, Write, At, RequestOK
    <2>2. QED
      BY <1>2, <1>3, <1>9, <2>1, ColumnTypes, WriteKeeps DEF AssignUserToWarehouse
  <1>10. CASE UnassignUserFromWarehouse(s)
    BY <1>2, <1>3, <1>10, ColumnTypes, WriteKeeps DEF UnassignUserFromWarehouse
  <1>11. CASE ChangePassword(s)
    BY <1>2, <1>3, <1>11, ColumnTypes, WriteKeeps DEF ChangePassword
  <1>12. QED
    BY <1>4, <1>5, <1>6, <1>7, <1>8, <1>9, <1>10, <1>11

-----------------------------------------------------------------------------
(* Statements of a creation *)

(* A row is made, of nobody else, with the columns' defaults. *)
LEMMA SignUpKeeps ==
    ASSUME AccountsInv, NEW s \in Sessions, SignUp(s)
    PROVE  AccountsInv'
  <1> DEFINE r == [req[s] EXCEPT !.step = "attributes", !.id = ids + 1]
  <1>0. /\ req[s].kind \in Creating /\ ids' = ids + 1
        /\ row' = [row EXCEPT ![Email(s)] = Fresh(ids + 1)] /\ req' = [req EXCEPT ![s] = r]
        /\ UNCHANGED <<served, finished, orphans, crossed>>
    BY DEF SignUp, At, Creating
  <1>1. req[s] # NoRequest /\ TypeOK /\ ids + 1 \in Nat /\ RequestOK(req[s])
    BY <1>0, NoRequestFacts DEF AccountsInv, TypeOK, RequestsInv
  <1>2. req[s] \in Request /\ Email(s) \in Emails /\ row \in [Emails -> User]
    BY <1>1, RequestType DEF TypeOK
  <1>3. /\ r \in Request /\ RequestOK(r) /\ r.kind = req[s].kind /\ r.email = Email(s)
        /\ r.step = "attributes" /\ r.id = ids + 1
    BY <1>0, <1>1, <1>2 DEF Step, Email, Request, RequestOK
  <1>4. Fresh(ids + 1) \in User /\ Fresh(ids + 1).id = ids + 1
    BY <1>1, FreshType
  <1> HIDE DEF r
  <1>5. PICK q \in Request : q = r
    BY <1>3
  <1>6. PICK x \in User : x = Fresh(ids + 1)
    BY <1>4
  <1>7. RowAsLeft(q)'
    <2>1. row'[q.email] = Fresh(q.id)
      BY <1>0, <1>2, <1>3, <1>5
    <2>2. QED
      BY <2>1, <1>3, <1>5 DEF RowAsLeft
  <1>8. QED
    BY <1>0, <1>1, <1>3, <1>4, <1>5, <1>6, <1>7, StatementKeeps

(* Moving on to the clean-up writes nothing. *)
LEMMA ToCleanupKeeps ==
    ASSUME AccountsInv, NEW s \in Sessions, req[s].kind \in Creating, Proceed(s, "cleanup"),
           UNCHANGED <<row, ids, finished, orphans>>
    PROVE  AccountsInv'
  <1> DEFINE r == [req[s] EXCEPT !.step = "cleanup"]
  <1>0. req' = [req EXCEPT ![s] = r] /\ UNCHANGED <<served, crossed>>
    BY DEF Proceed
  <1>1. req[s] # NoRequest /\ TypeOK /\ RequestOK(req[s])
    BY NoRequestFacts DEF AccountsInv, RequestsInv
  <1>2. req[s] \in Request /\ Email(s) \in Emails /\ row \in [Emails -> User]
    BY <1>1, RequestType DEF TypeOK
  <1>3. /\ r \in Request /\ RequestOK(r) /\ r.kind = req[s].kind /\ r.email = Email(s)
        /\ r.step = "cleanup" /\ r.id = req[s].id
    BY <1>1, <1>2 DEF Step, Email, Request, RequestOK
  <1> HIDE DEF r
  <1>4. PICK q \in Request : q = r
    BY <1>3
  <1>5. PICK x \in User : x = row[Email(s)]
    BY <1>2
  <1>6. row' = [row EXCEPT ![Email(s)] = x]
    BY <1>2, <1>5
  <1>7. RowAsLeft(q)'
    BY <1>3, <1>4 DEF RowAsLeft
  <1>8. x.id \in finished \union orphans \union {0} \/ r.id = x.id
        \/ (x.id = row[Email(s)].id /\ ~Mine(s))
    BY <1>2, <1>3, <1>5 DEF Mine, Exists
  <1>9. QED
    BY <1>0, <1>1, <1>3, <1>4, <1>5, <1>6, <1>7, <1>8, StatementKeeps

(* A request that ends, having written nothing that is left unaccounted.   *)
LEMMA EndingKeeps ==
    ASSUME AccountsInv, NEW s \in Sessions, req[s] # NoRequest, End(s), NEW x \in User,
           row' = [row EXCEPT ![Email(s)] = x], x.id \in {0, row[Email(s)].id}, ids' = ids,
           orphans' \in {orphans, orphans \union {req[s].id}},
           finished' \in {finished, finished \union {req[s].id}},
           orphans' # orphans \/ finished' # finished => req[s].id # 0,
           finished' # finished => req[s].kind \in Creating,
           \/ x.id \in finished' \union orphans' \union {0}
           \/ x.id = row[Email(s)].id /\ (req[s].kind \notin Creating \/ ~Mine(s))
    PROVE  AccountsInv'
  <1>1. req' = [req EXCEPT ![s] = NoRequest] /\ UNCHANGED <<served, crossed>>
    BY DEF End
  <1>2. RequestOK(NoRequest) /\ NoRequest.kind \notin Creating /\ NoRequest.id = 0
    BY NoRequestFacts
  <1>3. NoRequest \in Request \union {NoRequest}
    OBVIOUS
  <1>4. QED
    BY <1>1, <1>2, <1>3, StatementKeeps

(* A request that ends without writing its row. *)
LEMMA EndingQuietlyKeeps ==
    ASSUME AccountsInv, NEW s \in Sessions, req[s] # NoRequest, End(s), UNCHANGED <<row, ids>>,
           orphans' \in {orphans, orphans \union {req[s].id}},
           finished' \in {finished, finished \union {req[s].id}},
           orphans' # orphans \/ finished' # finished => req[s].id # 0,
           finished' # finished => req[s].kind \in Creating,
           req[s].kind \in Creating /\ Mine(s) => req[s].id \in finished' \union orphans'
    PROVE  AccountsInv'
  <1>1. row \in [Emails -> User] /\ Email(s) \in Emails
    BY RequestType DEF AccountsInv, TypeOK
  <1>2. PICK x \in User : x = row[Email(s)]
    BY <1>1
  <1>3. row' = [row EXCEPT ![Email(s)] = x]
    BY <1>1, <1>2
  <1>4. \/ x.id \in finished' \union orphans' \union {0}
        \/ x.id = row[Email(s)].id /\ (req[s].kind \notin Creating \/ ~Mine(s))
    BY <1>2 DEF Mine
  <1>5. QED
    BY <1>2, <1>3, <1>4, EndingKeeps

(* Giving up or going on to the clean-up. *)
LEMMA FailuresKeep ==
    ASSUME AccountsInv, NEW s \in Sessions, SignUpFails(s) \/ StepFails(s)
    PROVE  AccountsInv'
  <1>1. req[s].kind \in Creating /\ UNCHANGED <<row, ids, finished, orphans>>
    BY DEF SignUpFails, StepFails, At, Creating
  <1>2. CASE Proceed(s, "cleanup")
    BY <1>1, <1>2, ToCleanupKeeps
  <1>3. CASE SignUpFails(s) /\ End(s)
    <2>1. req[s].id = 0
      BY <1>3 DEF SignUpFails, At, AccountsInv, RequestsInv, RequestOK
    <2>2. ~Mine(s)
      BY <2>1 DEF Mine, Exists
    <2>3. req[s] # NoRequest
      BY <1>1, NoRequestFacts
    <2>4. QED
      BY <1>1, <1>3, <2>2, <2>3, EndingQuietlyKeeps
  <1>4. QED
    BY <1>2, <1>3 DEF SignUpFails, StepFails

(* The ordered columns are written. *)
LEMMA WriteAttributesKeeps ==
    ASSUME AccountsInv, NEW s \in Sessions, WriteAttributes(s)
    PROVE  AccountsInv'
  <1> DEFINE r == [req[s] EXCEPT !.step = "mail"]
             y == Attributes(s, row[Email(s)])
  <1>0. /\ req[s].kind \in Creating /\ Mine(s) /\ row' = [row EXCEPT ![Email(s)] = y]
        /\ UNCHANGED <<ids, orphans>>
    BY DEF WriteAttributes, At, Creating
  <1>1. req[s] # NoRequest /\ TypeOK /\ RequestOK(req[s])
    BY <1>0, NoRequestFacts DEF AccountsInv, RequestsInv
  <1>2. req[s] \in Request /\ Email(s) \in Emails /\ row \in [Emails -> User]
        /\ row[Email(s)].id = req[s].id /\ req[s].id # 0
    BY <1>0, <1>1, RequestType DEF TypeOK, Mine, Exists
  <1>3. req[s].arg \in Role
    BY <1>0, <1>1 DEF RequestOK
  <1>4. /\ y \in User /\ y.id = row[Email(s)].id /\ y.role = req[s].arg /\ y.status = "ACTIVE"
        /\ ~y.isDeleted /\ (req[s].kind = "create" => y.needPasswordChange)
    BY <1>2, <1>3 DEF Attributes, User, UserStatus
  <1> HIDE DEF y
  <1>5. PICK x \in User : x = y
    BY <1>4
  <1>6. CASE req[s].kind = "create"
    <2>1. Proceed(s, "mail") /\ UNCHANGED finished
      BY <1>6 DEF WriteAttributes
    <2>2. req' = [req EXCEPT ![s] = r] /\ UNCHANGED <<served, crossed>>
      BY <2>1 DEF Proceed
    <2>3. /\ r \in Request /\ RequestOK(r) /\ r.kind = req[s].kind /\ r.email = Email(s)
          /\ r.step = "mail" /\ r.id = req[s].id /\ r.arg = req[s].arg
      BY <1>1, <1>2, <1>6 DEF Step, Email, Request, RequestOK
    <2> HIDE DEF r
    <2>4. PICK q \in Request : q = r
      BY <2>3
    <2>5. row'[q.email] = x
      BY <1>0, <1>2, <1>5, <2>3, <2>4
    <2>6. RowAsLeft(q)'
      BY <1>2, <1>4, <1>5, <1>6, <2>3, <2>4, <2>5 DEF RowAsLeft, Live, Exists
    <2>7. QED
      BY <1>0, <1>1, <1>2, <1>4, <1>5, <2>1, <2>2, <2>3, <2>4, <2>6, StatementKeeps
  <1>7. CASE req[s].kind # "create"
    <2>1. End(s) /\ finished' = finished \union {req[s].id}
      BY <1>7 DEF WriteAttributes
    <2>2. QED
      BY <1>0, <1>1, <1>2, <1>4, <1>5, <2>1, EndingKeeps
  <1>8. QED
    BY <1>6, <1>7

(* The credentials are sent, and the creation is over. *)
LEMMA SendEmailKeeps ==
    ASSUME AccountsInv, NEW s \in Sessions, SendEmail(s)
    PROVE  AccountsInv'
  <1>1. /\ req[s].kind \in Creating /\ req[s].step = "mail" /\ End(s)
        /\ finished' = finished \union {req[s].id} /\ UNCHANGED <<row, ids, orphans>>
    BY DEF SendEmail, At, Creating
  <1>2. req[s].id # 0 /\ req[s] # NoRequest
    BY <1>1, NoRequestFacts DEF AccountsInv, RequestsInv, RequestOK
  <1>3. QED
    BY <1>1, <1>2, EndingQuietlyKeeps

(* The clean-up removes a row, or finds none to remove. *)
LEMMA CleanupKeeps ==
    ASSUME AccountsInv, NEW s \in Sessions, Cleanup(s)
    PROVE  AccountsInv'
  <1>1. /\ req[s].kind \in Creating /\ End(s) /\ UNCHANGED <<ids, finished, orphans>>
        /\ row' = IF Removable(s) THEN [row EXCEPT ![Email(s)] = NoRow] ELSE row
    BY DEF Cleanup, At, Creating
  <1>2. req[s] # NoRequest
    BY <1>1, NoRequestFacts
  <1>3. CASE Removable(s)
    <2>1. NoRow \in User /\ NoRow.id = 0
      BY FreshType DEF NoRow
    <2>2. QED
      BY <1>1, <1>2, <1>3, <2>1, EndingKeeps
  <1>4. CASE ~Removable(s)
    <2>1. ~Mine(s)
      BY <1>4 DEF Removable, Mine
    <2>2. QED
      BY <1>1, <1>2, <1>4, <2>1, EndingQuietlyKeeps
  <1>5. QED
    BY <1>3, <1>4

(* A crash is remembered with the row it leaves behind. *)
LEMMA AbortKeeps ==
    ASSUME AccountsInv, NEW s \in Sessions, Abort(s)
    PROVE  AccountsInv'
  <1>1. /\ req[s] # NoRequest /\ End(s) /\ UNCHANGED <<row, ids, finished>>
        /\ orphans' = IF req[s].kind \in Creating /\ Mine(s)
                      THEN orphans \union {req[s].id} ELSE orphans
    BY DEF Abort, Creating
  <1>2. Mine(s) => req[s].id # 0
    BY DEF Mine, Exists
  <1>3. QED
    BY <1>1, <1>2, EndingQuietlyKeeps

-----------------------------------------------------------------------------
(* Theorems *)

(* Before the first request the table is empty. *)
LEMMA InitKeeps == ASSUME Init PROVE AccountsInv
  <1>1. TypeOK
    BY FreshType DEF Init, TypeOK, NoRow, NoRequest, Exists
  <1>2. \A e \in Emails : row[e].id = 0
    BY FreshType DEF Init, NoRow
  <1>3. RowsAccountedFor /\ IdsInv
    BY <1>2, NoRequestFacts DEF Init, RowsAccountedFor, Exists, IdsInv
  <1>4. RequestsInv /\ NamedInv /\ RowsInv
    BY NoRequestFacts DEF Init, RequestsInv, NamedInv, RowsInv, RowAsLeft, Email
  <1>5. QED
    BY <1>1, <1>3, <1>4 DEF AccountsInv

(* Every request that is accepted. *)
LEMMA BeginsKeep ==
    ASSUME AccountsInv, NEW s \in Sessions,
           \/ BeginCreate(s) \/ BeginSeed(s) \/ BeginBlock(s) \/ BeginUnblock(s) \/ BeginRole(s)
           \/ BeginUpdate(s) \/ BeginDelete(s) \/ BeginAssign(s) \/ BeginUnassign(s)
           \/ BeginPassword(s)
    PROVE  AccountsInv'
  <1>1. /\ SeedEmail \in Emails /\ "SUPER_ADMIN" \in Role /\ {"signUp", "write"} \subseteq Step
        /\ {"create", "seed", "block", "unblock", "role", "update", "delete", "assign",
            "unassign", "password"} \subseteq Kind
        /\ 0 \in 0..ids
        /\ \A e \in Emails : row[e].id \in 0..ids
    BY AccountsAssumption DEF Role, Step, Kind, AccountsInv, TypeOK, IdsInv
  <1>2. CASE BeginCreate(s)
    BY <1>1, <1>2, BeginKeeps DEF BeginCreate, Creating
  <1>3. CASE BeginSeed(s)
    BY <1>1, <1>3, BeginKeeps DEF BeginSeed, Creating
  <1>4. ASSUME NEW kind \in {"block", "unblock", "role", "update", "delete", "assign",
                             "unassign", "password"},
               NEW e \in Emails,
               NEW arg \in Role \union UserStatus \union Warehouses \union {Nobody},
               BeginEdit(s, kind, e, arg),
               kind = "role" => arg \in Role,
               kind = "update" => arg \in UserStatus,
               kind = "assign" => arg \in Warehouses /\ Assignable(e)
        PROVE  AccountsInv'
    <2>1. Live(e) /\ Begin(s, kind, e, arg, "write", row[e].id)
      BY <1>4 DEF BeginEdit
    <2>2. kind \notin Creating /\ kind \in Kind
      BY <1>1 DEF Creating
    <2>3. QED
      BY <1>1, <1>4, <2>1, <2>2, BeginKeeps
  <1>5. CASE BeginBlock(s)
    BY <1>4, <1>5 DEF BeginBlock
  <1>6. CASE BeginUnblock(s)
    BY <1>4, <1>6 DEF BeginUnblock
  <1>7. CASE BeginRole(s)
    BY <1>4, <1>7 DEF BeginRole
  <1>8. CASE BeginUpdate(s)
    BY <1>4, <1>8 DEF BeginUpdate
  <1>9. CASE BeginDelete(s)
    BY <1>4, <1>9 DEF BeginDelete
  <1>10. CASE BeginAssign(s)
    BY <1>4, <1>10 DEF BeginAssign
  <1>11. CASE BeginUnassign(s)
    BY <1>4, <1>11 DEF BeginUnassign
  <1>12. CASE BeginPassword(s)
    BY <1>4, <1>12 DEF BeginPassword
  <1>13. QED
    BY <1>2, <1>3, <1>5, <1>6, <1>7, <1>8, <1>9, <1>10, <1>11, <1>12

(* A step that changes nothing keeps the invariant. *)
LEMMA StutterKeeps ==
    ASSUME AccountsInv, UNCHANGED vars
    PROVE  AccountsInv'
  BY DEF vars, AccountsInv, TypeOK, RowsAccountedFor, Creators, Mine, Exists, Email, RequestsInv,
         IdsInv, NamedInv, RowsInv, RowAsLeft, Live, Assignable

(* Every step keeps the invariant. *)
LEMMA NextKeeps ==
    ASSUME AccountsInv, [Next]_vars
    PROVE  AccountsInv'
  BY BeginsKeep, SignUpKeeps, FailuresKeep, WriteAttributesKeeps, SendEmailKeeps, CleanupKeeps,
     AbortKeeps, WritesKeep, StutterKeeps DEF Next, Quiescent

(* The inductive invariant holds throughout every behaviour. *)
THEOREM AccountsInvariant == Spec => []AccountsInv
  BY InitKeeps, NextKeeps, PTL DEF Spec

(* Rows and requests keep their shape, and no two addresses share a user.  *)
THEOREM AccountsTypeCorrect == Spec => []TypeOK
  <1>1. AccountsInv => TypeOK
    BY DEF AccountsInv
  <1>2. QED
    BY AccountsInvariant, <1>1, PTL

(* createUser's clean-up: a row is that of a finished user, of a creation  *)
(* under way, or of one that crashed or could not clean up; no address is  *)
(* taken by anything else.                                                 *)
THEOREM NoStrayRows == Spec => []RowsAccountedFor
  <1>1. AccountsInv => RowsAccountedFor
    BY DEF AccountsInv
  <1>2. QED
    BY AccountsInvariant, <1>1, PTL

-----------------------------------------------------------------------------
(* What a step may do to the table *)

(* Only the row a statement is about can be touched against the rules.     *)
LEMMA OneRowWritten ==
    ASSUME AccountsInv, NEW s \in Sessions, req[s] # NoRequest, NEW x,
           row' = [row EXCEPT ![Email(s)] = x], UNCHANGED crossed,
           Email(s) \notin crossed /\ Exists(Email(s)) /\ x.id = row[Email(s)].id =>
             /\ row[Email(s)].isDeleted => x = row[Email(s)]
             /\ x.warehouse # row[Email(s)].warehouse =>
                  \/ x.warehouse = Nobody
                  \/ row[Email(s)].warehouse = Nobody /\ row[Email(s)].status = "ACTIVE",
           row[Email(s)].id \in finished /\ Email(s) # SeedEmail => x.id = row[Email(s)].id
    PROVE  EditsSound /\ \A e \in Emails \ {SeedEmail} : row[e].id \in finished => SameUser(e)
  <1>1. row \in [Emails -> User] /\ Email(s) \in Emails
    BY RequestType DEF AccountsInv, TypeOK
  <1>2. PICK f \in Emails : f = Email(s)
    BY <1>1
  <1>3. row'[f] = x /\ \A e \in Emails \ {f} : row'[e] = row[e]
    BY <1>1, <1>2
  <1>4. EditsSound
    BY <1>2, <1>3 DEF EditsSound, SameUser
  <1>5. \A e \in Emails \ {SeedEmail} : row[e].id \in finished => SameUser(e)
    BY <1>2, <1>3 DEF SameUser
  <1>6. QED
    BY <1>4, <1>5

(* Nor is any when no row is written. *)
LEMMA NoRowWritten ==
    ASSUME UNCHANGED row
    PROVE  EditsSound /\ \A e \in Emails \ {SeedEmail} : row[e].id \in finished => SameUser(e)
  BY DEF EditsSound, SameUser

(* A row is written by the rules. *)
LEMMA RowsWrittenByRule ==
    ASSUME AccountsInv, NEW s \in Sessions,
           \/ SignUp(s) \/ WriteAttributes(s) \/ Cleanup(s)
           \/ BlockUser(s) \/ UnblockUser(s) \/ AssignRole(s) \/ UpdateUser(s) \/ DeleteUser(s)
           \/ AssignUserToWarehouse(s) \/ UnassignUserFromWarehouse(s) \/ ChangePassword(s)
    PROVE  EditsSound /\ \A e \in Emails \ {SeedEmail} : row[e].id \in finished => SameUser(e)
  <1>0. TypeOK /\ RequestOK(req[s]) /\ (Email(s) \notin crossed => RowAsLeft(req[s]))
    BY DEF AccountsInv, RequestsInv, RowsInv
  <1>1. req[s] # NoRequest /\ UNCHANGED crossed
    BY NoRequestFacts DEF SignUp, WriteAttributes, Cleanup, BlockUser, UnblockUser, AssignRole,
       UpdateUser, DeleteUser, AssignUserToWarehouse, UnassignUserFromWarehouse, ChangePassword,
       Write, At, End, Proceed
  <1>2. row[Email(s)] \in User /\ finished \subseteq 1..ids
    BY <1>0, <1>1, RequestType DEF TypeOK
  <1>3. CASE SignUp(s)
    <2>1. row[Email(s)].id = 0 /\ row' = [row EXCEPT ![Email(s)] = Fresh(ids + 1)]
      BY <1>3 DEF SignUp, Exists
    <2>2. ~Exists(Email(s)) /\ row[Email(s)].id \notin finished
      BY <1>2, <2>1 DEF Exists
    <2>3. PICK x : x = Fresh(ids + 1)
      OBVIOUS
    <2>4. QED
      BY <1>1, <2>1, <2>2, <2>3, OneRowWritten
  <1>4. CASE WriteAttributes(s)
    <2> DEFINE x == Attributes(s, row[Email(s)])
    <2>1. row' = [row EXCEPT ![Email(s)] = x] /\ req[s].step = "attributes"
          /\ req[s].kind \in {"create", "seed"}
      BY <1>4 DEF WriteAttributes, At
    <2>2. x.id = row[Email(s)].id /\ x.warehouse = row[Email(s)].warehouse
      BY <1>2 DEF Attributes, User
    <2>3. Email(s) \notin crossed => ~row[Email(s)].isDeleted
      BY <1>0, <2>1 DEF RowAsLeft, Email, Fresh
    <2> HIDE DEF x
    <2>4. QED
      BY <1>1, <2>1, <2>2, <2>3, OneRowWritten
  <1>5. CASE Cleanup(s) /\ Removable(s)
    <2>1. row' = [row EXCEPT ![Email(s)] = NoRow] /\ NoRow.id = 0
      BY <1>5, FreshType DEF Cleanup, NoRow
    <2>2. (req[s].kind = "create" /\ Mine(s)) \/ req[s].kind = "seed"
      BY <1>5 DEF Cleanup, At, Removable
    <2>3. row[Email(s)].id \in finished => Email(s) = SeedEmail
      <3>1. CASE req[s].kind = "seed"
        BY <1>0, <3>1 DEF RequestOK, Email
      <3>2. CASE req[s].kind = "create" /\ Mine(s)
        BY <3>2 DEF AccountsInv, IdsInv, Creating, Mine, Exists
      <3>3. QED
        BY <2>2, <3>1, <3>2
    <2>4. QED
      BY <1>1, <2>1, <2>3, OneRowWritten DEF Exists
  <1>6. CASE Cleanup(s) /\ ~Removable(s)
    BY <1>6, NoRowWritten DEF Cleanup
  <1>7. ASSUME NEW kind, NEW x, Write(s, kind, x), x.id = row[Email(s)].id,
               \/ x.warehouse \in {row[Email(s)].warehouse, Nobody}
               \/ kind = "assign"
        PROVE  EditsSound /\ \A e \in Emails \ {SeedEmail} : row[e].id \in finished => SameUser(e)
    <2>1. row' = [row EXCEPT ![Email(s)] = x] /\ req[s].kind = kind /\ req[s].step = "write"
      BY <1>7 DEF Write, At
    <2>2. Email(s) \notin crossed =>
            ~row[Email(s)].isDeleted /\ (kind = "assign" => Assignable(Email(s)))
      BY <1>0, <2>1 DEF RowAsLeft, Email, Live
    <2>3. QED
      BY <1>1, <1>7, <2>1, <2>2, OneRowWritten DEF Assignable
  <1>8. CASE BlockUser(s)
    BY <1>2, <1>7, <1>8 DEF BlockUser, User
  <1>9. CASE UnblockUser(s)
    BY <1>2, <1>7, <1>9 DEF UnblockUser, User
  <1>10. CASE AssignRole(s)
    BY <1>2, <1>7, <1>10 DEF AssignRole, User
  <1>11. CASE UpdateUser(s)
    BY <1>2, <1>7, <1>11 DEF UpdateUser, User
  <1>12. CASE DeleteUser(s)
    BY <1>2, <1>7, <1>12 DEF DeleteUser, User
  <1>13. CASE AssignUserToWarehouse(s)
    BY <1>2, <1>7, <1>13 DEF AssignUserToWarehouse, User
  <1>14. CASE UnassignUserFromWarehouse(s)
    BY <1>2, <1>7, <1>14 DEF UnassignUserFromWarehouse, User
  <1>15. CASE ChangePassword(s)
    BY <1>2, <1>7, <1>15 DEF ChangePassword, User
  <1>16. QED
    BY <1>3, <1>4, <1>5, <1>6, <1>8, <1>9, <1>10, <1>11, <1>12, <1>13, <1>14, <1>15

(* Whoever is finished by a statement has what was ordered. *)
LEMMA FinishedAsOrdered ==
    ASSUME AccountsInv, NEW s \in Sessions, finished' = finished \union {req[s].id},
           req[s].kind \in Creating, req[s].id # 0,
           req[s].kind = "create" => req[s].step = "mail",
           NEW t \in Sessions, req[t].kind = "create", req[t].id \in finished' \ finished,
           Email(t) \notin crossed
    PROVE  /\ Mine(t) /\ Live(Email(t)) /\ row[Email(t)].status = "ACTIVE"
           /\ row[Email(t)].role = req[t].arg /\ row[Email(t)].needPasswordChange
  <1>1. req[t].id = req[s].id
    OBVIOUS
  <1>2. t = s
    BY <1>1 DEF AccountsInv, IdsInv, Creating
  <1>3. RowAsLeft(req[t]) /\ req[t].step = "mail"
    BY <1>2 DEF AccountsInv, RowsInv
  <1>4. QED
    BY <1>3 DEF RowAsLeft, Mine, Email, Live

(* A step keeps the rules of both. *)
LEMMA StepByRule ==
    ASSUME AccountsInv, Next
    PROVE  EditsSound /\ CreationsSound
  <1>1. EditsSound /\ \A e \in Emails \ {SeedEmail} : row[e].id \in finished => SameUser(e)
    <2>1. CASE \E s \in Sessions :
                 \/ SignUp(s) \/ WriteAttributes(s) \/ Cleanup(s)
                 \/ BlockUser(s) \/ UnblockUser(s) \/ AssignRole(s) \/ UpdateUser(s)
                 \/ DeleteUser(s) \/ AssignUserToWarehouse(s) \/ UnassignUserFromWarehouse(s)
                 \/ ChangePassword(s)
      BY <2>1, RowsWrittenByRule
    <2>2. CASE \/ Quiescent
               \/ \E s \in Sessions :
                    \/ BeginCreate(s) \/ BeginSeed(s) \/ BeginBlock(s) \/ BeginUnblock(s)
                    \/ BeginRole(s) \/ BeginUpdate(s) \/ BeginDelete(s) \/ BeginAssign(s)
                    \/ BeginUnassign(s) \/ BeginPassword(s) \/ SignUpFails(s) \/ SendEmail(s)
                    \/ StepFails(s) \/ Abort(s)
      <3>1. UNCHANGED row
        BY <2>2 DEF Quiescent, vars, BeginCreate, BeginSeed, BeginBlock, BeginUnblock,
           BeginRole, BeginUpdate, BeginDelete, BeginAssign, BeginUnassign, BeginPassword,
           BeginEdit, Begin, SignUpFails, SendEmail, StepFails, Abort
      <3>2. QED
        BY <3>1, NoRowWritten
    <2>3. QED
      BY <2>1, <2>2 DEF Next
  <1>2. ASSUME NEW t \in Sessions, req[t].kind = "create", req[t].id \in finished' \ finished,
               Email(t) \notin crossed
        PROVE  /\ Mine(t) /\ Live(Email(t)) /\ row[Email(t)].status = "ACTIVE"
               /\ row[Email(t)].role = req[t].arg /\ row[Email(t)].needPasswordChange
    <2>1. PICK s \in Sessions : WriteAttributes(s) \/ SendEmail(s)
      <3>1. finished' # finished
        BY <1>2
      <3>2. ASSUME NEW s \in Sessions,
                   \/ BeginCreate(s) \/ BeginSeed(s) \/ BeginBlock(s) \/ BeginUnblock(s)
                   \/ BeginRole(s) \/ BeginUpdate(s) \/ BeginDelete(s) \/ BeginAssign(s)
                   \/ BeginUnassign(s) \/ BeginPassword(s)
            PROVE  finished' = finished
        BY <3>2 DEF BeginCreate, BeginSeed, BeginBlock, BeginUnblock, BeginRole, BeginUpdate,
           BeginDelete, BeginAssign, BeginUnassign, BeginPassword, BeginEdit, Begin
      <3>3. ASSUME NEW s \in Sessions,
                   \/ SignUp(s) \/ SignUpFails(s) \/ StepFails(s) \/ Cleanup(s) \/ Abort(s)
            PROVE  finished' = finished
        BY <3>3 DEF SignUp, SignUpFails, StepFails, Cleanup, Abort
      <3>4. ASSUME NEW s \in Sessions,
                   \/ BlockUser(s) \/ UnblockUser(s) \/ AssignRole(s) \/ UpdateUser(s)
                   \/ DeleteUser(s) \/ AssignUserToWarehouse(s)
                   \/ UnassignUserFromWarehouse(s) \/ ChangePassword(s)
            PROVE  finished' = finished
        BY <3>4 DEF BlockUser, UnblockUser, AssignRole, UpdateUser, DeleteUser,
           AssignUserToWarehouse, UnassignUserFromWarehouse, ChangePassword, Write
      <3>5. CASE Quiescent
        BY <3>1, <3>5 DEF Quiescent, vars
      <3>6. QED
        BY <3>1, <3>2, <3>3, <3>4, <3>5 DEF Next
    <2>2. CASE SendEmail(s)
      <3>1. /\ req[s].kind = "create" /\ req[s].step = "mail"
            /\ finished' = finished \union {req[s].id}
        BY <2>2 DEF SendEmail, At
      <3>2. req[s].id # 0
        BY <3>1 DEF AccountsInv, RequestsInv, RequestOK
      <3>3. QED
        BY <1>2, <3>1, <3>2, FinishedAsOrdered DEF Creating
    <2>3. CASE WriteAttributes(s)
      <3>1. /\ req[s].kind = "seed" /\ finished' = finished \union {req[s].id}
        BY <1>2, <2>3 DEF WriteAttributes, At
      <3>2. req[s].id # 0
        BY <2>3 DEF WriteAttributes, Mine, Exists
      <3>3. QED
        BY <1>2, <3>1, <3>2, FinishedAsOrdered DEF Creating
    <2>4. QED
      BY <2>1, <2>2, <2>3
  <1>3. QED
    BY <1>1, <1>2 DEF CreationsSound

(* What a deleted, assigned or newly created user is promised: deletion is *)
(* for good, a warehouse is only given to an active user without one, a    *)
(* password is sent for a row as it was ordered, and no finished user but  *)
(* the seed's is removed; unless two requests about him were open at once. *)
THEOREM RowsFollowRules == Spec => RowsChangeByRule
  <1>1. ASSUME AccountsInv, [Next]_vars PROVE [EditsSound /\ CreationsSound]_vars
    BY <1>1, StepByRule
  <1>2. QED
    BY AccountsInvariant, <1>1, PTL DEF Spec, RowsChangeByRule

-----------------------------------------------------------------------------
(* The notifications of a user and the page that shows them *)

(* A click and how far it is. *)
CallData == [op : {"none", "read", "readAll", "delete"}, id : Nat,
             phase : {"none", "asked", "done", "over"}]

(* No notification twice. *)
Distinct(items) == \A i, j \in DOMAIN items : items[i].id = items[j].id => i = j

(* A list as the server or the cache can have it. *)
SoundList(items) ==
    /\ items \in Seq(Item) /\ Distinct(items)
    /\ IdsOf(items) \subseteq Persisted

(* Shape of the working data; a row is never forgotten. *)
PageTypes ==
    /\ store \in [Ids -> {"none", "unread", "read", "deleted"}]
    /\ connected \in BOOLEAN /\ open \in BOOLEAN
    /\ wire \in Seq(Ids) /\ \A i \in DOMAIN wire : wire[i] \in Persisted
    /\ list \in [cached : BOOLEAN, items : Seq(Item)] /\ SoundList(list.items)
    /\ count \in Int
    /\ fetch \in [Queries -> {"idle", "asked", "answered"}]
    /\ reply \in [list : Seq(Item), count : Int] /\ SoundList(reply.list)
    /\ invalid \in BOOLEAN /\ mishaps \in 0..MaxMishaps
    /\ behind \in [Queries -> BOOLEAN]
    /\ calls \in [Calls -> CallData]
    /\ \A c \in Calls : calls[c].phase \in {"asked", "done"} => calls[c].op # "none"

(* No click is answered whose answer the page has not taken yet. *)
NoneDone == \A c \in Calls : calls[c].phase # "done"

(* The count in the cache, and the one in an answer on its way, is that of *)
(* the table, unless something is still to arrive that refreshes it.       *)
CountInv ==
    ~behind.count /\ wire = <<>> /\ NoneDone =>
        /\ fetch.count = "idle" => count = ServerCount
        /\ fetch.count = "answered" => reply.count = ServerCount

(* Every event on the way is about a notification of the list. *)
KnownIn(items) == \A i \in DOMAIN wire : wire[i] \in IdsOf(items)

(* The same for the list; an event about a notification that the list has *)
(* already changes nothing.                                                *)
ListInv ==
    ~behind.list /\ NoneDone =>
        /\ fetch.list = "idle" /\ list.cached /\ ~invalid /\ KnownIn(list.items) =>
             list.items = ServerList
        /\ fetch.list = "answered" /\ KnownIn(reply.list) => reply.list = ServerList

(* An open dropdown shows a list that is not to be fetched again, or a     *)
(* fetch is under way.                                                     *)
OpenInv ==
    open /\ fetch.list = "idle" /\ ~behind.list => list.cached /\ ~invalid

(* The inductive strengthening. *)
NotificationsInv == PageTypes /\ CountInv /\ ListInv /\ OpenInv

-----------------------------------------------------------------------------
(* Lists *)

(* The k-th smallest of a finite set of numbers is there for every k up to *)
(* the size of the set, and it is another one for every k.                 *)
LEMMA NthRank ==
    ASSUME NEW S \in SUBSET Nat, IsFiniteSet(S), NEW k \in 1..Cardinality(S)
    PROVE  Nth(S, k) \in S /\ Cardinality({m \in S : m <= Nth(S, k)}) = k
  <1> DEFINE upto(n) == {m \in S : m <= n}
             rank == [n \in S |-> Cardinality(upto(n))]
  <1>1. Cardinality(S) \in Nat
    BY FS_CardinalityType
  <1>2. \A n \in S : /\ IsFiniteSet(upto(n)) /\ Cardinality(upto(n)) \in Nat
                     /\ Cardinality(upto(n)) <= Cardinality(S)
    <2> TAKE n \in S
    <2>1. upto(n) \in SUBSET S
      OBVIOUS
    <2>2. IsFiniteSet(upto(n)) /\ Cardinality(upto(n)) <= Cardinality(S)
      BY <2>1, FS_Subset
    <2>3. QED
      BY <2>2, FS_CardinalityType
  <1>3. \A n \in S : Cardinality(upto(n)) # 0
    <2> TAKE n \in S
    <2>1. n \in upto(n)
      OBVIOUS
    <2>2. QED
      BY <2>1, <1>2, FS_EmptySet
  <1>4. rank \in [S -> 1..Cardinality(S)]
    <2>1. \A n \in S : Cardinality(upto(n)) \in 1..Cardinality(S)
      <3> HIDE DEF upto
      <3>1. QED
        BY <1>1, <1>2, <1>3
    <2>2. QED
      BY <2>1
  <1>5. ASSUME NEW m \in S, NEW n \in S, m < n
        PROVE  Cardinality(upto(m)) # Cardinality(upto(n))
    <2>1. upto(m) \in SUBSET upto(n) /\ n \notin upto(m) /\ n \in upto(n)
      <3>1. \A x \in S : x \in Nat
        OBVIOUS
      <3>2. \A x \in S : x <= m => x <= n
        BY <3>1, <1>5
      <3>3. ~(n <= m) /\ n <= n
        BY <3>1, <1>5
      <3>4. QED
        BY <3>2, <3>3
    <2>2. IsFiniteSet(upto(n))
      BY <1>2
    <2> HIDE DEF upto
    <2>3. QED
      BY <2>1, <2>2, FS_Subset
  <1>6. rank \in Injection(S, 1..Cardinality(S))
    <2>1. \A m, n \in S : rank[m] = rank[n] => m = n
      <3> TAKE m, n \in S
      <3>1. m < n \/ n < m \/ m = n
        OBVIOUS
      <3>2. QED
        BY <3>1, <1>5
    <2> HIDE DEF rank
    <2>2. QED
      BY <2>1, <1>4 DEF Injection, IsInjective
  <1>7. rank \in Surjection(S, 1..Cardinality(S))
    <2>1. /\ IsFiniteSet(1..Cardinality(S))
          /\ Cardinality(1..Cardinality(S)) = Cardinality(S)
      BY <1>1, FS_Interval
    <2> HIDE DEF rank
    <2>2. QED
      BY <2>1, <1>6, FS_Injection
  <1>8. \E n \in S : rank[n] = k
    <2> HIDE DEF rank
    <2>1. QED
      BY <1>7 DEF Surjection
  <1>9. QED
    BY <1>8 DEF Nth

(* As many notifications as entries. *)
LEMMA DistinctCardinality ==
    ASSUME NEW items \in Seq(Item), Distinct(items)
    PROVE  Cardinality(IdsOf(items)) = Len(items)
  <1> DEFINE f == [i \in 1..Len(items) |-> items[i].id]
  <1>1. DOMAIN items = 1..Len(items) /\ Len(items) \in Nat
    OBVIOUS
  <1>2. f \in Bijection(1..Len(items), IdsOf(items))
    <2>1. f \in [1..Len(items) -> IdsOf(items)]
      BY <1>1 DEF IdsOf
    <2>2. \A i, j \in 1..Len(items) : f[i] = f[j] => i = j
      BY <1>1 DEF Distinct
    <2>3. \A x \in IdsOf(items) : \E i \in 1..Len(items) : f[i] = x
      BY <1>1 DEF IdsOf
    <2> HIDE DEF f
    <2>4. QED
      BY <2>1, <2>2, <2>3 DEF Bijection, Injection, Surjection, IsInjective
  <1>3. IsFiniteSet(1..Len(items)) /\ Cardinality(1..Len(items)) = Len(items)
    BY <1>1, FS_Interval
  <1>4. ExistsBijection(1..Len(items), IdsOf(items))
    BY <1>2 DEF ExistsBijection
  <1> HIDE DEF f
  <1> DEFINE positions == 1..Len(items)
             named       == IdsOf(items)
  <1>5. IsFiniteSet(positions) /\ Cardinality(positions) = Len(items)
    BY <1>3
  <1>6. ExistsBijection(positions, named)
    BY <1>4
  <1> HIDE DEF positions, named
  <1>7. Cardinality(named) = Cardinality(positions)
    BY <1>5, <1>6, FS_Bijection
  <1>8. QED
    BY <1>5, <1>7 DEF named

(* The list that the server sends is one that the cache may hold. *)
LEMMA ServerListSound ==
    ASSUME store \in [Ids -> {"none", "unread", "read", "deleted"}]
    PROVE  SoundList(ServerList)
  <1> DEFINE shown == {n \in Persisted : store[n] # "deleted"}
             total == Cardinality(shown)
             size == IF total < Limit THEN total ELSE Limit
             entry(i) == [id |-> Nth(shown, total + 1 - i),
                          read |-> store[Nth(shown, total + 1 - i)] = "read"]
  <1>1. shown \in SUBSET Ids /\ Ids \in SUBSET Nat /\ IsFiniteSet(Ids)
    BY NotificationsAssumption, FS_Interval DEF Ids, Persisted
  <1>2. shown \in SUBSET Nat /\ IsFiniteSet(shown) /\ total \in Nat
    BY <1>1, FS_Subset, FS_CardinalityType
  <1>3. size \in Nat /\ size <= total
    <2> HIDE DEF total
    <2>1. QED
      BY <1>2, NotificationsAssumption
  <1>4. ServerList = [i \in 1..size |-> entry(i)]
    BY DEF ServerList
  <1> HIDE DEF size
  <1>5. \A i \in 1..size : total + 1 - i \in 1..total
    <2> HIDE DEF total
    <2>1. QED
      BY <1>2, <1>3
  <1>6. \A i \in 1..size :
           /\ Nth(shown, total + 1 - i) \in shown
           /\ Cardinality({m \in shown : m <= Nth(shown, total + 1 - i)}) = total + 1 - i
    <2> TAKE i \in 1..size
    <2> DEFINE k == total + 1 - i
    <2>1. k \in 1..Cardinality(shown)
      BY <1>5
    <2> HIDE DEF shown, k
    <2>2. Nth(shown, k) \in shown /\ Cardinality({m \in shown : m <= Nth(shown, k)}) = k
      BY <2>1, <1>2, NthRank
    <2>3. QED
      BY <2>2 DEF k
  <1>7. \A i \in 1..size : entry(i) \in Item /\ entry(i).id \in Persisted
    <2> TAKE i \in 1..size
    <2>1. PICK n \in shown : n = Nth(shown, total + 1 - i)
      BY <1>6
    <2>2. entry(i) = [id |-> n, read |-> store[n] = "read"]
      BY <2>1
    <2>3. n \in Ids /\ n \in Persisted
      BY <1>1
    <2> HIDE DEF entry
    <2>4. QED
      BY <2>2, <2>3 DEF Item
  <1>8. \A i, j \in 1..size : entry(i).id = entry(j).id => i = j
    <2> TAKE i, j \in 1..size
    <2>1. ASSUME entry(i).id = entry(j).id PROVE i = j
      <3>1. Nth(shown, total + 1 - i) = Nth(shown, total + 1 - j)
        BY <2>1
      <3>2. total + 1 - i = total + 1 - j
        BY <3>1, <1>6
      <3> HIDE DEF total
      <3>3. QED
        BY <3>2, <1>2, <1>3
    <2>2. QED
      BY <2>1
  <1> HIDE DEF entry
  <1>9. ServerList \in Seq(Item) /\ DOMAIN ServerList = 1..size
        /\ \A i \in 1..size : ServerList[i] = entry(i)
    BY <1>3, <1>4, <1>7
  <1>10. QED
    BY <1>7, <1>8, <1>9 DEF SoundList, Distinct, IdsOf

(* A list loses an entry and keeps the others. *)
LEMMA WithoutSound ==
    ASSUME NEW items, SoundList(items), NEW n
    PROVE  SoundList(Without(items, n))
  <1> DEFINE kept == {i \in DOMAIN items : items[i].id # n}
             size == Cardinality(kept)
             left == [k \in 1..size |-> items[Nth(kept, k)]]
  <1>1. /\ items \in Seq(Item) /\ Distinct(items) /\ IdsOf(items) \subseteq Persisted
        /\ DOMAIN items = 1..Len(items) /\ Len(items) \in Nat
    BY DEF SoundList
  <1>2. kept \in SUBSET (1..Len(items)) /\ IsFiniteSet(1..Len(items))
    BY <1>1, FS_Interval
  <1>3. kept \in SUBSET Nat /\ IsFiniteSet(kept) /\ size \in Nat
    BY <1>2, FS_Subset, FS_CardinalityType
  <1> HIDE DEF kept
  <1>4. \A k \in 1..size : /\ Nth(kept, k) \in kept
                           /\ Cardinality({m \in kept : m <= Nth(kept, k)}) = k
    BY <1>3, NthRank
  <1>5. \A k \in 1..size : /\ left[k] \in Item /\ left[k].id \in Persisted
                           /\ left[k] = items[Nth(kept, k)]
    <2> TAKE k \in 1..size
    <2>1. PICK i \in 1..Len(items) : i = Nth(kept, k)
      BY <1>2, <1>4
    <2>2. left[k] = items[i]
      BY <2>1
    <2>3. items[i] \in Item /\ items[i].id \in Persisted
      BY <1>1 DEF IdsOf
    <2> HIDE DEF left
    <2>4. QED
      BY <2>1, <2>2, <2>3
  <1>6. DOMAIN left = 1..size
    OBVIOUS
  <1>7. left \in Seq(Item)
    <2>1. left \in [1..size -> Item]
      BY <1>5
    <2> HIDE DEF left, size
    <2>2. QED
      BY <2>1, <1>3
  <1>8. Distinct(left)
    <2> SUFFICES ASSUME NEW i \in 1..size, NEW j \in 1..size, left[i].id = left[j].id
                 PROVE  i = j
      BY <1>6 DEF Distinct
    <2> HIDE DEF left
    <2>1. Nth(kept, i) = Nth(kept, j)
      <3>1. PICK a \in 1..Len(items) : a = Nth(kept, i)
        BY <1>2, <1>4
      <3>2. PICK b \in 1..Len(items) : b = Nth(kept, j)
        BY <1>2, <1>4
      <3>3. items[a].id = items[b].id
        BY <1>5, <3>1, <3>2
      <3>4. QED
        BY <1>1, <3>1, <3>2, <3>3 DEF Distinct
    <2>2. QED
      BY <2>1, <1>4
  <1>9. Without(items, n) = left
    BY DEF Without, kept
  <1> HIDE DEF left
  <1>10. IdsOf(left) \subseteq Persisted
    BY <1>5, <1>6 DEF IdsOf
  <1>11. QED
    BY <1>7, <1>8, <1>9, <1>10 DEF SoundList

(* A change of the entries that keeps their ids. *)
LEMMA RelabelSound ==
    ASSUME NEW items, SoundList(items), NEW other,
           DOMAIN other = DOMAIN items,
           \A i \in DOMAIN items : other[i] \in Item /\ other[i].id = items[i].id,
           other = [i \in DOMAIN items |-> other[i]]
    PROVE  SoundList(other) /\ IdsOf(other) = IdsOf(items)
  <1>1. /\ items \in Seq(Item) /\ Distinct(items) /\ IdsOf(items) \subseteq Persisted
        /\ DOMAIN items = 1..Len(items) /\ Len(items) \in Nat
    BY DEF SoundList
  <1>2. other \in [1..Len(items) -> Item]
    BY <1>1
  <1>3. other \in Seq(Item)
    BY <1>1, <1>2
  <1>4. IdsOf(other) = IdsOf(items)
    BY DEF IdsOf
  <1>5. Distinct(other)
    BY <1>1 DEF Distinct
  <1>6. QED
    BY <1>1, <1>3, <1>4, <1>5 DEF SoundList

(* The three changes that a click makes in the list. *)
LEMMA ClickedListSound ==
    ASSUME NEW items, SoundList(items), NEW n
    PROVE  /\ SoundList(OneRead(items, n)) /\ SoundList(AllRead(items))
           /\ SoundList(Without(items, n))
  <1>1. \A i \in DOMAIN items : items[i] \in Item
    BY DEF SoundList
  <1>2. SoundList(AllRead(items))
    <2> DEFINE r(i) == [items[i] EXCEPT !.read = TRUE]
    <2>1. \A i \in DOMAIN items : r(i) \in Item /\ r(i).id = items[i].id
      BY <1>1 DEF Item
    <2>2. /\ DOMAIN AllRead(items) = DOMAIN items
          /\ AllRead(items) = [i \in DOMAIN items |-> AllRead(items)[i]]
          /\ \A i \in DOMAIN items : AllRead(items)[i] = r(i)
      BY DEF AllRead
    <2> HIDE DEF r
    <2>3. QED
      BY <2>1, <2>2, RelabelSound
  <1>3. SoundList(OneRead(items, n))
    <2> DEFINE o(i) == [items[i] EXCEPT !.read = @ \/ items[i].id = n]
    <2>1. \A i \in DOMAIN items : o(i) \in Item /\ o(i).id = items[i].id
      BY <1>1 DEF Item
    <2>2. /\ DOMAIN OneRead(items, n) = DOMAIN items
          /\ OneRead(items, n) = [i \in DOMAIN items |-> OneRead(items, n)[i]]
          /\ \A i \in DOMAIN items : OneRead(items, n)[i] = o(i)
      BY DEF OneRead
    <2> HIDE DEF o
    <2>3. QED
      BY <2>1, <2>2, RelabelSound
  <1>4. QED
    BY <1>2, <1>3, WithoutSound

(* A new notification on top of the list. *)
LEMMA OnTopSound ==
    ASSUME NEW items, SoundList(items), NEW n \in Ids, n \in Persisted,
           n \notin IdsOf(items)
    PROVE  SoundList(<<[id |-> n, read |-> FALSE]>> \o items)
  <1> DEFINE top == [id |-> n, read |-> FALSE]
             longer == <<top>> \o items
  <1>1. /\ items \in Seq(Item) /\ Distinct(items) /\ IdsOf(items) \subseteq Persisted
        /\ DOMAIN items = 1..Len(items) /\ Len(items) \in Nat
    BY DEF SoundList
  <1>2. top \in Item /\ top.id = n
    BY DEF Item
  <1> HIDE DEF top
  <1>3. /\ longer \in Seq(Item) /\ DOMAIN longer = 1..(Len(items) + 1)
        /\ longer[1] = top /\ \A i \in 2..(Len(items) + 1) : longer[i] = items[i - 1]
    BY <1>1, <1>2
  <1> HIDE DEF longer
  <1>4. \A i \in 2..(Len(items) + 1) : i - 1 \in DOMAIN items
    BY <1>1
  <1>5. \A i \in DOMAIN longer : i = 1 \/ i \in 2..(Len(items) + 1)
    BY <1>1, <1>3
  <1>6. IdsOf(longer) \subseteq Persisted
    BY <1>1, <1>2, <1>3, <1>4, <1>5 DEF IdsOf
  <1>7. Distinct(longer)
    <2> SUFFICES ASSUME NEW i \in DOMAIN longer, NEW j \in DOMAIN longer,
                        longer[i].id = longer[j].id
                 PROVE  i = j
      BY DEF Distinct
    <2>1. \A k \in 2..(Len(items) + 1) : longer[k].id \in IdsOf(items)
      BY <1>3, <1>4 DEF IdsOf
    <2>2. i = 1 <=> j = 1
      BY <1>2, <1>3, <1>5, <2>1
    <2>3. CASE i # 1 /\ j # 1
      <3>1. i \in 2..(Len(items) + 1) /\ j \in 2..(Len(items) + 1)
        BY <2>3, <1>5
      <3>2. items[i - 1].id = items[j - 1].id
        BY <3>1, <1>3
      <3>3. i - 1 = j - 1
        BY <3>1, <3>2, <1>1, <1>4 DEF Distinct
      <3>4. QED
        BY <3>1, <3>3, <1>1
    <2>4. QED
      BY <2>2, <2>3
  <1>8. QED
    BY <1>3, <1>6, <1>7 DEF SoundList, longer, top

-----------------------------------------------------------------------------
(* Steps that change the table, the events on the way or the clicks *)

LEMMA CountType == ServerCount \in Int
  <1>1. IsFiniteSet(Ids)
    BY NotificationsAssumption, FS_Interval DEF Ids
  <1>2. Unread \in SUBSET Ids
    BY DEF Unread
  <1>3. Cardinality(Unread) \in Nat
    BY <1>1, <1>2, FS_Subset, FS_CardinalityType
  <1>4. QED
    BY <1>3 DEF ServerCount

(* What is read off the table stays as long as the table does. *)
LEMMA SameTable ==
    ASSUME store' = store
    PROVE  /\ Persisted' = Persisted /\ ServerList' = ServerList
           /\ ServerCount' = ServerCount
  BY DEF Persisted, ServerList, ServerCount, Unread

(* A list stays sound while rows are added. *)
LEMMA SoundListKept ==
    ASSUME NEW items, SoundList(items), Persisted \subseteq Persisted'
    PROVE  SoundList(items)'
  BY DEF SoundList

(* The page itself does not move: either the table stays too, or the page  *)
(* misses something, or is told of it by an event or an answer.            *)
LEMMA ServerMoves ==
    ASSUME NotificationsInv, UNCHANGED <<open, list, count, fetch, reply, invalid>>,
           store' \in [Ids -> {"none", "unread", "read", "deleted"}],
           Persisted \subseteq Persisted',
           connected' \in BOOLEAN, mishaps' \in 0..MaxMishaps,
           wire' \in Seq(Ids), \A i \in DOMAIN wire' : wire'[i] \in Persisted',
           calls' \in [Calls -> CallData],
           \A c \in Calls : calls'[c].phase \in {"asked", "done"} => calls'[c].op # "none",
           \/ /\ store' = store /\ wire' = wire /\ behind' = behind
              /\ NoneDone' => NoneDone
           \/ behind' = Untold
           \/ ~NoneDone' /\ behind' = behind
           \/ /\ \E i \in DOMAIN wire' : wire'[i] \notin Persisted
              /\ behind' = behind
    PROVE  NotificationsInv'
  <1>1. PageTypes /\ CountInv /\ ListInv /\ OpenInv
    BY DEF NotificationsInv
  <1>2. /\ list' = list /\ reply' = reply /\ fetch' = fetch /\ count' = count
        /\ open' = open /\ invalid' = invalid
    OBVIOUS
  <1>3. /\ behind' \in [Queries -> BOOLEAN]
        /\ \A q \in Queries : /\ behind[q] => behind'[q]
                              /\ behind' = Untold /\ fetch[q] # "asked" => behind'[q]
    BY <1>1 DEF PageTypes, Untold
  <1>4. PageTypes'
    <2>1. SoundList(list.items) /\ SoundList(reply.list)
      BY <1>1 DEF PageTypes
    <2>2. PICK a, b : a = list.items /\ b = reply.list
      OBVIOUS
    <2>3. SoundList(a)' /\ SoundList(b)'
      BY <2>1, <2>2, SoundListKept
    <2>4. SoundList(list.items)' /\ SoundList(reply.list)'
      BY <2>2, <2>3, <1>2 DEF SoundList
    <2>5. QED
      BY <2>4, <1>1, <1>2, <1>3 DEF PageTypes
  <1>5. CASE /\ store' = store /\ wire' = wire /\ behind' = behind
             /\ NoneDone' => NoneDone
    <2>1. ServerList' = ServerList /\ ServerCount' = ServerCount
      BY <1>5, SameTable
    <2>2. CountInv'
      BY <1>1, <1>2, <1>5, <2>1 DEF CountInv
    <2>3. KnownIn(list.items)' <=> KnownIn(list.items)
      BY <1>2, <1>5 DEF KnownIn, IdsOf
    <2>4. KnownIn(reply.list)' <=> KnownIn(reply.list)
      BY <1>2, <1>5 DEF KnownIn, IdsOf
    <2>5. ListInv'
      BY <1>1, <1>2, <1>5, <2>1, <2>3, <2>4 DEF ListInv
    <2>6. OpenInv'
      BY <1>1, <1>2, <1>5 DEF OpenInv
    <2>7. QED
      BY <1>4, <2>2, <2>5, <2>6 DEF NotificationsInv
  <1>6. CASE behind' = Untold
    <2>1. \A q \in Queries : fetch[q] # "asked" => behind'[q]
      BY <1>3, <1>6
    <2>2. CountInv'
      BY <1>2, <2>1 DEF CountInv, Queries
    <2>3. ListInv'
      BY <1>2, <2>1 DEF ListInv, Queries
    <2>4. OpenInv'
      BY <1>2, <2>1 DEF OpenInv, Queries
    <2>5. QED
      BY <1>4, <2>2, <2>3, <2>4 DEF NotificationsInv
  <1>7. OpenInv'
    <2>1. behind'.list = behind.list \/ behind'.list
      BY <1>3, <1>1 DEF Queries, PageTypes
    <2>2. QED
      BY <1>1, <1>2, <1>3, <2>1 DEF OpenInv, Queries
  <1>8. CASE ~NoneDone' /\ behind' = behind
    BY <1>4, <1>7, <1>8 DEF NotificationsInv, CountInv, ListInv
  <1>9. CASE \E i \in DOMAIN wire' : wire'[i] \notin Persisted
    <2>1. wire' # <<>>
      BY <1>9
    <2>2. CountInv'
      BY <2>1 DEF CountInv
    <2>3. IdsOf(list.items) \subseteq Persisted /\ IdsOf(reply.list) \subseteq Persisted
      BY <1>1 DEF PageTypes, SoundList
    <2>4. ~KnownIn(list.items)'
      BY <1>2, <1>9, <2>3 DEF KnownIn, IdsOf
    <2>5. ~KnownIn(reply.list)'
      BY <1>2, <1>9, <2>3 DEF KnownIn, IdsOf
    <2>6. ListInv'
      BY <2>4, <2>5 DEF ListInv
    <2>7. QED
      BY <1>4, <1>7, <2>2, <2>6 DEF NotificationsInv
  <1>10. QED
    BY <1>5, <1>6, <1>8, <1>9

(* A new row is the next one. *)
LEMMA CreatedRow ==
    ASSUME PageTypes, NEW n \in Ids, Created(n)
    PROVE  /\ store' \in [Ids -> {"none", "unread", "read", "deleted"}]
           /\ n \notin Persisted /\ n \in Persisted' /\ Persisted \subseteq Persisted'
  <1>1. store \in [Ids -> {"none", "unread", "read", "deleted"}]
    BY DEF PageTypes
  <1>2. store' = [store EXCEPT ![n] = "unread"] /\ Persisted = 1..n - 1
    BY DEF Created
  <1>3. n \notin Persisted
    BY <1>2, NotificationsAssumption DEF Ids
  <1>4. QED
    BY <1>1, <1>2, <1>3 DEF Persisted

(* An operation of the user takes no row away. *)
LEMMA DoneRows ==
    ASSUME PageTypes, NEW op \in {"read", "readAll", "delete"}, NEW n,
           store' = Done(op, n)
    PROVE  /\ store' \in [Ids -> {"none", "unread", "read", "deleted"}]
           /\ Persisted \subseteq Persisted'
  <1>1. store \in [Ids -> {"none", "unread", "read", "deleted"}]
    BY DEF PageTypes
  <1>2. CASE op = "read"
    <2>1. store' = [store EXCEPT ![n] = "read"]
      BY <1>2 DEF Done
    <2>2. QED
      BY <1>1, <2>1 DEF Persisted
  <1>3. CASE op = "readAll"
    <2>1. store' = [m \in Ids |-> IF store[m] = "unread" THEN "read" ELSE store[m]]
      BY <1>3 DEF Done
    <2>2. QED
      BY <1>1, <2>1 DEF Persisted
  <1>4. CASE op = "delete"
    <2>1. store' = [store EXCEPT ![n] = "deleted"]
      BY <1>4 DEF Done
    <2>2. QED
      BY <1>1, <2>1 DEF Persisted
  <1>5. QED
    BY <1>2, <1>3, <1>4

(* A new event is about a row that is there. *)
LEMMA EventsKept ==
    ASSUME PageTypes, Persisted \subseteq Persisted'
    PROVE  /\ wire \in Seq(Ids) /\ \A i \in DOMAIN wire : wire[i] \in Persisted'
           /\ calls \in [Calls -> CallData]
           /\ \A c \in Calls : calls[c].phase \in {"asked", "done"} => calls[c].op # "none"
           /\ mishaps \in 0..MaxMishaps /\ connected \in BOOLEAN
           /\ Mishap => mishaps' \in 0..MaxMishaps
  <1>1. mishaps \in 0..MaxMishaps /\ MaxMishaps \in Nat
    BY NotificationsAssumption DEF PageTypes
  <1>2. Mishap => mishaps' \in 0..MaxMishaps
    BY <1>1 DEF Mishap
  <1>3. QED
    BY <1>1, <1>2 DEF PageTypes

LEMMA CreateNotificationKeeps ==
    ASSUME NotificationsInv, CreateNotification
    PROVE  NotificationsInv'
  <1>1. PageTypes
    BY DEF NotificationsInv
  <1>2. PICK n \in Ids : Created(n) /\ wire' = IF connected THEN Append(wire, n) ELSE wire
    BY DEF CreateNotification
  <1>3. /\ behind' = IF connected THEN behind ELSE Untold
        /\ UNCHANGED <<connected, open, list, count, fetch, reply, invalid, calls, mishaps>>
    BY DEF CreateNotification, page
  <1>4. /\ store' \in [Ids -> {"none", "unread", "read", "deleted"}]
        /\ n \notin Persisted /\ n \in Persisted' /\ Persisted \subseteq Persisted'
    BY <1>1, <1>2, CreatedRow
  <1>5. /\ wire \in Seq(Ids) /\ \A i \in DOMAIN wire : wire[i] \in Persisted'
        /\ calls \in [Calls -> CallData]
        /\ \A c \in Calls : calls[c].phase \in {"asked", "done"} => calls[c].op # "none"
        /\ mishaps \in 0..MaxMishaps /\ connected \in BOOLEAN
    BY <1>1, <1>4, EventsKept
  <1>6. CASE connected
    <2>1. wire' = Append(wire, n) /\ behind' = behind
      BY <1>2, <1>3, <1>6
    <2>2. /\ wire' \in Seq(Ids) /\ DOMAIN wire' = 1..(Len(wire) + 1)
          /\ DOMAIN wire = 1..Len(wire) /\ Len(wire) \in Nat
          /\ wire'[Len(wire) + 1] = n /\ \A i \in 1..Len(wire) : wire'[i] = wire[i]
      BY <2>1, <1>5
    <2>3. \A i \in DOMAIN wire' : wire'[i] \in Persisted'
      BY <2>2, <1>4, <1>5
    <2>4. \E i \in DOMAIN wire' : wire'[i] \notin Persisted
      <3>1. Len(wire) + 1 \in DOMAIN wire'
        BY <2>2
      <3>2. QED
        BY <3>1, <2>2, <1>4
    <2>5. QED
      BY <2>1, <2>2, <2>3, <2>4, <1>3, <1>4, <1>5, ServerMoves
  <1>7. CASE ~connected
    <2>1. wire' = wire /\ behind' = Untold
      BY <1>2, <1>3, <1>7
    <2>2. QED
      BY <2>1, <1>3, <1>4, <1>5, ServerMoves
  <1>8. QED
    BY <1>6, <1>7

LEMMA EmitLostKeeps ==
    ASSUME NotificationsInv, EmitLost
    PROVE  NotificationsInv'
  <1>1. PageTypes
    BY DEF NotificationsInv
  <1>2. PICK n \in Ids : Created(n)
    BY DEF EmitLost
  <1>3. /\ behind' = Untold /\ Mishap
        /\ UNCHANGED <<connected, wire, open, list, count, fetch, reply, invalid, calls>>
    BY DEF EmitLost, page
  <1>4. /\ store' \in [Ids -> {"none", "unread", "read", "deleted"}]
        /\ Persisted \subseteq Persisted'
    BY <1>1, <1>2, CreatedRow
  <1>5. /\ wire \in Seq(Ids) /\ \A i \in DOMAIN wire : wire[i] \in Persisted'
        /\ calls \in [Calls -> CallData]
        /\ \A c \in Calls : calls[c].phase \in {"asked", "done"} => calls[c].op # "none"
        /\ mishaps' \in 0..MaxMishaps /\ connected \in BOOLEAN
    BY <1>1, <1>3, <1>4, EventsKept
  <1>6. QED
    BY <1>3, <1>4, <1>5, ServerMoves

LEMMA ActElsewhereKeeps ==
    ASSUME NotificationsInv, ActElsewhere
    PROVE  NotificationsInv'
  <1>1. PageTypes
    BY DEF NotificationsInv
  <1>2. PICK op \in {"read", "readAll", "delete"}, n \in Persisted : store' = Done(op, n)
    BY DEF ActElsewhere
  <1>3. /\ behind' = Untold /\ Mishap
        /\ UNCHANGED <<connected, wire, open, list, count, fetch, reply, invalid, calls>>
    BY DEF ActElsewhere, page
  <1>4. /\ store' \in [Ids -> {"none", "unread", "read", "deleted"}]
        /\ Persisted \subseteq Persisted'
    BY <1>1, <1>2, DoneRows
  <1>5. /\ wire \in Seq(Ids) /\ \A i \in DOMAIN wire : wire[i] \in Persisted'
        /\ calls \in [Calls -> CallData]
        /\ \A c \in Calls : calls[c].phase \in {"asked", "done"} => calls[c].op # "none"
        /\ mishaps' \in 0..MaxMishaps /\ connected \in BOOLEAN
    BY <1>1, <1>3, <1>4, EventsKept
  <1>6. QED
    BY <1>3, <1>4, <1>5, ServerMoves

(* The connection of the socket: with it go the events on the way. *)
LEMMA ConnectionKeeps ==
    ASSUME NotificationsInv, Connect \/ Disconnect
    PROVE  NotificationsInv'
  <1>1. PageTypes
    BY DEF NotificationsInv
  <1>2. /\ UNCHANGED <<store, open, list, count, fetch, reply, invalid, calls>>
        /\ connected' \in BOOLEAN
        /\ Mishap \/ mishaps' = mishaps
        /\ wire' = wire \/ wire' = <<>>
        /\ (wire' = wire /\ behind' = behind) \/ behind' = Untold
    BY DEF Connect, Disconnect, page
  <1>3. Persisted' = Persisted
    BY <1>2, SameTable
  <1>4. store \in [Ids -> {"none", "unread", "read", "deleted"}]
    BY <1>1 DEF PageTypes
  <1>5. /\ wire \in Seq(Ids) /\ \A i \in DOMAIN wire : wire[i] \in Persisted'
        /\ calls \in [Calls -> CallData]
        /\ \A c \in Calls : calls[c].phase \in {"asked", "done"} => calls[c].op # "none"
        /\ mishaps' \in 0..MaxMishaps
    BY <1>1, <1>2, <1>3, EventsKept
  <1>6. wire' \in Seq(Ids) /\ \A i \in DOMAIN wire' : wire'[i] \in Persisted'
    <2>1. CASE wire' = wire
      BY <2>1, <1>5
    <2>2. CASE wire' = <<>>
      <3>1. <<>> \in Seq(Ids) /\ DOMAIN <<>> = {}
        OBVIOUS
      <3>2. QED
        BY <2>2, <3>1
    <2>3. QED
      BY <2>1, <2>2, <1>2
  <1>7. NoneDone' => NoneDone
    BY <1>2 DEF NoneDone
  <1>8. QED
    BY <1>2, <1>3, <1>4, <1>5, <1>6, <1>7, ServerMoves

(* What becomes of a click that goes on. *)
LEMMA CallMoves ==
    ASSUME PageTypes, NEW c \in Calls, NEW phase \in {"asked", "done", "over"},
           calls' = [calls EXCEPT ![c].phase = phase],
           calls[c].phase \in {"asked", "done"}
    PROVE  /\ calls' \in [Calls -> CallData] /\ calls'[c].phase = phase
           /\ \A d \in Calls \ {c} : calls'[d] = calls[d]
           /\ \A d \in Calls : calls'[d].phase \in {"asked", "done"} => calls'[d].op # "none"
  <1>1. calls \in [Calls -> CallData]
    BY DEF PageTypes
  <1>2. PICK r \in CallData : r = calls[c]
    BY <1>1
  <1>3. PICK q : q = [r EXCEPT !.phase = phase]
    OBVIOUS
  <1>4. q \in CallData /\ q.phase = phase /\ q.op = r.op
    BY <1>2, <1>3 DEF CallData
  <1>5. calls' = [calls EXCEPT ![c] = q]
    BY <1>2, <1>3
  <1>6. /\ calls' \in [Calls -> CallData] /\ calls'[c] = q
        /\ \A d \in Calls \ {c} : calls'[d] = calls[d]
    BY <1>1, <1>4, <1>5
  <1>7. \A d \in Calls : calls[d].phase \in {"asked", "done"} => calls[d].op # "none"
    BY DEF PageTypes
  <1>8. QED
    BY <1>2, <1>4, <1>6, <1>7

LEMMA ServeKeeps ==
    ASSUME NotificationsInv, NEW c \in Calls, Serve(c)
    PROVE  NotificationsInv'
  <1> DEFINE op == calls[c].op
             n == calls[c].id
  <1>1. PageTypes
    BY DEF NotificationsInv
  <1>2. /\ calls[c].phase = "asked"
        /\ UNCHANGED <<connected, wire, open, list, count, fetch, reply, invalid,
                       mishaps, behind>>
        /\ \/ /\ store' = Done(op, n)
              /\ calls' = [calls EXCEPT ![c].phase = "done"]
           \/ /\ calls' = [calls EXCEPT ![c].phase = "over"]
              /\ UNCHANGED store
    BY DEF Serve, page
  <1>3. op \in {"read", "readAll", "delete"}
    BY <1>1, <1>2 DEF PageTypes, CallData
  <1>4. PICK o, m : o = op /\ m = n
    OBVIOUS
  <1>5. store \in [Ids -> {"none", "unread", "read", "deleted"}]
    BY <1>1 DEF PageTypes
  <1>6. CASE store' = Done(op, n) /\ calls' = [calls EXCEPT ![c].phase = "done"]
    <2>1. /\ store' \in [Ids -> {"none", "unread", "read", "deleted"}]
          /\ Persisted \subseteq Persisted'
      BY <1>1, <1>3, <1>4, <1>6, DoneRows
    <2>2. /\ calls' \in [Calls -> CallData] /\ calls'[c].phase = "done"
          /\ \A d \in Calls : calls'[d].phase \in {"asked", "done"} => calls'[d].op # "none"
      BY <1>1, <1>2, <1>6, CallMoves
    <2>3. ~NoneDone'
      BY <2>2 DEF NoneDone
    <2>4. /\ wire \in Seq(Ids) /\ \A i \in DOMAIN wire : wire[i] \in Persisted'
          /\ mishaps \in 0..MaxMishaps /\ connected \in BOOLEAN
      BY <1>1, <2>1, EventsKept
    <2> HIDE DEF op, n
    <2>5. QED
      BY <1>2, <2>1, <2>2, <2>3, <2>4, ServerMoves
  <1>7. CASE calls' = [calls EXCEPT ![c].phase = "over"] /\ UNCHANGED store
    <2>1. /\ calls' \in [Calls -> CallData]
          /\ \A d \in Calls \ {c} : calls'[d] = calls[d]
          /\ \A d \in Calls : calls'[d].phase \in {"asked", "done"} => calls'[d].op # "none"
      BY <1>1, <1>2, <1>7, CallMoves
    <2>2. NoneDone' => NoneDone
      BY <1>2, <2>1 DEF NoneDone
    <2>3. Persisted' = Persisted
      BY <1>7, SameTable
    <2>4. /\ wire \in Seq(Ids) /\ \A i \in DOMAIN wire : wire[i] \in Persisted'
          /\ mishaps \in 0..MaxMishaps /\ connected \in BOOLEAN
      BY <1>1, <2>3, EventsKept
    <2>5. QED
      BY <1>2, <1>5, <1>7, <2>1, <2>2, <2>3, <2>4, ServerMoves
  <1>8. QED
    BY <1>2, <1>6, <1>7

LEMMA CallFailsKeeps ==
    ASSUME NotificationsInv, NEW c \in Calls, CallFails(c)
    PROVE  NotificationsInv'
  <1>1. PageTypes
    BY DEF NotificationsInv
  <1>2. /\ Mishap /\ calls[c].phase \in {"asked", "done"}
        /\ calls' = [calls EXCEPT ![c].phase = "over"]
        /\ behind' = IF calls[c].phase = "done" THEN Untold ELSE behind
        /\ UNCHANGED <<store, connected, wire, open, list, count, fetch, reply, invalid>>
    BY DEF CallFails, page
  <1>3. /\ calls' \in [Calls -> CallData]
        /\ \A d \in Calls \ {c} : calls'[d] = calls[d]
        /\ \A d \in Calls : calls'[d].phase \in {"asked", "done"} => calls'[d].op # "none"
    BY <1>1, <1>2, CallMoves
  <1>4. store \in [Ids -> {"none", "unread", "read", "deleted"}]
    BY <1>1 DEF PageTypes
  <1>5. Persisted' = Persisted
    BY <1>2, SameTable
  <1>6. /\ wire \in Seq(Ids) /\ \A i \in DOMAIN wire : wire[i] \in Persisted'
        /\ mishaps' \in 0..MaxMishaps /\ connected \in BOOLEAN
    BY <1>1, <1>2, <1>5, EventsKept
  <1>7. calls[c].phase # "done" => behind' = behind /\ (NoneDone' => NoneDone)
    BY <1>2, <1>3 DEF NoneDone
  <1>8. calls[c].phase = "done" => behind' = Untold
    BY <1>2
  <1>9. QED
    BY <1>2, <1>3, <1>4, <1>5, <1>6, <1>7, <1>8, ServerMoves

-----------------------------------------------------------------------------
(* Steps of the query cache *)

(* The data of a query are an answer's or the old ones, nothing if none. *)
LEMMA NoReplySound == NoReply \in [list : Seq(Item), count : Int] /\ SoundList(NoReply.list)
  <1>1. <<>> \in Seq(Item) /\ DOMAIN <<>> = {}
    OBVIOUS
  <1>2. NoReply.list = <<>> /\ NoReply.count = -1 /\ -1 \in Int
    BY DEF NoReply, NoCount
  <1>3. NoReply \in [list : Seq(Item), count : Int]
    BY <1>1, <1>2 DEF NoReply, NoCount
  <1>4. SoundList(<<>>)
    BY <1>1 DEF SoundList, Distinct, IdsOf
  <1>5. QED
    BY <1>2, <1>3, <1>4

(* The page moves, the table and the events on the way stay. *)
LEMMA PageTyped ==
    ASSUME PageTypes, UNCHANGED <<store, connected>>,
           open' \in BOOLEAN, mishaps' \in 0..MaxMishaps,
           wire' \in Seq(Ids), \A i \in DOMAIN wire' : wire'[i] \in Persisted,
           NEW a, list' = a, a \in [cached : BOOLEAN, items : Seq(Item)],
           SoundList(a.items), count' \in Int,
           fetch' \in [Queries -> {"idle", "asked", "answered"}],
           NEW b, reply' = b, b \in [list : Seq(Item), count : Int], SoundList(b.list),
           invalid' \in BOOLEAN, behind' \in [Queries -> BOOLEAN],
           calls' \in [Calls -> CallData],
           \A c \in Calls : calls'[c].phase \in {"asked", "done"} => calls'[c].op # "none"
    PROVE  PageTypes'
  <1>1. store' = store /\ connected' = connected /\ Persisted' = Persisted
    BY SameTable
  <1>2. SoundList(list.items)' /\ SoundList(reply.list)'
    BY <1>1 DEF SoundList
  <1>3. store' \in [Ids -> {"none", "unread", "read", "deleted"}] /\ connected' \in BOOLEAN
    BY <1>1 DEF PageTypes
  <1>4. QED
    BY <1>1, <1>2, <1>3 DEF PageTypes

LEMMA AnswerKeeps ==
    ASSUME NotificationsInv, NEW q \in Queries, Answer(q)
    PROVE  NotificationsInv'
  <1>1. PageTypes /\ CountInv /\ ListInv /\ OpenInv
    BY DEF NotificationsInv
  <1>2. /\ fetch[q] = "asked" /\ fetch' = [fetch EXCEPT ![q] = "answered"]
        /\ behind' = [behind EXCEPT ![q] = FALSE]
        /\ UNCHANGED <<store, connected, wire, open, list, count, invalid, calls, mishaps>>
        /\ q = "list" => reply' = [reply EXCEPT !.list = ServerList]
        /\ q = "count" => reply' = [reply EXCEPT !.count = ServerCount]
    BY DEF Answer, page
  <1>3. /\ ServerList' = ServerList /\ ServerCount' = ServerCount
        /\ ServerCount \in Int /\ SoundList(ServerList)
    BY <1>1, <1>2, SameTable, CountType, ServerListSound DEF PageTypes
  <1>4. /\ fetch \in [Queries -> {"idle", "asked", "answered"}]
        /\ behind \in [Queries -> BOOLEAN]
        /\ reply \in [list : Seq(Item), count : Int] /\ SoundList(reply.list)
    BY <1>1 DEF PageTypes
  <1>5. PICK b, v, n : b = reply' /\ v = ServerList /\ n = ServerCount
    OBVIOUS
  <1>6. v \in Seq(Item)
    BY <1>3, <1>5 DEF SoundList
  <1>7. /\ b \in [list : Seq(Item), count : Int] /\ SoundList(b.list)
        /\ q = "list" => b.list = v /\ b.count = reply.count
        /\ q = "count" => b.count = n /\ b.list = reply.list
    BY <1>2, <1>3, <1>4, <1>5, <1>6 DEF Queries
  <1>8. /\ fetch' \in [Queries -> {"idle", "asked", "answered"}]
        /\ behind' \in [Queries -> BOOLEAN]
        /\ \A p \in Queries \ {q} : fetch'[p] = fetch[p] /\ behind'[p] = behind[p]
        /\ fetch'[q] = "answered" /\ behind'[q] = FALSE
    BY <1>2, <1>4
  <1>9. PageTypes'
    BY <1>1, <1>2, <1>5, <1>7, <1>8, PageTyped DEF PageTypes
  <1>10. NoneDone' = NoneDone
    BY <1>2 DEF NoneDone
  <1>11. CASE q = "count"
    <2>1. /\ fetch'.count = "answered" /\ fetch'.list = fetch.list
          /\ behind'.list = behind.list /\ reply'.count = ServerCount /\ reply'.list = reply.list
      BY <1>5, <1>7, <1>8, <1>11 DEF Queries
    <2>2. CountInv'
      BY <1>3, <2>1 DEF CountInv
    <2>3. KnownIn(list.items)' <=> KnownIn(list.items)
      BY <1>2 DEF KnownIn, IdsOf
    <2>4. KnownIn(reply.list)' <=> KnownIn(reply.list)
      BY <1>2, <2>1 DEF KnownIn, IdsOf
    <2>5. ListInv' /\ OpenInv'
      BY <1>1, <1>2, <1>3, <1>10, <2>1, <2>3, <2>4 DEF ListInv, OpenInv
    <2>6. QED
      BY <1>9, <2>2, <2>5 DEF NotificationsInv
  <1>12. CASE q = "list"
    <2>1. /\ fetch'.list = "answered" /\ fetch'.count = fetch.count
          /\ behind'.count = behind.count /\ reply'.list = ServerList /\ reply'.count = reply.count
      BY <1>5, <1>7, <1>8, <1>12 DEF Queries
    <2>2. CountInv'
      BY <1>1, <1>2, <1>3, <1>10, <2>1 DEF CountInv
    <2>3. ListInv' /\ OpenInv'
      BY <1>3, <2>1 DEF ListInv, OpenInv
    <2>4. QED
      BY <1>9, <2>2, <2>3 DEF NotificationsInv
  <1>13. QED
    BY <1>11, <1>12 DEF Queries

(* A fetch is over: its answer is the page's, or forgotten. *)
LEMMA ReplyDropped ==
    ASSUME PageTypes, NEW q \in Queries,
           fetch' = [fetch EXCEPT ![q] = "idle"],
           reply' = [reply EXCEPT ![q] = NoReply[q]]
    PROVE  /\ fetch' \in [Queries -> {"idle", "asked", "answered"}]
           /\ \A p \in Queries \ {q} : fetch'[p] = fetch[p]
           /\ fetch'[q] = "idle"
           /\ reply' \in [list : Seq(Item), count : Int] /\ SoundList(reply'.list)
           /\ q = "count" => reply'.list = reply.list
           /\ q = "list" => reply'.count = reply.count
  <1>1. /\ fetch \in [Queries -> {"idle", "asked", "answered"}]
        /\ reply \in [list : Seq(Item), count : Int] /\ SoundList(reply.list)
    BY DEF PageTypes
  <1>2. PICK none : none = NoReply
    OBVIOUS
  <1>3. none \in [list : Seq(Item), count : Int] /\ SoundList(none.list)
    BY <1>2, NoReplySound
  <1>4. PICK b, r : b = reply' /\ r = reply
    OBVIOUS
  <1>5. b = [r EXCEPT ![q] = none[q]]
    BY <1>2, <1>4
  <1>6. CASE q = "list"
    <2>1. b \in [list : Seq(Item), count : Int] /\ b.list = none.list /\ b.count = r.count
      BY <1>1, <1>3, <1>4, <1>5, <1>6
    <2>2. QED
      BY <1>1, <1>3, <1>4, <1>6, <2>1
  <1>7. CASE q = "count"
    <2>1. b \in [list : Seq(Item), count : Int] /\ b.list = r.list
      BY <1>1, <1>3, <1>4, <1>5, <1>7
    <2>2. QED
      BY <1>1, <1>4, <1>7, <2>1
  <1>8. QED
    BY <1>6, <1>7 DEF Queries

LEMMA ArriveKeeps ==
    ASSUME NotificationsInv, NEW q \in Queries, Arrive(q)
    PROVE  NotificationsInv'
  <1>1. PageTypes /\ CountInv /\ ListInv /\ OpenInv
    BY DEF NotificationsInv
  <1>2. /\ fetch[q] = "answered" /\ fetch' = [fetch EXCEPT ![q] = "idle"]
        /\ reply' = [reply EXCEPT ![q] = NoReply[q]]
        /\ UNCHANGED <<store, connected, wire, open, calls, mishaps, behind>>
        /\ q = "list" => /\ list' = [cached |-> TRUE, items |-> reply.list]
                         /\ invalid' = FALSE /\ count' = count
        /\ q = "count" => /\ count' = reply.count
                          /\ list' = list /\ invalid' = invalid
    BY DEF Arrive
  <1>3. ServerList' = ServerList /\ ServerCount' = ServerCount
    BY <1>2, SameTable
  <1>4. /\ fetch' \in [Queries -> {"idle", "asked", "answered"}]
        /\ \A p \in Queries \ {q} : fetch'[p] = fetch[p]
        /\ fetch'[q] = "idle"
        /\ reply' \in [list : Seq(Item), count : Int] /\ SoundList(reply'.list)
        /\ q = "count" => reply'.list = reply.list
        /\ q = "list" => reply'.count = reply.count
    BY <1>1, <1>2, ReplyDropped
  <1>5. PICK a, b : a = list' /\ b = reply'
    OBVIOUS
  <1>6. /\ reply \in [list : Seq(Item), count : Int] /\ SoundList(reply.list)
        /\ list \in [cached : BOOLEAN, items : Seq(Item)] /\ SoundList(list.items)
        /\ count \in Int /\ invalid \in BOOLEAN
    BY <1>1 DEF PageTypes
  <1>7. /\ a \in [cached : BOOLEAN, items : Seq(Item)] /\ SoundList(a.items)
        /\ count' \in Int /\ invalid' \in BOOLEAN
    <2>1. CASE q = "list"
      <3>1. PICK r \in [list : Seq(Item), count : Int] : r = reply
        BY <1>6
      <3>2. a = [cached |-> TRUE, items |-> r.list]
        BY <2>1, <3>1, <1>2, <1>5
      <3>3. a \in [cached : BOOLEAN, items : Seq(Item)] /\ a.items = r.list
        BY <3>2
      <3>4. QED
        BY <2>1, <3>1, <3>3, <1>2, <1>6
    <2>2. CASE q = "count"
      BY <2>2, <1>2, <1>5, <1>6
    <2>3. QED
      BY <2>1, <2>2 DEF Queries
  <1>8. PageTypes'
    BY <1>1, <1>2, <1>4, <1>5, <1>7, PageTyped DEF PageTypes
  <1>9. NoneDone' = NoneDone
    BY <1>2 DEF NoneDone
  <1>10. CASE q = "count"
    <2>1. /\ fetch.count = "answered" /\ fetch'.count = "idle" /\ fetch'.list = fetch.list
          /\ count' = reply.count /\ reply'.list = reply.list
      BY <1>2, <1>4, <1>10 DEF Queries
    <2>2. CountInv'
      BY <1>1, <1>2, <1>3, <1>9, <2>1 DEF CountInv
    <2>3. KnownIn(list.items)' <=> KnownIn(list.items)
      BY <1>2, <1>10 DEF KnownIn, IdsOf
    <2>4. KnownIn(reply.list)' <=> KnownIn(reply.list)
      BY <1>2, <2>1 DEF KnownIn, IdsOf
    <2>5. ListInv' /\ OpenInv'
      BY <1>1, <1>2, <1>3, <1>9, <1>10, <2>1, <2>3, <2>4 DEF ListInv, OpenInv
    <2>6. QED
      BY <1>8, <2>2, <2>5 DEF NotificationsInv
  <1>11. CASE q = "list"
    <2>1. /\ fetch.list = "answered" /\ fetch'.list = "idle" /\ fetch'.count = fetch.count
          /\ list'.items = reply.list /\ list'.cached /\ ~invalid'
          /\ reply'.count = reply.count /\ count' = count
      BY <1>2, <1>4, <1>11 DEF Queries
    <2>2. CountInv'
      BY <1>1, <1>2, <1>3, <1>9, <2>1 DEF CountInv
    <2>3. KnownIn(list.items)' <=> KnownIn(reply.list)
      BY <1>2, <2>1 DEF KnownIn, IdsOf
    <2>4. ListInv' /\ OpenInv'
      BY <1>1, <1>2, <1>3, <1>9, <2>1, <2>3 DEF ListInv, OpenInv
    <2>5. QED
      BY <1>8, <2>2, <2>4 DEF NotificationsInv
  <1>12. QED
    BY <1>10, <1>11 DEF Queries

LEMMA FetchFailsKeeps ==
    ASSUME NotificationsInv, NEW q \in Queries, FetchFails(q)
    PROVE  NotificationsInv'
  <1>1. PageTypes /\ CountInv /\ ListInv /\ OpenInv
    BY DEF NotificationsInv
  <1>2. /\ Mishap /\ fetch' = [fetch EXCEPT ![q] = "idle"]
        /\ reply' = [reply EXCEPT ![q] = NoReply[q]]
        /\ behind' = [behind EXCEPT ![q] = TRUE]
        /\ UNCHANGED <<store, connected, wire, open, list, count, invalid, calls>>
    BY DEF FetchFails, page
  <1>3. ServerList' = ServerList /\ ServerCount' = ServerCount
    BY <1>2, SameTable
  <1>4. /\ fetch' \in [Queries -> {"idle", "asked", "answered"}]
        /\ \A p \in Queries \ {q} : fetch'[p] = fetch[p]
        /\ fetch'[q] = "idle"
        /\ reply' \in [list : Seq(Item), count : Int] /\ SoundList(reply'.list)
        /\ q = "count" => reply'.list = reply.list
        /\ q = "list" => reply'.count = reply.count
    BY <1>1, <1>2, ReplyDropped
  <1>5. /\ behind' \in [Queries -> BOOLEAN] /\ behind'[q]
        /\ \A p \in Queries \ {q} : behind'[p] = behind[p]
    BY <1>1, <1>2 DEF PageTypes
  <1>6. PICK a, b : a = list' /\ b = reply'
    OBVIOUS
  <1>7. mishaps' \in 0..MaxMishaps
    BY <1>1, <1>2, EventsKept, SameTable
  <1>8. PageTypes'
    BY <1>1, <1>2, <1>4, <1>5, <1>6, <1>7, PageTyped DEF PageTypes
  <1>9. NoneDone' = NoneDone
    BY <1>2 DEF NoneDone
  <1>10. KnownIn(list.items)' <=> KnownIn(list.items)
    BY <1>2 DEF KnownIn, IdsOf
  <1>11. CASE q = "count"
    <2>1. /\ behind'.count /\ fetch'.list = fetch.list /\ behind'.list = behind.list
          /\ reply'.list = reply.list
      BY <1>4, <1>5, <1>11 DEF Queries
    <2>2. KnownIn(reply.list)' <=> KnownIn(reply.list)
      BY <1>2, <2>1 DEF KnownIn, IdsOf
    <2>3. CountInv' /\ ListInv' /\ OpenInv'
      BY <1>1, <1>2, <1>3, <1>9, <1>10, <2>1, <2>2 DEF CountInv, ListInv, OpenInv
    <2>4. QED
      BY <1>8, <2>3 DEF NotificationsInv
  <1>12. CASE q = "list"
    <2>1. /\ behind'.list /\ fetch'.count = fetch.count /\ behind'.count = behind.count
          /\ reply'.count = reply.count
      BY <1>4, <1>5, <1>12 DEF Queries
    <2>2. CountInv' /\ ListInv' /\ OpenInv'
      BY <1>1, <1>2, <1>3, <1>9, <2>1 DEF CountInv, ListInv, OpenInv
    <2>3. QED
      BY <1>8, <2>2 DEF NotificationsInv
  <1>13. QED
    BY <1>11, <1>12 DEF Queries

(* A query that is shown and is invalidated is fetched again; a list that  *)
(* is not shown is fetched when it is.                                     *)
LEMMA InvalidateKeeps ==
    ASSUME NotificationsInv, Invalidate(Queries), UNCHANGED <<store, connected, open, mishaps>>,
           wire' \in Seq(Ids), \A i \in DOMAIN wire' : wire'[i] \in Persisted,
           NEW a, list' = [list EXCEPT !.items = a], SoundList(a), count' \in Int,
           calls' \in [Calls -> CallData],
           \A c \in Calls : calls'[c].phase \in {"asked", "done"} => calls'[c].op # "none"
    PROVE  NotificationsInv'
  <1>1. PageTypes /\ OpenInv
    BY DEF NotificationsInv
  <1>2. /\ fetch \in [Queries -> {"idle", "asked", "answered"}]
        /\ behind \in [Queries -> BOOLEAN] /\ invalid \in BOOLEAN
        /\ reply \in [list : Seq(Item), count : Int] /\ SoundList(reply.list)
        /\ list \in [cached : BOOLEAN, items : Seq(Item)]
    BY <1>1 DEF PageTypes
  <1> DEFINE restarted == {q \in Queries : Restarts(q)}
  <1>3. /\ fetch' = [q \in Queries |-> IF q \in restarted THEN "asked" ELSE fetch[q]]
        /\ reply' = [q \in Queries |-> IF q \in restarted THEN NoReply[q] ELSE reply[q]]
        /\ invalid' = (invalid \/ ("list" \in Queries \ restarted /\ list.cached))
        /\ behind' = [q \in Queries |->
                        behind[q] \/ (q \in Queries \ restarted /\ fetch[q] = "answered")]
    BY DEF Invalidate
  <1>4. /\ fetch' \in [Queries -> {"idle", "asked", "answered"}]
        /\ \A q \in Queries : /\ fetch'[q] = "idle" => fetch[q] = "idle" /\ ~Restarts(q)
                              /\ fetch'[q] = "answered" => behind'[q]
    BY <1>2, <1>3
  <1>5. behind' \in [Queries -> BOOLEAN] /\ invalid' \in BOOLEAN
    BY <1>2, <1>3
  <1>6. ~Restarts("list") /\ list.cached => invalid'
    BY <1>3 DEF Queries
  <1> HIDE DEF restarted
  <1>7. PICK b : b = reply'
    OBVIOUS
  <1>8. b \in [list : Seq(Item), count : Int] /\ SoundList(b.list)
    <2>1. PICK none \in [list : Seq(Item), count : Int] : none = NoReply
      BY NoReplySound
    <2>2. PICK r \in [list : Seq(Item), count : Int] : r = reply
      BY <1>2
    <2>3. b = [q \in Queries |-> IF q \in restarted THEN none[q] ELSE r[q]]
      BY <2>1, <2>2, <1>3, <1>7
    <2>4. b.list \in {none.list, r.list} /\ b.count \in {none.count, r.count}
      BY <2>3 DEF Queries
    <2>5. b = [list |-> b.list, count |-> b.count]
      BY <2>3 DEF Queries
    <2>6. b.list \in Seq(Item) /\ b.count \in Int
      BY <2>4
    <2>7. b \in [list : Seq(Item), count : Int]
      BY <2>5, <2>6
    <2>8. QED
      BY <2>1, <2>2, <2>4, <2>7, <1>2, NoReplySound
  <1>9. PICK l : l = list'
    OBVIOUS
  <1>10. l \in [cached : BOOLEAN, items : Seq(Item)] /\ l.items = a /\ l.cached = list.cached
    <2>1. a \in Seq(Item)
      BY DEF SoundList
    <2>2. QED
      BY <2>1, <1>2, <1>9
  <1>11. open' \in BOOLEAN /\ mishaps' \in 0..MaxMishaps
    BY <1>1 DEF PageTypes
  <1>12. PageTypes'
    BY <1>1, <1>4, <1>5, <1>7, <1>8, <1>9, <1>10, <1>11, PageTyped
  <1>13. fetch'.count # "idle" /\ (fetch'.count = "answered" => behind'.count)
    BY <1>4 DEF Restarts, Mounted, Queries
  <1>14. CountInv'
    BY <1>13 DEF CountInv
  <1>15. /\ fetch'.list = "answered" => behind'.list
         /\ fetch'.list = "idle" => ~open /\ ~Restarts("list")
    BY <1>4 DEF Restarts, Mounted, Queries
  <1>16. ListInv'
    BY <1>6, <1>9, <1>10, <1>15 DEF ListInv
  <1>17. OpenInv'
    BY <1>15 DEF OpenInv
  <1>18. QED
    BY <1>12, <1>14, <1>16, <1>17 DEF NotificationsInv

(* The events after the first one. *)
LEMMA WireTail ==
    ASSUME PageTypes, wire # <<>>
    PROVE  /\ Tail(wire) \in Seq(Ids) /\ \A i \in DOMAIN Tail(wire) : Tail(wire)[i] \in Persisted
           /\ Head(wire) \in Ids /\ Head(wire) \in Persisted
           /\ \A i \in DOMAIN wire :
                wire[i] = Head(wire) \/ \E j \in DOMAIN Tail(wire) : wire[i] = Tail(wire)[j]
           /\ \A j \in DOMAIN Tail(wire) : \E i \in DOMAIN wire : wire[i] = Tail(wire)[j]
  <1>1. wire \in Seq(Ids) /\ \A i \in DOMAIN wire : wire[i] \in Persisted
    BY DEF PageTypes
  <1>2. /\ Len(wire) \in Nat /\ DOMAIN wire = 1..Len(wire) /\ Len(wire) >= 1
        /\ Tail(wire) \in Seq(Ids) /\ DOMAIN Tail(wire) = 1..(Len(wire) - 1)
        /\ Head(wire) = wire[1]
        /\ \A i \in 1..(Len(wire) - 1) : Tail(wire)[i] = wire[i + 1]
    BY <1>1
  <1>3. \A i \in 1..(Len(wire) - 1) : i + 1 \in DOMAIN wire
    BY <1>2
  <1>4. \A i \in DOMAIN wire : i = 1 \/ (i - 1 \in 1..(Len(wire) - 1) /\ (i - 1) + 1 = i)
    BY <1>2
  <1>5. \A i \in DOMAIN wire :
          wire[i] = Head(wire) \/ \E j \in DOMAIN Tail(wire) : wire[i] = Tail(wire)[j]
    BY <1>2, <1>4
  <1>6. 1 \in DOMAIN wire /\ wire[1] \in Ids
    BY <1>1, <1>2
  <1>7. QED
    BY <1>1, <1>2, <1>3, <1>5, <1>6

LEMMA ReceiveNewKeeps ==
    ASSUME NotificationsInv, ReceiveNew
    PROVE  NotificationsInv'
  <1>1. PageTypes
    BY DEF NotificationsInv
  <1>2. /\ wire # <<>> /\ wire' = Tail(wire) /\ Head(wire) \notin IdsOf(list.items)
        /\ list' = [list EXCEPT !.items = <<[id |-> Head(wire), read |-> FALSE]>> \o @]
        /\ count' = IF count = NoCount THEN NoCount ELSE count + 1
        /\ Invalidate(Queries) /\ UNCHANGED <<store, connected, open, calls, mishaps>>
    BY DEF ReceiveNew, IsNew, Refreshed
  <1>3. /\ SoundList(list.items) /\ count \in Int /\ calls \in [Calls -> CallData]
        /\ \A c \in Calls : calls[c].phase \in {"asked", "done"} => calls[c].op # "none"
        /\ list \in [cached : BOOLEAN, items : Seq(Item)]
    BY <1>1 DEF PageTypes
  <1>4. /\ wire' \in Seq(Ids) /\ \A i \in DOMAIN wire' : wire'[i] \in Persisted
        /\ Head(wire) \in Ids /\ Head(wire) \in Persisted
    BY <1>1, <1>2, WireTail
  <1>5. PICK a : a = <<[id |-> Head(wire), read |-> FALSE]>> \o list.items
    OBVIOUS
  <1>6. SoundList(a)
    BY <1>2, <1>3, <1>4, <1>5, OnTopSound
  <1>7. list' = [list EXCEPT !.items = a]
    BY <1>2, <1>3, <1>5
  <1>8. count' \in Int
    BY <1>2, <1>3 DEF NoCount
  <1>9. QED
    BY <1>2, <1>3, <1>4, <1>6, <1>7, <1>8, InvalidateKeeps

LEMMA CallSucceedsKeeps ==
    ASSUME NotificationsInv, NEW c \in Calls, CallSucceeds(c)
    PROVE  NotificationsInv'
  <1>1. PageTypes
    BY DEF NotificationsInv
  <1>2. /\ SoundList(list.items) /\ count \in Int
        /\ list \in [cached : BOOLEAN, items : Seq(Item)]
        /\ wire \in Seq(Ids) /\ \A i \in DOMAIN wire : wire[i] \in Persisted
        /\ calls \in [Calls -> CallData]
        /\ \A d \in Calls : calls[d].phase \in {"asked", "done"} => calls[d].op # "none"
    BY <1>1 DEF PageTypes
  <1>3. PICK op, n : op = calls[c].op /\ n = calls[c].id
    OBVIOUS
  <1>4. PICK items : items = list.items
    OBVIOUS
  <1> DEFINE changed == CASE op = "read" -> OneRead(items, n)
                          [] op = "readAll" -> AllRead(items)
                          [] op = "delete" -> Without(items, n)
  <1>5. /\ calls[c].phase = "done" /\ calls' = [calls EXCEPT ![c].phase = "over"]
        /\ Invalidate(Queries) /\ UNCHANGED <<store, connected, wire, open, mishaps>>
    BY DEF CallSucceeds, InvalidatedAfterCall
  <1>6. list' = [list EXCEPT !.items = changed]
    BY <1>3, <1>4 DEF CallSucceeds
  <1>7. count' = CASE count = NoCount -> NoCount
                   [] count # NoCount /\ op = "readAll" -> 0
                   [] count # NoCount /\ op = "read" -> Less(count)
                   [] count # NoCount /\ op = "delete" ->
                        IF WasUnread(n) THEN Less(count) ELSE count
    BY <1>3 DEF CallSucceeds
  <1>8. op \in {"read", "readAll", "delete"}
    BY <1>2, <1>3, <1>5 DEF CallData
  <1>9. SoundList(changed)
    <2>1. /\ SoundList(OneRead(items, n)) /\ SoundList(AllRead(items))
          /\ SoundList(Without(items, n))
      BY <1>2, <1>4, ClickedListSound
    <2>2. changed \in {OneRead(items, n), AllRead(items), Without(items, n)}
      BY <1>8
    <2> HIDE DEF changed
    <2>3. QED
      BY <2>1, <2>2
  <1>10. count' \in Int
    <2>1. Less(count) \in Int
      BY <1>2 DEF Less
    <2>2. NoCount \in Int
      BY DEF NoCount
    <2>3. QED
      BY <2>1, <2>2, <1>2, <1>7, <1>8
  <1>11. /\ calls' \in [Calls -> CallData]
         /\ \A d \in Calls : calls'[d].phase \in {"asked", "done"} => calls'[d].op # "none"
    BY <1>1, <1>5, CallMoves
  <1> HIDE DEF changed
  <1>12. PICK a : a = changed
    OBVIOUS
  <1>13. QED
    BY <1>2, <1>5, <1>6, <1>9, <1>10, <1>11, <1>12, InvalidateKeeps

(* An event that the list has already, or that comes when there is none.   *)
LEMMA ReceiveIgnoredKeeps ==
    ASSUME NotificationsInv, ReceiveIgnored
    PROVE  NotificationsInv'
  <1>1. PageTypes /\ CountInv /\ ListInv /\ OpenInv
    BY DEF NotificationsInv
  <1>2. /\ wire # <<>> /\ wire' = Tail(wire)
        /\ list.cached => Head(wire) \in IdsOf(list.items)
        /\ behind' = [behind EXCEPT !.count = Untold.count,
             !.list = \/ @
                      \/ fetch.list = "answered" /\ Head(wire) \notin IdsOf(reply.list)
                      \/ invalid /\ fetch.list = "idle"]
        /\ invalid' = FALSE
        /\ UNCHANGED <<store, connected, open, list, count, fetch, reply, calls, mishaps>>
    BY DEF ReceiveIgnored, IsNew, page
  <1>3. /\ behind \in [Queries -> BOOLEAN]
        /\ fetch \in [Queries -> {"idle", "asked", "answered"}]
    BY <1>1 DEF PageTypes
  <1>4. Untold.count \in BOOLEAN /\ (fetch.count # "asked" => Untold.count)
    BY DEF Untold, Queries
  <1>5. /\ behind' \in [Queries -> BOOLEAN]
        /\ fetch.count # "asked" => behind'.count
        /\ behind.list => behind'.list
        /\ fetch.list = "answered" /\ ~behind'.list => Head(wire) \in IdsOf(reply.list)
        /\ fetch.list = "idle" /\ ~behind'.list => ~invalid
    <2>1. PICK x, y : /\ x = Untold.count
                      /\ y = (\/ behind.list
                              \/ fetch.list = "answered" /\ Head(wire) \notin IdsOf(reply.list)
                              \/ invalid /\ fetch.list = "idle")
      OBVIOUS
    <2>2. behind' = [behind EXCEPT !.count = x, !.list = y]
      BY <1>2, <2>1
    <2>3. x \in BOOLEAN /\ y \in BOOLEAN
      BY <1>4, <2>1
    <2>4. behind' \in [Queries -> BOOLEAN] /\ behind'.count = x /\ behind'.list = y
      BY <1>3, <2>2, <2>3 DEF Queries
    <2>5. QED
      BY <1>4, <2>1, <2>4
  <1>6. /\ wire' \in Seq(Ids) /\ \A i \in DOMAIN wire' : wire'[i] \in Persisted
        /\ \A i \in DOMAIN wire :
             wire[i] = Head(wire) \/ \E j \in DOMAIN wire' : wire[i] = wire'[j]
    BY <1>1, <1>2, WireTail
  <1>7. PICK a, b : a = list' /\ b = reply'
    OBVIOUS
  <1>8. PageTypes'
    BY <1>1, <1>2, <1>5, <1>6, <1>7, PageTyped DEF PageTypes
  <1>9. ServerList' = ServerList /\ NoneDone' = NoneDone
    BY <1>2, SameTable DEF NoneDone
  <1>10. CountInv'
    BY <1>2, <1>5 DEF CountInv
  <1>11. list.cached /\ KnownIn(list.items)' => KnownIn(list.items)
    BY <1>2, <1>6 DEF KnownIn, IdsOf
  <1>12. fetch.list = "answered" /\ ~behind'.list /\ KnownIn(reply.list)' => KnownIn(reply.list)
    <2> SUFFICES ASSUME fetch.list = "answered", ~behind'.list, KnownIn(reply.list)'
                 PROVE  KnownIn(reply.list)
      OBVIOUS
    <2>1. PICK known : known = IdsOf(reply.list)
      OBVIOUS
    <2>2. \A i \in DOMAIN wire' : wire'[i] \in known
      BY <1>2, <2>1 DEF KnownIn, IdsOf
    <2>3. Head(wire) \in known
      BY <1>5, <2>1
    <2>4. QED
      BY <1>6, <2>1, <2>2, <2>3 DEF KnownIn
  <1>13. ListInv'
    BY <1>1, <1>2, <1>5, <1>9, <1>11, <1>12 DEF ListInv
  <1>14. OpenInv'
    BY <1>1, <1>2, <1>5 DEF OpenInv
  <1>15. QED
    BY <1>8, <1>10, <1>13, <1>14 DEF NotificationsInv

-----------------------------------------------------------------------------
(* Steps of the user at the page *)

(* Opening, closing and forgetting the list, and looking at the page again. *)
LEMMA LookingKeeps ==
    ASSUME NotificationsInv, OpenDropdown \/ CloseDropdown \/ Forget \/ Focus
    PROVE  NotificationsInv'
  <1>1. PageTypes /\ CountInv /\ ListInv /\ OpenInv
    BY DEF NotificationsInv
  <1>2. UNCHANGED <<store, connected, wire, count, reply, calls, mishaps, behind>>
    BY DEF OpenDropdown, CloseDropdown, Forget, Focus, page
  <1>3. /\ list \in [cached : BOOLEAN, items : Seq(Item)] /\ SoundList(list.items)
        /\ fetch \in [Queries -> {"idle", "asked", "answered"}]
        /\ invalid \in BOOLEAN /\ open \in BOOLEAN
    BY <1>1 DEF PageTypes
  <1>4. /\ fetch' \in [Queries -> {"idle", "asked", "answered"}]
        /\ \A q \in Queries : fetch'[q] = "asked" \/ fetch'[q] = fetch[q]
        /\ ~open /\ open' /\ fetch'.list = "idle" => list.cached /\ ~invalid
    <2>1. CASE OpenDropdown
      BY <2>1, <1>3 DEF OpenDropdown, Queries
    <2>2. CASE CloseDropdown \/ Forget
      BY <2>2, <1>3 DEF CloseDropdown, Forget
    <2>3. CASE Focus
      BY <2>3, <1>3 DEF Focus, Queries, page
    <2>4. QED
      BY <2>1, <2>2, <2>3
  <1>5. open' \in BOOLEAN
    BY <1>3 DEF OpenDropdown, CloseDropdown, Forget, Focus, page
  <1>6. \/ list' = list /\ invalid' = invalid
        \/ list' = [cached |-> FALSE, items |-> <<>>] /\ invalid' = FALSE /\ ~open /\ open' = open
    BY DEF OpenDropdown, CloseDropdown, Forget, Focus, page
  <1>7. PICK a, b : a = list' /\ b = reply'
    OBVIOUS
  <1>8. /\ a \in [cached : BOOLEAN, items : Seq(Item)] /\ SoundList(a.items)
        /\ invalid' \in BOOLEAN
    <2>1. CASE list' = list /\ invalid' = invalid
      BY <2>1, <1>3, <1>7
    <2>2. CASE list' = [cached |-> FALSE, items |-> <<>>] /\ invalid' = FALSE
      <3>1. <<>> \in Seq(Item) /\ DOMAIN <<>> = {}
        OBVIOUS
      <3>2. SoundList(<<>>)
        BY <3>1 DEF SoundList, Distinct, IdsOf
      <3>3. QED
        BY <2>2, <3>1, <3>2, <1>7
    <2>3. QED
      BY <2>1, <2>2, <1>6
  <1>9. PageTypes'
    BY <1>1, <1>2, <1>4, <1>5, <1>7, <1>8, PageTyped DEF PageTypes
  <1>10. /\ ServerList' = ServerList /\ ServerCount' = ServerCount
         /\ NoneDone' = NoneDone
    BY <1>2, SameTable DEF NoneDone
  <1>11. /\ fetch'.count = "asked" \/ fetch'.count = fetch.count
         /\ fetch'.list = "asked" \/ fetch'.list = fetch.list
    BY <1>4 DEF Queries
  <1>12. CountInv'
    BY <1>1, <1>2, <1>10, <1>11 DEF CountInv
  <1>13. KnownIn(reply.list)' <=> KnownIn(reply.list)
    BY <1>2 DEF KnownIn, IdsOf
  <1>14. CASE list' = list /\ invalid' = invalid
    <2>1. KnownIn(list.items)' <=> KnownIn(list.items)
      BY <1>2, <1>14 DEF KnownIn, IdsOf
    <2>2. ListInv'
      BY <1>1, <1>2, <1>10, <1>11, <1>13, <1>14, <2>1 DEF ListInv
    <2>3. OpenInv'
      <3>1. open' => open \/ ~open
        OBVIOUS
      <3>2. QED
        BY <1>1, <1>2, <1>4, <1>11, <1>14 DEF OpenInv
    <2>4. QED
      BY <1>9, <1>12, <2>2, <2>3 DEF NotificationsInv
  <1>15. CASE list' = [cached |-> FALSE, items |-> <<>>] /\ invalid' = FALSE /\ ~open /\ open' = open
    <2>1. ListInv'
      BY <1>1, <1>2, <1>10, <1>11, <1>13, <1>15 DEF ListInv
    <2>2. OpenInv'
      BY <1>15 DEF OpenInv
    <2>3. QED
      BY <1>9, <1>12, <2>1, <2>2 DEF NotificationsInv
  <1>16. QED
    BY <1>6, <1>14, <1>15

LEMMA ClickKeeps ==
    ASSUME NotificationsInv, Click
    PROVE  NotificationsInv'
  <1>1. PageTypes
    BY DEF NotificationsInv
  <1>2. PICK c \in Calls, op \in {"read", "readAll", "delete"}, n \in Ids :
          /\ \A d \in Calls : calls[d] = NoCall <=> d >= c
          /\ calls' = [calls EXCEPT ![c] = [op |-> op, id |-> n, phase |-> "asked"]]
    BY DEF Click
  <1>3. UNCHANGED <<store, connected, wire, open, list, count, fetch, reply, invalid,
                    mishaps, behind>>
    BY DEF Click, page
  <1>4. calls[c] = NoCall
    BY <1>2 DEF Calls
  <1>5. n \in Nat
    BY NotificationsAssumption DEF Ids
  <1>6. PICK r : r = [op |-> op, id |-> n, phase |-> "asked"]
    OBVIOUS
  <1>7. r \in CallData /\ r.phase = "asked" /\ r.op # "none"
    BY <1>5, <1>6 DEF CallData
  <1>8. /\ calls \in [Calls -> CallData]
        /\ \A d \in Calls : calls[d].phase \in {"asked", "done"} => calls[d].op # "none"
    BY <1>1 DEF PageTypes
  <1>9. /\ calls' \in [Calls -> CallData] /\ calls'[c] = r
        /\ \A d \in Calls \ {c} : calls'[d] = calls[d]
    BY <1>2, <1>6, <1>7, <1>8
  <1>10. \A d \in Calls : calls'[d].phase \in {"asked", "done"} => calls'[d].op # "none"
    BY <1>7, <1>8, <1>9
  <1>11. NoneDone' => NoneDone
    BY <1>4, <1>9 DEF NoneDone, NoCall
  <1>12. Persisted' = Persisted
    BY <1>3, SameTable
  <1>13. /\ wire \in Seq(Ids) /\ \A i \in DOMAIN wire : wire[i] \in Persisted'
         /\ mishaps \in 0..MaxMishaps /\ connected \in BOOLEAN
    BY <1>1, <1>12, EventsKept
  <1>14. store \in [Ids -> {"none", "unread", "read", "deleted"}]
    BY <1>1 DEF PageTypes
  <1>15. QED
    BY <1>3, <1>9, <1>10, <1>11, <1>12, <1>13, <1>14, ServerMoves

-----------------------------------------------------------------------------
(* The theorems about Notifications *)

LEMMA NotificationsInitKeeps == ASSUME NotificationsInit PROVE NotificationsInv
  <1>1. /\ store = [n \in Ids |-> "none"] /\ connected = TRUE /\ wire = <<>> /\ open = FALSE
        /\ list = [cached |-> FALSE, items |-> <<>>] /\ count = NoCount
        /\ fetch = [q \in Queries |-> IF q = "count" THEN "asked" ELSE "idle"]
        /\ reply = NoReply /\ invalid = FALSE /\ calls = [c \in Calls |-> NoCall]
        /\ mishaps = 0 /\ behind = [q \in Queries |-> FALSE]
    BY DEF NotificationsInit
  <1>2. <<>> \in Seq(Item) /\ <<>> \in Seq(Ids) /\ DOMAIN <<>> = {}
    OBVIOUS
  <1>3. SoundList(<<>>)
    BY <1>2 DEF SoundList, Distinct, IdsOf
  <1>4. list \in [cached : BOOLEAN, items : Seq(Item)] /\ list.items = <<>> /\ ~list.cached
    BY <1>1, <1>2
  <1>5. /\ fetch \in [Queries -> {"idle", "asked", "answered"}]
        /\ fetch.count = "asked" /\ fetch.list = "idle"
    BY <1>1 DEF Queries
  <1>6. /\ NoCall \in CallData /\ NoCall.phase = "none" /\ count \in Int
        /\ 0 \in 0..MaxMishaps
    BY <1>1, NotificationsAssumption DEF NoCall, CallData, NoCount
  <1>7. PageTypes
    <2>1. calls \in [Calls -> CallData] /\ \A c \in Calls : calls[c].phase = "none"
      BY <1>1, <1>6
    <2>2. SoundList(list.items) /\ SoundList(reply.list)
      BY <1>1, <1>3, <1>4, NoReplySound
    <2>3. wire \in Seq(Ids) /\ \A i \in DOMAIN wire : wire[i] \in Persisted
      BY <1>1, <1>2
    <2>4. reply \in [list : Seq(Item), count : Int]
      BY <1>1, NoReplySound
    <2>5. store \in [Ids -> {"none", "unread", "read", "deleted"}]
      BY <1>1
    <2>6. QED
      BY <1>1, <1>4, <1>5, <1>6, <2>1, <2>2, <2>3, <2>4, <2>5 DEF PageTypes
  <1>8. CountInv /\ ListInv /\ OpenInv
    BY <1>1, <1>4, <1>5 DEF CountInv, ListInv, OpenInv
  <1>9. QED
    BY <1>7, <1>8 DEF NotificationsInv

LEMMA NotificationsStutter ==
    ASSUME NotificationsInv, UNCHANGED notificationsVars
    PROVE  NotificationsInv'
  <1>1. PageTypes
    BY DEF NotificationsInv
  <1>2. UNCHANGED <<store, connected, wire, open, list, count, fetch, reply, invalid,
                    calls, mishaps, behind>>
    BY DEF notificationsVars, page
  <1>3. Persisted' = Persisted
    BY <1>2, SameTable
  <1>4. /\ wire \in Seq(Ids) /\ \A i \in DOMAIN wire : wire[i] \in Persisted'
        /\ calls \in [Calls -> CallData]
        /\ \A c \in Calls : calls[c].phase \in {"asked", "done"} => calls[c].op # "none"
        /\ mishaps \in 0..MaxMishaps /\ connected \in BOOLEAN
        /\ store \in [Ids -> {"none", "unread", "read", "deleted"}]
    BY <1>1, <1>3, EventsKept DEF PageTypes
  <1>5. NoneDone' => NoneDone
    BY <1>2 DEF NoneDone
  <1>6. QED
    BY <1>2, <1>3, <1>4, <1>5, ServerMoves

LEMMA NotificationsNextKeeps ==
    ASSUME NotificationsInv, [NotificationsNext]_notificationsVars
    PROVE  NotificationsInv'
  <1>1. CASE CreateNotification \/ EmitLost \/ Connect \/ Disconnect \/ ActElsewhere
    BY <1>1, CreateNotificationKeeps, EmitLostKeeps, ConnectionKeeps, ActElsewhereKeeps
  <1>2. CASE Receive
    BY <1>2, ReceiveNewKeeps, ReceiveIgnoredKeeps DEF Receive
  <1>3. CASE OpenDropdown \/ CloseDropdown \/ Forget \/ Focus \/ Click
    BY <1>3, LookingKeeps, ClickKeeps
  <1>4. CASE \E q \in Queries : Answer(q) \/ Arrive(q) \/ FetchFails(q)
    BY <1>4, AnswerKeeps, ArriveKeeps, FetchFailsKeeps
  <1>5. CASE \E c \in Calls : Serve(c) \/ CallFails(c) \/ CallSucceeds(c)
    BY <1>5, ServeKeeps, CallFailsKeeps, CallSucceedsKeeps
  <1>6. CASE UNCHANGED notificationsVars
    BY <1>6, NotificationsStutter
  <1>7. QED
    BY <1>1, <1>2, <1>3, <1>4, <1>5, <1>6 DEF NotificationsNext

(* The cached count and list, and the answers on their way to them, agree  *)
(* with the table, or something is still to come that brings them back to  *)
(* it, or the page has missed a change (handleNewNotification, the         *)
(* onSuccess of the mutations and the queries they invalidate).            *)
THEOREM NotificationsInvariant == NotificationsSpec => []NotificationsInv
  <1>1. QED
    BY NotificationsInitKeeps, NotificationsNextKeeps, PTL DEF NotificationsSpec

(* Every variable has the shape of the data it stands for, and the list    *)
(* shows no notification twice, whether the socket brought it or a fetch   *)
(* (wasInserted of handleNewNotification).                                 *)
THEOREM NotificationsTypeCorrect == NotificationsSpec => []NotificationsTypeOK
  <1>1. NotificationsInv => NotificationsTypeOK
    <2>1. SUFFICES ASSUME NotificationsInv PROVE NotificationsTypeOK
      OBVIOUS
    <2>2. PageTypes
      BY <2>1 DEF NotificationsInv
    <2>3. /\ list.items \in Seq(Item) /\ Distinct(list.items)
          /\ \A i \in DOMAIN list.items : list.items[i] \in Item
      BY <2>2 DEF PageTypes, SoundList
    <2>4. Cardinality(IdsOf(list.items)) = Len(list.items)
      BY <2>3, DistinctCardinality
    <2>5. list.cached \in BOOLEAN
      BY <2>2 DEF PageTypes
    <2>6. \A c \in Calls : calls[c].phase \in {"none", "asked", "done", "over"}
      BY <2>2 DEF PageTypes, CallData
    <2>7. QED
      BY <2>2, <2>3, <2>4, <2>5, <2>6 DEF NotificationsTypeOK, PageTypes
  <1>2. QED
    BY <1>1, NotificationsInvariant, PTL

(* Once nothing is under way, the badge shows the number of unread rows    *)
(* and the open dropdown the newest rows as the table has them, whatever   *)
(* the order in which events and answers overtook each other, unless the   *)
(* page missed something that nothing tells it of.                         *)
THEOREM ScreenShowsTable == NotificationsSpec => []ScreenCurrent
  <1>1. NotificationsInv => ScreenCurrent
    <2>1. SUFFICES ASSUME NotificationsInv, Settled
                   PROVE  /\ behind.count \/ BadgeRight
                          /\ open => behind.list \/ (list.cached /\ list.items = ServerList)
      BY DEF ScreenCurrent
    <2>2. CountInv /\ ListInv /\ OpenInv
      BY <2>1 DEF NotificationsInv
    <2>3. /\ wire = <<>> /\ NoneDone /\ fetch.count = "idle" /\ fetch.list = "idle"
      BY <2>1 DEF Settled, NoneDone, Queries
    <2>4. behind.count \/ BadgeRight
      BY <2>2, <2>3 DEF CountInv, BadgeRight
    <2>5. KnownIn(list.items)
      BY <2>3 DEF KnownIn
    <2>6. open => behind.list \/ (list.cached /\ list.items = ServerList)
      BY <2>2, <2>3, <2>5 DEF ListInv, OpenInv
    <2>7. QED
      BY <2>4, <2>6
  <1>2. QED
    BY <1>1, NotificationsInvariant, PTL
=============================================================================
