------------------------------ MODULE Accounts ------------------------------
(***************************************************************************)
(* The user accounts of the employees: their creation in several steps,    *)
(* some of them outside the database, with a clean-up when one fails       *)
(* (UserService.createUser, seedSuperAdmin), and the operations that check *)
(* a row and then write it by its id: block, unblock, assignRole, update   *)
(* and delete (UserService), the assignment to a warehouse                 *)
(* (WarehouseService) and the first password (AuthService).                *)
(* One row per e-mail address.  Who sends a request is left out: that is   *)
(* checked before any of these operations starts.                          *)
(***************************************************************************)
EXTENDS Integers

CONSTANTS
    Sessions,     \* requests that can run at the same time
    Emails,       \* e-mail addresses, each of one employee
    SeedEmail,    \* SUPER_ADMIN_EMAIL
    Warehouses,   \* active warehouses
    Nobody,       \* no warehouse, and a session without a user
    MaxRequests   \* bound: requests of one behaviour

ASSUME AccountsAssumption ==
    /\ SeedEmail \in Emails
    /\ Nobody \notin Emails \union Warehouses
    /\ MaxRequests \in Nat

VARIABLES
    row,       \* User row of each e-mail address, NoRow without one
    ids,       \* ids given so far
    req,       \* what each session runs, and how far it is
    served,    \* requests begun so far
    finished,  \* history: ids of the users whose creation went through
    orphans,   \* history: ids left behind by a crash or a failed clean-up
    crossed    \* history: addresses that two open requests named at once

vars == <<row, ids, req, served, finished, orphans, crossed>>

Role == {"SUPER_ADMIN", "STAFF"}
UserStatus == {"ACTIVE", "BLOCKED", "DELETED"}
Kind == {"create", "seed", "block", "unblock", "role", "update", "delete",
         "assign", "unassign", "password"}
Step == {"signUp", "attributes", "mail", "cleanup", "write"}

User == [id: Nat, role: Role, status: UserStatus, isDeleted: BOOLEAN,
         warehouse: Warehouses \union {Nobody}, needPasswordChange: BOOLEAN]

(* The columns as the authentication library fills them in. *)
Fresh(id) == [id |-> id, role |-> "STAFF", status |-> "ACTIVE", isDeleted |-> FALSE,
              warehouse |-> Nobody, needPasswordChange |-> FALSE]
NoRow == Fresh(0)

Request == [kind: Kind, email: Emails, step: Step, id: Nat,
            arg: Role \union UserStatus \union Warehouses \union {Nobody}]
NoRequest == [kind |-> "none", email |-> Nobody, arg |-> Nobody, step |-> "none", id |-> 0]

Exists(e) == row[e].id # 0
Live(e) == Exists(e) /\ ~row[e].isDeleted

-----------------------------------------------------------------------------
(* Requests *)

NamedByOpen == {req[s].email : s \in Sessions}

Begin(s, kind, e, arg, step, id) ==
    /\ req[s] = NoRequest
    /\ served < MaxRequests
    /\ served' = served + 1
    /\ req' = [req EXCEPT ![s] = [kind |-> kind, email |-> e, arg |-> arg,
                                  step |-> step, id |-> id]]
    /\ crossed' = crossed \union ({e} \intersect NamedByOpen)
    /\ UNCHANGED <<row, ids, finished, orphans>>

(* "User with this email already exists.", deleted ones included. *)
BeginCreate(s) ==
    \E e \in Emails, role \in Role : ~Exists(e) /\ Begin(s, "create", e, role, "signUp", 0)

(* "Super Admin already exists." otherwise. *)
NoSuperAdmin == \A e \in Emails : Live(e) => row[e].role # "SUPER_ADMIN"

BeginSeed(s) == NoSuperAdmin /\ Begin(s, "seed", SeedEmail, "SUPER_ADMIN", "signUp", 0)

(* BeginEdit that finds deleted users too. *)
BeginEdit_AnyRow(s, kind, e, arg) == Exists(e) /\ Begin(s, kind, e, arg, "write", row[e].id)

(* An operation on a user that is not deleted. *)
BeginEdit(s, kind, e, arg) == Live(e) /\ Begin(s, kind, e, arg, "write", row[e].id)

BeginBlock(s) ==
    \E e \in Emails : row[e].status # "BLOCKED" /\ BeginEdit(s, "block", e, Nobody)

BeginUnblock(s) ==
    \E e \in Emails : row[e].status # "ACTIVE" /\ BeginEdit(s, "unblock", e, Nobody)

BeginRole(s) == \E e \in Emails, role \in Role : BeginEdit(s, "role", e, role)

(* A change of the name or image only is left out. *)
BeginUpdate(s) == \E e \in Emails, status \in UserStatus : BeginEdit(s, "update", e, status)

BeginDelete(s) == \E e \in Emails : BeginEdit(s, "delete", e, Nobody)

(* Assignable whatever warehouse the user has. *)
Assignable_Any(e) == row[e].status = "ACTIVE"

(* "User is already assigned to another warehouse." otherwise. *)
Assignable(e) == row[e].status = "ACTIVE" /\ row[e].warehouse = Nobody

BeginAssign(s) ==
    \E e \in Emails, w \in Warehouses : Assignable(e) /\ BeginEdit(s, "assign", e, w)

BeginUnassign(s) ==
    \E e \in Emails, w \in Warehouses :
        row[e].warehouse = w /\ BeginEdit(s, "unassign", e, w)

BeginPassword(s) ==
    \E e \in Emails :
        /\ row[e].status = "ACTIVE" /\ row[e].needPasswordChange
        /\ BeginEdit(s, "password", e, Nobody)

-----------------------------------------------------------------------------
(* Creation *)

Email(s) == req[s].email
At(s, kinds, step) == req[s].kind \in kinds /\ req[s].step = step
Mine(s) == Exists(Email(s)) /\ row[Email(s)].id = req[s].id

End(s) == req' = [req EXCEPT ![s] = NoRequest] /\ UNCHANGED <<served, crossed>>
Proceed(s, step) == req' = [req EXCEPT ![s].step = step] /\ UNCHANGED <<served, crossed>>

(* signUpEmail: the row is there, with default columns, from here on. *)
SignUp(s) ==
    /\ At(s, {"create", "seed"}, "signUp")
    /\ ~Exists(Email(s))
    /\ ids' = ids + 1
    /\ row' = [row EXCEPT ![Email(s)] = Fresh(ids + 1)]
    /\ req' = [req EXCEPT ![s].step = "attributes", ![s].id = ids + 1]
    /\ UNCHANGED <<served, finished, orphans, crossed>>

(* The address is taken or the library fails: createUser gives up; the     *)
(* seed goes on to remove the row with its address, whoever made it.       *)
SignUpFails(s) ==
    /\ At(s, {"create", "seed"}, "signUp")
    /\ IF req[s].kind = "create" THEN End(s) ELSE Proceed(s, "cleanup")
    /\ UNCHANGED <<row, ids, finished, orphans>>

(* Attributes without the duty to change the temporary password. *)
Attributes_KeepPassword(s, r) ==
    [r EXCEPT !.role = req[s].arg, !.status = "ACTIVE", !.isDeleted = FALSE]

Attributes(s, r) ==
    [r EXCEPT !.role = req[s].arg, !.status = "ACTIVE", !.isDeleted = FALSE,
              !.needPasswordChange = req[s].kind = "create"]

(* The seed ends here; createUser still has to send the credentials. *)
WriteAttributes(s) ==
    /\ At(s, {"create", "seed"}, "attributes")
    /\ Mine(s)
    /\ row' = [row EXCEPT ![Email(s)] = Attributes(s, @)]
    /\ IF req[s].kind = "create"
       THEN Proceed(s, "mail") /\ UNCHANGED finished
       ELSE End(s) /\ finished' = finished \union {req[s].id}
    /\ UNCHANGED <<ids, orphans>>

SendEmail(s) ==
    /\ At(s, {"create"}, "mail")
    /\ finished' = finished \union {req[s].id}
    /\ End(s)
    /\ UNCHANGED <<row, ids, orphans>>

(* StepFails that leaves the clean-up to a failed e-mail. *)
StepFails_MailOnly(s) ==
    /\ At(s, {"create", "seed"}, "attributes") \/ At(s, {"create"}, "mail")
    /\ IF req[s].step = "mail" THEN Proceed(s, "cleanup") ELSE End(s)
    /\ UNCHANGED <<row, ids, finished, orphans>>

(* The update or the e-mail fails. *)
StepFails(s) ==
    /\ At(s, {"create", "seed"}, "attributes") \/ At(s, {"create"}, "mail")
    /\ Proceed(s, "cleanup")
    /\ UNCHANGED <<row, ids, finished, orphans>>

(* createUser removes the row it made, by its id; the seed any row with    *)
(* its address.                                                            *)
Removable(s) == IF req[s].kind = "create" THEN Mine(s) ELSE Exists(Email(s))

Cleanup(s) ==
    /\ At(s, {"create", "seed"}, "cleanup")
    /\ row' = IF Removable(s) THEN [row EXCEPT ![Email(s)] = NoRow] ELSE row
    /\ End(s)
    /\ UNCHANGED <<ids, finished, orphans>>

(* The clean-up fails, a write is refused, or the process dies in the      *)
(* middle of the request.                                                  *)
Abort(s) ==
    /\ req[s] # NoRequest
    /\ orphans' = IF req[s].kind \in {"create", "seed"} /\ Mine(s)
                  THEN orphans \union {req[s].id} ELSE orphans
    /\ End(s)
    /\ UNCHANGED <<row, ids, finished>>

-----------------------------------------------------------------------------
(* Operations on a user: one update by the id that was read *)

Write(s, kind, new) ==
    /\ At(s, {kind}, "write")
    /\ Mine(s)
    /\ row' = [row EXCEPT ![Email(s)] = new]
    /\ End(s)
    /\ UNCHANGED <<ids, finished, orphans>>

(* BlockUser with the status that other tables use. *)
BlockUser_Inactive(s) == Write(s, "block", [row[Email(s)] EXCEPT !.status = "INACTIVE"])

BlockUser(s) == Write(s, "block", [row[Email(s)] EXCEPT !.status = "BLOCKED"])
UnblockUser(s) == Write(s, "unblock", [row[Email(s)] EXCEPT !.status = "ACTIVE"])
AssignRole(s) == Write(s, "role", [row[Email(s)] EXCEPT !.role = req[s].arg])
UpdateUser(s) == Write(s, "update", [row[Email(s)] EXCEPT !.status = req[s].arg])
AssignUserToWarehouse(s) == Write(s, "assign", [row[Email(s)] EXCEPT !.warehouse = req[s].arg])
UnassignUserFromWarehouse(s) == Write(s, "unassign", [row[Email(s)] EXCEPT !.warehouse = Nobody])
ChangePassword(s) == Write(s, "password", [row[Email(s)] EXCEPT !.needPasswordChange = FALSE])

DeleteUser(s) ==
    Write(s, "delete", [row[Email(s)] EXCEPT !.isDeleted = TRUE, !.status = "DELETED"])

-----------------------------------------------------------------------------
Init ==
    /\ row = [e \in Emails |-> NoRow]
    /\ ids = 0
    /\ req = [s \in Sessions |-> NoRequest]
    /\ served = 0
    /\ finished = {}
    /\ orphans = {}
    /\ crossed = {}

(* Nobody is obliged to send a request. *)
Quiescent == (\A s \in Sessions : req[s] = NoRequest) /\ UNCHANGED vars

Next ==
    \/ \E s \in Sessions :
        \/ BeginCreate(s) \/ BeginSeed(s) \/ BeginBlock(s) \/ BeginUnblock(s) \/ BeginRole(s)
        \/ BeginUpdate(s) \/ BeginDelete(s) \/ BeginAssign(s) \/ BeginUnassign(s)
        \/ BeginPassword(s)
        \/ SignUp(s) \/ SignUpFails(s) \/ WriteAttributes(s) \/ SendEmail(s) \/ StepFails(s)
        \/ Cleanup(s) \/ Abort(s)
        \/ BlockUser(s) \/ UnblockUser(s) \/ AssignRole(s) \/ UpdateUser(s) \/ DeleteUser(s)
        \/ AssignUserToWarehouse(s) \/ UnassignUserFromWarehouse(s) \/ ChangePassword(s)
    \/ Quiescent

Spec == Init /\ [][Next]_vars

-----------------------------------------------------------------------------
(* Properties *)

(* Every variable has the shape of its table columns or working data. *)
TypeOK ==
    /\ row \in [Emails -> User]
    /\ \A e, f \in Emails : Exists(e) /\ row[e].id = row[f].id => e = f
    /\ ids \in Nat
    /\ req \in [Sessions -> Request \union {NoRequest}]
    /\ \A s \in Sessions : req[s].id <= ids
    /\ served \in Nat
    /\ finished \subseteq 1..ids /\ orphans \subseteq 1..ids
    /\ crossed \subseteq Emails

Creators(e) == {s \in Sessions : req[s].kind \in {"create", "seed"} /\ Email(s) = e /\ Mine(s)}

(* "Cleanup created user if subsequent operations (Prisma update or email  *)
(* send) fail": a row in the table is that of a user whose creation went   *)
(* through, or of a creation still under way, or was left behind by a      *)
(* crash or a failed clean-up; nothing else takes up an address for good.  *)
RowsAccountedFor ==
    \A e \in Emails :
        Exists(e) => row[e].id \in finished \union orphans \/ Creators(e) # {}

SameUser(e) == row'[e].id = row[e].id

(* A deleted user stays deleted and keeps his columns, and an assignment   *)
(* to a warehouse is given to an active user without one, and ends only by *)
(* being taken back ("User is already assigned to another warehouse."):    *)
(* unless two requests about the user were open together, for each checks  *)
(* the row in one statement and writes it in another.                      *)
EditsSound ==
    \A e \in Emails \ crossed' : Exists(e) /\ SameUser(e) =>
        /\ row[e].isDeleted => row'[e] = row[e]
        /\ row'[e].warehouse # row[e].warehouse =>
             \/ row'[e].warehouse = Nobody
             \/ row[e].warehouse = Nobody /\ row[e].status = "ACTIVE"

(* "A temporary password is generated and sent via email": whoever is sent *)
(* one has a row that asks for a new one, with the role that was ordered;  *)
(* and he keeps it, whatever clean-ups are under way.  Only the seed       *)
(* removes a finished user, and only the one with its own address.         *)
CreationsSound ==
    /\ \A s \in Sessions :
        req[s].kind = "create" /\ req[s].id \in finished' \ finished /\ Email(s) \notin crossed =>
            /\ Mine(s) /\ Live(Email(s)) /\ row[Email(s)].status = "ACTIVE"
            /\ row[Email(s)].role = req[s].arg /\ row[Email(s)].needPasswordChange
    /\ \A e \in Emails \ {SeedEmail} : row[e].id \in finished => SameUser(e)

(* What a step may do to the table. *)
RowsChangeByRule == [][EditsSound /\ CreationsSound]_vars
=============================================================================
