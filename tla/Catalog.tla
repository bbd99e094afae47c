------------------------------ MODULE Catalog ------------------------------
(***************************************************************************)
(* The catalogue: products, and the categories and brands (groups) they    *)
(* are put into (ProductService, CategoryService, BrandService).  A        *)
(* request is a series of statements without a transaction: it looks for a *)
(* free slug, checks the groups, writes the row and, on a unique violation *)
(* of the slug, tries the next one.  A product's image is uploaded before  *)
(* the handler starts; the handler removes the image it replaces, and the  *)
(* global error handler the upload of a request that failed.               *)
(*                                                                         *)
(* A slug is a sequence of numeric suffixes of one word: <<2>> is "box-2", *)
(* which the name "Box 2" has for itself.  The SKU of a product, the name  *)
(* checks on live rows and the slug check of a category only refuse a      *)
(* request earlier: Fails.  Taking a product out of its brand is left out. *)
(***************************************************************************)
EXTENDS Integers, Sequences

CONSTANTS
    Clients,      \* requests that can run at the same time
    Products, Categories, Brands,
    Seeded,       \* rows there at the start: at most one of each table
    Names,        \* the names in use, each as the slug made of it
    Bodies,       \* bodies of create and update requests
    MaxRetries,   \* MAX_SLUG_RETRIES
    MaxBegun,     \* bound: requests of one behaviour
    Same,         \* a field that a payload does not have
    Nothing       \* the row of a client without a request

Groups == Categories \union Brands
Items == Products \union Groups
Tables == {Products, Categories, Brands}

ASSUME CatalogAssumption ==
    /\ \A t, u \in Tables : t # u => t \intersect u = {}
    /\ Seeded \subseteq Items
    /\ \A t \in Tables : \A i, j \in Seeded \intersect t : i = j
    /\ Names \subseteq Seq(Nat) /\ <<>> \in Names
    /\ Same \notin Names /\ Nothing \notin Items
    /\ Bodies \subseteq [name : Names \union {Same}, slug : Names \union {Same},
                         image : {"keep", "new", "remove"}, groups : SUBSET Groups]
    /\ MaxRetries \in Nat \ {0} /\ MaxBegun \in Nat

VARIABLES
    row,      \* row of each item
    files,    \* images in the file store
    req,      \* what each client has asked for, and how far it is
    begun,    \* requests begun so far; a request's number names its upload
    crossed,  \* history: items that two open requests named at once
    custom,   \* history: items whose slug was given by the request itself
    strays,   \* history: images left behind by a crash, a failed removal
              \*   or an update that replaced another image than it had read
    unsure    \* history: items whose write went through unanswered

catalogVars == <<row, files, req, begun, crossed, custom, strays, unsure>>

Row == [state : {"none", "live", "deleted"}, status : {"ACTIVE", "INACTIVE"},
        name : Names, slug : Seq(Nat), groups : SUBSET Groups, image : Nat]

NoRow == [state |-> "none", status |-> "ACTIVE", name |-> <<>>, slug |-> <<>>,
          groups |-> {}, image |-> 0]

NoPayload == [name |-> Same, slug |-> Same, image |-> "keep", groups |-> {}]

NoRequest == [kind |-> "none", item |-> Nothing, pay |-> NoPayload, status |-> "ACTIVE",
              upload |-> 0, old |-> NoRow, step |-> "none", k |-> 1, tries |-> 0,
              todo |-> {}]

TableOf(i) == CHOOSE t \in Tables : i \in t
Exists(i) == row[i].state # "none"
Live(i) == row[i].state = "live"
Active(g) == Live(g) /\ row[g].status = "ACTIVE"

-----------------------------------------------------------------------------
(* What a request is about to do *)

Item(s) == req[s].item
Pay(s) == req[s].pay
At(s, step) == req[s].step = step

(* Derived that makes a slug for new rows only. *)
Derived_Create(kind, i, p, old) == i \notin Categories /\ kind = "create"

(* Products and brands get a slug of their own for each new name. *)
Derived(kind, i, p, old) ==
    /\ i \notin Categories
    /\ kind = "create" \/ (kind = "update" /\ p.name \notin {Same, old.name})

DerivedBy(s) == Derived(req[s].kind, Item(s), Pay(s), req[s].old)

(* `${baseSlug}-${counter}`, the base itself for the first candidate. *)
Candidate(base, k) == IF k = 1 THEN base ELSE Append(base, k)

(* The slug that goes into the row. *)
Slug(s) ==
    CASE DerivedBy(s) -> Candidate(Pay(s).name, req[s].k)
      [] ~DerivedBy(s) /\ Pay(s).slug # Same -> Pay(s).slug
      [] ~DerivedBy(s) /\ Pay(s).slug = Same ->
            IF Item(s) \in Categories /\ Pay(s).name # Same
            THEN Pay(s).name ELSE row[Item(s)].slug

(* Rows of the table, deleted ones too, that have a slug already. *)
Taken(i, slug) == \E j \in TableOf(i) \ {i} : Exists(j) /\ row[j].slug = slug

(* Unique indexes; names are unique for groups only. *)
Unique(s) ==
    /\ ~Taken(Item(s), Slug(s))
    /\ Item(s) \in Groups /\ Pay(s).name # Same =>
         \A j \in TableOf(Item(s)) \ {Item(s)} : Exists(j) => row[j].name # Pay(s).name

(* ToCheck that trusts the brand. *)
ToCheck_NoBrand(p, old) == (p.groups \ old.groups) \ Brands

(* The groups that a request newly puts the product into. *)
ToCheck(p, old) == p.groups \ old.groups

(* Replaces that forgets that an image can be taken away. *)
Replaces_Upload(s) == Pay(s).image = "new"

(* Replaces that also holds for a request that keeps the image. *)
Replaces_Always(s) == req[s].kind = "update"

Replaces(s) == req[s].kind = "update" /\ Pay(s).image # "keep"

Moved(old, new) ==
    new \union {g \in old : \A h \in new : TableOf(g) # TableOf(h)}

NewRow(s) ==
    LET old == row[Item(s)] IN
    [old EXCEPT !.state = IF req[s].kind = "create" THEN "live" ELSE @,
                !.name = IF Pay(s).name = Same THEN @ ELSE Pay(s).name,
                !.slug = Slug(s),
                !.groups = Moved(@, Pay(s).groups),
                !.image = IF Pay(s).image = "keep" THEN @ ELSE req[s].upload]

-----------------------------------------------------------------------------
(* Requests *)

Named(s) == {req[s].item} \union req[s].pay.groups
NamedByOpen == UNION {Named(s) : s \in Clients}

BeginRequest(s, kind, i, p, status) ==
    /\ req[s].kind = "none"
    /\ begun < MaxBegun
    /\ begun' = begun + 1
    /\ req' = [req EXCEPT ![s] =
         [kind |-> kind, item |-> i, pay |-> p, status |-> status,
          upload |-> IF p.image = "new" THEN begun + 1 ELSE 0, old |-> row[i],
          step |-> IF Derived(kind, i, p, row[i]) THEN "slug" ELSE "write",
          k |-> 1, tries |-> 0, todo |-> ToCheck(p, row[i])]]
    /\ files' = IF p.image = "new" THEN files \union {begun + 1} ELSE files
    /\ crossed' = crossed \union (({i} \union p.groups) \intersect NamedByOpen)
    /\ UNCHANGED <<row, custom, strays, unsure>>

(* Only a product has groups and an image. *)
Fits(i, p) == i \in Groups => p.groups = {} /\ p.image = "keep"

BeginCreate(s) ==
    \E i \in Items \ NamedByOpen, p \in Bodies :
        /\ ~Exists(i) /\ Fits(i, p)
        /\ p.name # Same /\ p.image # "remove"
        /\ i \in Products => p.groups \intersect Categories # {}
        /\ BeginRequest(s, "create", i, p, "ACTIVE")

BeginUpdate(s) ==
    \E i \in Items, p \in Bodies :
        Live(i) /\ Fits(i, p) /\ BeginRequest(s, "update", i, p, "ACTIVE")

BeginStatus(s) ==
    \E i \in Items, status \in {"ACTIVE", "INACTIVE"} :
        Live(i) /\ BeginRequest(s, "status", i, NoPayload, status)

BeginDelete(s) ==
    \E i \in Items : Live(i) /\ BeginRequest(s, "delete", i, NoPayload, "ACTIVE")

EndRequest(s) == req' = [req EXCEPT ![s] = NoRequest]

(* findUniqueSlug: one candidate is one statement. *)
FindSlug(s) ==
    /\ At(s, "slug")
    /\ req' = IF Taken(Item(s), Slug(s)) THEN [req EXCEPT ![s].k = @ + 1]
              ELSE [req EXCEPT ![s].step = "write"]
    /\ UNCHANGED <<row, files, begun, crossed, custom, strays, unsure>>

(* "Category is inactive.", "Brand is inactive." otherwise. *)
CheckGroup(s) ==
    /\ At(s, "write")
    /\ \E g \in req[s].todo :
        /\ g \in Brands => req[s].todo \intersect Categories = {}
        /\ Active(g)
        /\ req' = [req EXCEPT ![s].todo = @ \ {g}]
    /\ UNCHANGED <<row, files, begun, crossed, custom, strays, unsure>>

Ready(s) == At(s, "write") /\ req[s].kind \in {"create", "update"} /\ req[s].todo = {}

(* The image of the row that goes with the write, when the request does    *)
(* not know of it.                                                         *)
Overwritten(s) ==
    IF Replaces(s) THEN {row[Item(s)].image} \ {0, req[s].old.image} ELSE {}

WriteRow(s) ==
    /\ Ready(s)
    /\ Unique(s)
    /\ row' = [row EXCEPT ![Item(s)] = NewRow(s)]
    /\ custom' = IF ~DerivedBy(s) /\ Pay(s).slug # Same THEN custom \union {Item(s)}
                 ELSE IF Pay(s).name \notin {Same, req[s].old.name} THEN custom \ {Item(s)}
                 ELSE custom

Write(s) ==
    /\ WriteRow(s)
    /\ IF Replaces(s) /\ req[s].old.image # 0
       THEN req' = [req EXCEPT ![s].step = "drop"] ELSE EndRequest(s)
    /\ strays' = strays \union Overwritten(s)
    /\ UNCHANGED <<files, begun, crossed, unsure>>

(* The row is written, the connection breaks before the answer: to the     *)
(* handler the write has failed.                                           *)
WriteUnanswered(s) ==
    /\ WriteRow(s)
    /\ req' = [req EXCEPT ![s].step = "fail"]
    /\ unsure' = unsure \union {Item(s)}
    /\ strays' = strays \union (IF Replaces(s) THEN {row[Item(s)].image} \ {0} ELSE {})
    /\ UNCHANGED <<files, begun, crossed>>

(* GivesUp that never does. *)
GivesUp_Never(tries) == FALSE

GivesUp(tries) == tries = MaxRetries

(* A unique violation of the slug: the next one.  An update checks the     *)
(* groups again, a creation does not.                                      *)
NextSlug(s) ==
    /\ Ready(s) /\ DerivedBy(s)
    /\ Taken(Item(s), Slug(s))
    /\ req' = [req EXCEPT
         ![s].k = @ + 1, ![s].tries = @ + 1,
         ![s].step = IF GivesUp(req[s].tries + 1) THEN "fail" ELSE @,
         ![s].todo = IF req[s].kind = "update" THEN ToCheck(Pay(s), req[s].old) ELSE {}]
    /\ UNCHANGED <<row, files, begun, crossed, custom, strays, unsure>>

(* A check or an index refuses the request, or a statement fails. *)
Fails(s) ==
    /\ At(s, "slug") \/ At(s, "write")
    /\ req' = [req EXCEPT ![s].step = "fail"]
    /\ UNCHANGED <<row, files, begun, crossed, custom, strays, unsure>>

(* The image that a request in its last step is to remove. *)
Doomed(s) ==
    CASE At(s, "fail") -> {req[s].upload} \ {0}
      [] At(s, "drop") -> {req[s].old.image}
      [] OTHER -> {}

RemoveImage(s) ==
    /\ At(s, "fail") \/ At(s, "drop")
    /\ files' = files \ Doomed(s)
    /\ EndRequest(s)
    /\ UNCHANGED <<row, begun, crossed, custom, strays, unsure>>

(* The failed removal of an image is logged and forgotten. *)
RemoveImageFails(s) ==
    /\ At(s, "fail") \/ At(s, "drop")
    /\ strays' = strays \union Doomed(s)
    /\ EndRequest(s)
    /\ UNCHANGED <<row, files, begun, crossed, custom, unsure>>

(* The process dies in the middle of the request. *)
Crash(s) ==
    /\ At(s, "slug") \/ At(s, "write")
    /\ strays' = strays \union ({req[s].upload} \ {0})
    /\ EndRequest(s)
    /\ UNCHANGED <<row, files, begun, crossed, custom, unsure>>

(* updateStatus and delete: one update by id. *)
SetStatus(s) ==
    /\ At(s, "write") /\ req[s].kind = "status"
    /\ row' = [row EXCEPT ![Item(s)].status = req[s].status]
    /\ EndRequest(s)
    /\ UNCHANGED <<files, begun, crossed, custom, strays, unsure>>

Delete(s) ==
    /\ At(s, "write") /\ req[s].kind = "delete"
    /\ row' = [row EXCEPT ![Item(s)].state = "deleted"]
    /\ EndRequest(s)
    /\ UNCHANGED <<files, begun, crossed, custom, strays, unsure>>

-----------------------------------------------------------------------------
OpeningRow(i) ==
    [NoRow EXCEPT !.state = "live",
                  !.groups = IF i \in Products THEN Seeded \intersect Categories ELSE {}]

CatalogInit ==
    /\ row = [i \in Items |-> IF i \in Seeded THEN OpeningRow(i) ELSE NoRow]
    /\ files = {}
    /\ req = [s \in Clients |-> NoRequest]
    /\ begun = 0
    /\ crossed = {} /\ custom = {} /\ strays = {} /\ unsure = {}

(* Nobody is obliged to send a request. *)
NoneOpen == (\A s \in Clients : req[s].kind = "none") /\ UNCHANGED catalogVars

CatalogNext ==
    \/ \E s \in Clients :
        \/ BeginCreate(s) \/ BeginUpdate(s) \/ BeginStatus(s) \/ BeginDelete(s)
        \/ FindSlug(s) \/ CheckGroup(s) \/ Write(s) \/ WriteUnanswered(s) \/ NextSlug(s)
        \/ Fails(s) \/ RemoveImage(s) \/ RemoveImageFails(s) \/ Crash(s)
        \/ SetStatus(s) \/ Delete(s)
    \/ NoneOpen

CatalogSpec == CatalogInit /\ [][CatalogNext]_catalogVars

-----------------------------------------------------------------------------
(* Properties *)

(* Every variable has the shape of its table columns or working data, and  *)
(* no request tries more slugs than MAX_SLUG_RETRIES allows.               *)
CatalogTypeOK ==
    /\ row \in [Items -> Row]
    /\ files \subseteq 1..begun /\ strays \subseteq 1..begun
    /\ begun \in 0..MaxBegun
    /\ crossed \subseteq Items /\ custom \subseteq Items /\ unsure \subseteq Items
    /\ \A s \in Clients :
        /\ req[s].kind \in {"none", "create", "update", "status", "delete"}
        /\ req[s].item \in Items \union {Nothing} /\ req[s].todo \subseteq Groups
        /\ req[s].upload \in 0..begun /\ req[s].k \in Nat \ {0}
        /\ req[s].tries \in 0..MaxRetries
        /\ req[s].tries = MaxRetries => At(s, "fail")

Suffixed(slug, name) ==
    \/ slug = name
    \/ /\ Len(slug) = Len(name) + 1
       /\ SubSeq(slug, 1, Len(name)) = name /\ slug[Len(slug)] > 1

(* The slug of a row is made of the name it has now, whatever slugs were   *)
(* lost to other requests on the way: unless the request gave the slug, or *)
(* two requests about the row were open together and one of them compared  *)
(* the name with one that the other had just changed.                      *)
SlugsFollowNames ==
    \A i \in Items \ (crossed \union custom) :
        Exists(i) => Suffixed(row[i].slug, row[i].name)

(* An image that a row shows is in the store ("old image deleted only      *)
(* after a successful update"): unless the database carried out a write    *)
(* that it could not answer, for then the upload is removed as that of a   *)
(* failed request.                                                         *)
ImagesInUseExist ==
    \A i \in Products \ unsure : row[i].image # 0 => row[i].image \in files

(* An image in the store is shown by a row, or it is in the hands of a     *)
(* request that is still open, or it was left behind in one of the three   *)
(* ways of strays; none is merely forgotten.                               *)
NoImageForgotten ==
    \A f \in files \ strays :
        \/ \E i \in Products : row[i].image = f
        \/ \E s \in Clients : f \in {req[s].upload} \union Doomed(s)

(* The slugs and images of the table. *)
CatalogSound == SlugsFollowNames /\ ImagesInUseExist /\ NoImageForgotten

(* A product is put into groups that are live and active when it is        *)
(* written, and a deleted row keeps its columns: unless two open requests  *)
(* named the group or the row, for each checks in one statement and writes *)
(* in another.                                                             *)
PlacementSound ==
    \A i \in Items \ crossed' :
        /\ \A g \in (row'[i].groups \ row[i].groups) \ crossed' : Active(g)
        /\ row[i].state = "deleted" => row'[i] = row[i]

(* What a step may do to the table. *)
RowsChangeByRule == [][PlacementSound]_catalogVars
=============================================================================
