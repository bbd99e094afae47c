--------------------------- MODULE Notifications ---------------------------
(***************************************************************************)
(* The notifications of one user: the table (NotificationService), the     *)
(* event that tells an open page of a new one (emitNotificationCreated),   *)
(* and what the page shows, a badge with the unread count and a dropdown   *)
(* with the newest notifications, both out of a query cache that the       *)
(* hooks of notification.hooks.ts keep in step with the server.  The same  *)
(* user may act on his notifications elsewhere, in another tab.            *)
(*                                                                         *)
(* The query cache is a library; what it does is modelled from how it is   *)
(* used and configured: a query that is mounted fetches at once when it is *)
(* invalidated and drops a fetch under way, unless it has no data yet; an  *)
(* answer replaces the data, and writing to cached data clears the mark    *)
(* that they are to be fetched.  Signing out and paging are left out.      *)
(***************************************************************************)
EXTENDS Integers, FiniteSets, Sequences

CONSTANTS
    MaxNotifications,  \* bound: notifications created
    MaxCalls,          \* bound: clicks in the dropdown
    MaxMishaps,        \* bound: losses, failures and operations in another tab
    Limit              \* length of the list that the dropdown asks for

ASSUME NotificationsAssumption ==
    /\ MaxNotifications \in Nat \ {0} /\ Limit \in Nat \ {0}
    /\ MaxCalls \in Nat /\ MaxMishaps \in Nat

VARIABLES
    store,      \* Notification rows, in the order of their creation
    connected,  \* the page's socket is in the room of the user
    wire,       \* events on the way to the page
    open,       \* the dropdown is open
    list,       \* the page's cached list
    count,      \* the page's cached unread count, NoCount before the first
    fetch,      \* how far a fetch of each query is
    reply,      \* what the server has answered to it
    invalid,    \* the list is to be fetched when the dropdown opens again
    calls,      \* operations clicked in the dropdown
    mishaps,    \* losses, failures and operations in another tab so far
    behind      \* history: queries that missed something on the server, with
                \*   no fetch to come that would show it

page == <<open, list, count>>
notificationsVars == <<store, connected, wire, page, fetch, reply, invalid, calls,
          mishaps, behind>>

Ids == 1..MaxNotifications
Calls == 1..MaxCalls
Queries == {"list", "count"}
NoCount == -1
Persisted == {n \in Ids : store[n] # "none"}
Unread == {n \in Ids : store[n] = "unread"}

Item == [id : Ids, read : BOOLEAN]
IdsOf(items) == {items[i].id : i \in DOMAIN items}

Mishap == mishaps < MaxMishaps /\ mishaps' = mishaps + 1

-----------------------------------------------------------------------------
(* Server *)

(* The k-th smallest of a set of numbers. *)
Nth(S, k) == CHOOSE n \in S : Cardinality({m \in S : m <= n}) = k

(* getAllNotifications: newest first, at most Limit of them. *)
ServerList ==
    LET shown  == {n \in Persisted : store[n] # "deleted"}
        total  == Cardinality(shown)
        row(i) == Nth(shown, total + 1 - i)
    IN [i \in 1..(IF total < Limit THEN total ELSE Limit) |->
          [id |-> row(i), read |-> store[row(i)] = "read"]]

(* getUnreadCount *)
ServerCount == Cardinality(Unread)

(* A change that the page gets no word of: what a query shows, or is about *)
(* to, misses it, unless its fetch is still to be answered.                *)
Untold == [q \in Queries |-> behind[q] \/ fetch[q] # "asked"]

(* The next row; rows are numbered in the order of their creation. *)
Created(n) == Persisted = 1..n - 1 /\ store' = [store EXCEPT ![n] = "unread"]

(* createNotification: first the row, then the event, to the sockets that  *)
(* are in the room now.  What happens between the two could as well happen *)
(* while the event is on the way.  A failure before the row is swallowed   *)
(* by safeSendNotification: nothing happens.                               *)
CreateNotification ==
    /\ \E n \in Ids :
        Created(n) /\ wire' = IF connected THEN Append(wire, n) ELSE wire
    /\ behind' = IF connected THEN behind ELSE Untold
    /\ UNCHANGED <<connected, page, fetch, reply, invalid, calls, mishaps>>

(* The emit fails, or the process dies after the row was written. *)
EmitLost ==
    /\ Mishap
    /\ \E n \in Ids : Created(n)
    /\ behind' = Untold
    /\ UNCHANGED <<connected, wire, page, fetch, reply, invalid, calls>>

Connect ==
    /\ ~connected /\ connected' = TRUE
    /\ UNCHANGED <<store, wire, page, fetch, reply, invalid, calls, mishaps, behind>>

Disconnect ==
    /\ Mishap
    /\ connected /\ connected' = FALSE
    /\ wire' = <<>>
    /\ behind' = IF wire = <<>> THEN behind ELSE Untold
    /\ UNCHANGED <<store, page, fetch, reply, invalid, calls>>

(* Whether the operation finds its row: "Notification not found." *)
Found(op, n) == op = "readAll" \/ store[n] # "deleted"

(* markAsRead, markAllAsRead, deleteNotification *)
Done(op, n) ==
    CASE op = "read"    -> [store EXCEPT ![n] = "read"]
      [] op = "readAll" -> [m \in Ids |-> IF store[m] = "unread" THEN "read" ELSE store[m]]
      [] op = "delete"  -> [store EXCEPT ![n] = "deleted"]

ActElsewhere ==
    /\ Mishap
    /\ \E op \in {"read", "readAll", "delete"}, n \in Persisted :
        Found(op, n) /\ store' = Done(op, n)
    /\ behind' = Untold
    /\ UNCHANGED <<connected, wire, page, fetch, reply, invalid, calls>>

-----------------------------------------------------------------------------
(* Query cache *)

NoReply == [list |-> <<>>, count |-> NoCount]

Answer(q) ==
    /\ fetch[q] = "asked"
    /\ fetch' = [fetch EXCEPT ![q] = "answered"]
    /\ reply' = IF q = "list" THEN [reply EXCEPT !.list = ServerList]
                ELSE [reply EXCEPT !.count = ServerCount]
    /\ behind' = [behind EXCEPT ![q] = FALSE]
    /\ UNCHANGED <<store, connected, wire, page, invalid, calls, mishaps>>

Arrive(q) ==
    /\ fetch[q] = "answered"
    /\ fetch' = [fetch EXCEPT ![q] = "idle"]
    /\ reply' = [reply EXCEPT ![q] = NoReply[q]]
    /\ IF q = "list"
       THEN /\ list' = [cached |-> TRUE, items |-> reply.list]
            /\ invalid' = FALSE
            /\ UNCHANGED count
       ELSE count' = reply.count /\ UNCHANGED <<list, invalid>>
    /\ UNCHANGED <<store, connected, wire, open, calls, mishaps, behind>>

(* The fetch and its retry fail; the old data stay. *)
FetchFails(q) ==
    /\ Mishap
    /\ fetch[q] # "idle"
    /\ fetch' = [fetch EXCEPT ![q] = "idle"]
    /\ reply' = [reply EXCEPT ![q] = NoReply[q]]
    /\ behind' = [behind EXCEPT ![q] = TRUE]
    /\ UNCHANGED <<store, connected, wire, page, invalid, calls>>

Mounted(q) == q = "count" \/ open
Cached(q) == IF q = "list" THEN list.cached ELSE count # NoCount

(* invalidateQueries of the queries in Q. *)
Restarts(q) == Mounted(q) /\ (Cached(q) \/ fetch[q] = "idle")

Invalidate(Q) ==
    LET restarted == {q \in Q : Restarts(q)} IN
    /\ fetch' = [q \in Queries |-> IF q \in restarted THEN "asked" ELSE fetch[q]]
    /\ reply' = [q \in Queries |-> IF q \in restarted THEN NoReply[q] ELSE reply[q]]
    /\ invalid' = (invalid \/ ("list" \in Q \ restarted /\ list.cached))
    /\ behind' = [q \in Queries |-> behind[q] \/ (q \in Q \ restarted /\ fetch[q] = "answered")]

-----------------------------------------------------------------------------
(* handleNewNotification *)

(* IsNew without the deduplication by id. *)
IsNew_Always(n) == list.cached

(* A cached list that does not have it: wasInserted. *)
IsNew(n) == list.cached /\ n \notin IdsOf(list.items)

(* Refreshed without the unread count. *)
Refreshed_Lists == {"list"}

Refreshed == Queries

(* The socket brings a notification that goes into the list. *)
ReceiveNew ==
    /\ wire # <<>> /\ wire' = Tail(wire)
    /\ IsNew(Head(wire))
    /\ list' = [list EXCEPT !.items = <<[id |-> Head(wire), read |-> FALSE]>> \o @]
    /\ count' = IF count = NoCount THEN NoCount ELSE count + 1
    /\ Invalidate(Refreshed)
    /\ UNCHANGED <<store, connected, open, calls, mishaps>>

(* It brings one that the list has, or there is no list in the cache (the  *)
(* dropdown was not open lately): not even the count is refreshed.  The    *)
(* cached list is set to itself, which counts as an update: a list that    *)
(* was to be fetched when the dropdown opens is taken for current.         *)
ReceiveIgnored ==
    /\ wire # <<>> /\ wire' = Tail(wire)
    /\ ~IsNew(Head(wire))
    /\ invalid' = FALSE
    /\ behind' = [behind EXCEPT !.count = Untold.count,
         !.list = \/ @
                  \/ fetch.list = "answered" /\ Head(wire) \notin IdsOf(reply.list)
                  \/ invalid /\ fetch.list = "idle"]
    /\ UNCHANGED <<store, connected, page, fetch, reply, calls, mishaps>>

-----------------------------------------------------------------------------
(* The user at the page *)

(* The list is fetched when there is none, when it was invalidated, or     *)
(* when it is older than staleTime.                                        *)
OpenDropdown ==
    /\ ~open /\ open' = TRUE
    /\ \/ fetch' = [fetch EXCEPT !.list = IF @ = "idle" THEN "asked" ELSE @]
       \/ list.cached /\ ~invalid /\ UNCHANGED fetch
    /\ UNCHANGED <<store, connected, wire, list, count, reply, invalid, calls,
                   mishaps, behind>>

CloseDropdown ==
    /\ open /\ open' = FALSE
    /\ UNCHANGED <<store, connected, wire, list, count, fetch, reply, invalid,
                   calls, mishaps, behind>>

(* The cache drops a list that was not shown for some minutes. *)
Forget ==
    /\ ~open /\ list.cached /\ fetch.list = "idle"
    /\ list' = [cached |-> FALSE, items |-> <<>>]
    /\ invalid' = FALSE
    /\ UNCHANGED <<store, connected, wire, open, count, fetch, reply, calls,
                   mishaps, behind>>

(* refetchOnWindowFocus, of the count only. *)
Focus ==
    /\ fetch.count = "idle"
    /\ fetch' = [fetch EXCEPT !.count = "asked"]
    /\ UNCHANGED <<store, connected, wire, page, reply, invalid, calls,
                   mishaps, behind>>

NoCall == [op |-> "none", id |-> 0, phase |-> "none"]

Pending(op) == \E c \in Calls : calls[c].op = op /\ calls[c].phase \in {"asked", "done"}

(* A click on an unread item, on its bin, or on "Mark all read". *)
Click ==
    /\ open /\ list.cached
    /\ \E c \in Calls, op \in {"read", "readAll", "delete"}, n \in Ids :
        /\ \A b \in Calls : calls[b] = NoCall <=> b >= c
        /\ IF op = "readAll" THEN n = 1 /\ count > 0 /\ ~Pending(op)
           ELSE \E i \in DOMAIN list.items :
                    list.items[i].id = n /\ (op = "read" => ~list.items[i].read)
        /\ calls' = [calls EXCEPT ![c] = [op |-> op, id |-> n, phase |-> "asked"]]
    /\ UNCHANGED <<store, connected, wire, page, fetch, reply, invalid,
                   mishaps, behind>>

(* The server carries it out, or answers that there is no such row. *)
Serve(c) ==
    /\ calls[c].phase = "asked"
    /\ LET op == calls[c].op
           n  == calls[c].id IN
       IF Found(op, n)
       THEN /\ store' = Done(op, n)
            /\ calls' = [calls EXCEPT ![c].phase = "done"]
       ELSE /\ calls' = [calls EXCEPT ![c].phase = "over"]
            /\ UNCHANGED store
    /\ UNCHANGED <<connected, wire, page, fetch, reply, invalid, mishaps, behind>>

(* The request or its answer is lost: onSuccess does not run. *)
CallFails(c) ==
    /\ Mishap
    /\ calls[c].phase \in {"asked", "done"}
    /\ calls' = [calls EXCEPT ![c].phase = "over"]
    /\ behind' = IF calls[c].phase = "done" THEN Untold ELSE behind
    /\ UNCHANGED <<store, connected, wire, page, fetch, reply, invalid>>

AllRead(items) == [i \in DOMAIN items |-> [items[i] EXCEPT !.read = TRUE]]
OneRead(items, n) ==
    [i \in DOMAIN items |-> [items[i] EXCEPT !.read = @ \/ items[i].id = n]]
Without(items, n) ==
    LET kept == {i \in DOMAIN items : items[i].id # n} IN
    [k \in 1..Cardinality(kept) |-> items[Nth(kept, k)]]
Less(k) == IF k > 0 THEN k - 1 ELSE k
WasUnread(n) == \E i \in DOMAIN list.items : list.items[i] = [id |-> n, read |-> FALSE]

(* InvalidatedAfterCall as long as the page trusts its own arithmetic. *)
InvalidatedAfterCall_None == {}

(* notificationKeys.all *)
InvalidatedAfterCall == Queries

(* onSuccess of the three mutations. *)
CallSucceeds(c) ==
    /\ calls[c].phase = "done"
    /\ calls' = [calls EXCEPT ![c].phase = "over"]
    /\ LET op == calls[c].op
           n  == calls[c].id IN
       /\ list' = [list EXCEPT !.items =
            CASE op = "read" -> OneRead(@, n)
              [] op = "readAll" -> AllRead(@)
              [] op = "delete" -> Without(@, n)]
       /\ count' = CASE count = NoCount -> NoCount
                     [] count # NoCount /\ op = "readAll" -> 0
                     [] count # NoCount /\ op = "read" -> Less(count)
                     [] count # NoCount /\ op = "delete" ->
                            IF WasUnread(n) THEN Less(count) ELSE count
    /\ Invalidate(InvalidatedAfterCall)
    /\ UNCHANGED <<store, connected, wire, open, mishaps>>

-----------------------------------------------------------------------------
(* The page has been loaded, its socket is connected, and the badge asks   *)
(* for its count.                                                          *)
NotificationsInit ==
    /\ store = [n \in Ids |-> "none"]
    /\ connected = TRUE /\ wire = <<>>
    /\ open = FALSE
    /\ list = [cached |-> FALSE, items |-> <<>>]
    /\ count = NoCount
    /\ fetch = [q \in Queries |-> IF q = "count" THEN "asked" ELSE "idle"]
    /\ reply = NoReply
    /\ invalid = FALSE
    /\ calls = [c \in Calls |-> NoCall]
    /\ mishaps = 0
    /\ behind = [q \in Queries |-> FALSE]

Receive == ReceiveNew \/ ReceiveIgnored

NotificationsNext ==
    \/ CreateNotification \/ EmitLost \/ Connect \/ Disconnect \/ ActElsewhere
    \/ Receive
    \/ OpenDropdown \/ CloseDropdown \/ Forget \/ Focus \/ Click
    \/ \E q \in Queries : Answer(q) \/ Arrive(q) \/ FetchFails(q)
    \/ \E c \in Calls : Serve(c) \/ CallFails(c) \/ CallSucceeds(c)

(* What is under way goes on: the server answers, and what it sent arrives *)
(* or fails.  Nobody has to click, to look or to connect.                  *)
Fairness ==
    /\ WF_notificationsVars(Receive)
    /\ \A q \in Queries : WF_notificationsVars(Answer(q) \/ Arrive(q) \/ FetchFails(q))
    /\ \A c \in Calls : WF_notificationsVars(Serve(c) \/ CallFails(c) \/ CallSucceeds(c))

NotificationsSpec == NotificationsInit /\ [][NotificationsNext]_notificationsVars /\ Fairness

-----------------------------------------------------------------------------
(* Properties *)

(* Every variable has the shape of the data it stands for, and the list    *)
(* shows no notification twice, whether it came by the socket or by a      *)
(* fetch.                                                                  *)
NotificationsTypeOK ==
    /\ store \in [Ids -> {"none", "unread", "read", "deleted"}]
    /\ connected \in BOOLEAN /\ open \in BOOLEAN
    /\ \A i \in DOMAIN wire : wire[i] \in Persisted
    /\ list.cached \in BOOLEAN
    /\ \A i \in DOMAIN list.items : list.items[i] \in Item
    /\ Cardinality(IdsOf(list.items)) = Len(list.items)
    /\ count \in Int
    /\ fetch \in [Queries -> {"idle", "asked", "answered"}]
    /\ invalid \in BOOLEAN /\ mishaps \in 0..MaxMishaps
    /\ behind \in [Queries -> BOOLEAN]
    /\ \A c \in Calls : calls[c].phase \in {"none", "asked", "done", "over"}

(* Nothing is on its way to the page. *)
Settled ==
    /\ wire = <<>>
    /\ \A q \in Queries : fetch[q] = "idle"
    /\ \A c \in Calls : calls[c].phase # "done"

BadgeRight == count = ServerCount

(* Once nothing is under way, the badge shows the number of unread         *)
(* notifications and the open dropdown the newest ones as the table has    *)
(* them: whatever the order in which events, answers to fetches and        *)
(* answers to clicks overtook each other, and although the page changes    *)
(* its cache by itself in between.  Only what behind records is excepted.  *)
ScreenCurrent ==
    Settled =>
        /\ behind.count \/ BadgeRight
        /\ open => behind.list \/ (list.cached /\ list.items = ServerList)

(* "Frontend Client updates notification badge & toast in real time":      *)
(* whatever happens, there comes again a time when the badge shows the     *)
(* number of unread notifications, unless the page missed something.       *)
BadgeCatchesUp == []<>(behind.count \/ BadgeRight)
=============================================================================
