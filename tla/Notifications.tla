--------------------------- MODULE Notifications ---------------------------
(***************************************************************************)
(* The notifications of the jobs and the issues that were skipped: their   *)
(* tables (store/database.ts), the routes (server/routes/notifications.ts, *)
(* skip-events.ts) and the two views and the badge of a page (the end of   *)
(* public/js/app.js).  A notification's id is its age; the stream of       *)
(* Dashboard is open, and what is sent, either way, arrives in that order.  *)
(***************************************************************************)
EXTENDS Integers, Sequences, SequencesExt, Functions

CONSTANTS
  Types,      \* of notifications: "job_queued" is one of them
  PageSize,   \* NOTIF_PAGE_SIZE (20 in the code)
  Groups,     \* an issue, its repository and the reason it was skipped
  None,
  MaxActs     \* bound: what the user, the jobs and the network do

VARIABLES
  notes,    \* the table: id -> [type, read]
  skips,    \* the groups of skip_events
  view,     \* the page's view
  filter,   \* notifCurrentFilter
  offset,   \* notifCurrentOffset
  notifCards, \* the cards on the page, or None while it loads: id -> [type, read]
  rows,     \* the groups on the page, or None
  badge,    \* the number beside the menu
  calls,    \* requests, oldest first: [op, arg, answer], None until it is served;
            \* and events of the stream, behind what the server sent before
  fading,   \* cards deleted less than 200 ms ago: a timer each
  next,     \* id of the next notification
  untold,   \* what has changed without the page being told, or whose answer was lost
  acts

tables == <<notes, skips, next>>
screen == <<view, filter, offset, notifCards, rows, badge>>
notifVars == <<tables, screen, calls, fading, untold, acts>>

Views == {"notifications", "skips", "other"}
Filters == {"all"} \cup (Types \ {"job_queued"})
Ids == 1 .. MaxActs + 2
Notification == [type : Types, read : BOOLEAN]
Lists == UNION {[S -> Notification] : S \in SUBSET Ids}

\* None is no answer and no list.
ASSUME NotifAssumption ==
  /\ PageSize \in Nat \ {0} /\ MaxActs \in Nat
  /\ None \notin Nat \cup [cards : Lists, unread : Nat] \cup {"ok", "missing", "sent"}
  /\ None \notin Lists /\ \A S \in SUBSET Groups : None # S

Act == acts < MaxActs /\ acts' = acts + 1

NotifInit ==
  /\ notes \in [1 .. 2 -> [type : Types, read : {FALSE}]] /\ skips = {} /\ next = 3
  /\ view = "other" /\ filter = "all" /\ offset = 0
  /\ notifCards = None /\ rows = None /\ badge = 2
  /\ calls = <<>> /\ fading = {}
  /\ untold = {} /\ acts = 0

-----------------------------------------------------------------------------
(* The tables.                                                             *)

Of(ns, f) == {i \in DOMAIN ns : f = "all" \/ ns[i].type = f}
Unread(ns) == Cardinality({i \in DOMAIN ns : ~ns[i].read})
ReadOf(ns) == {i \in DOMAIN ns : ns[i].read}
Without(ns, S) == Restrict(ns, DOMAIN ns \ S)

\* listNotifications: the newest first, from the offset on.
ListNotifications(ns, f, from) ==
  Restrict(ns, {i \in Of(ns, f) : LET newer == Cardinality({k \in Of(ns, f) : k > i})
                                  IN  newer >= from /\ newer < from + PageSize})

Call(op, arg) == [op |-> op, arg |-> arg, answer |-> None]

\* An event reaches the page after all that has been answered by now.
Broadcast(cs, event) ==
  LET sent == {k \in DOMAIN cs : cs[k].answer # None}
  IN  InsertAt(cs, Cardinality(sent) + 1, [op |-> "event", arg |-> event, answer |-> "sent"])

-----------------------------------------------------------------------------
(* What happens to the jobs.                                               *)

\* createJobNotification.  The page is told, unless the job has only been queued.
CreateNotification(t) ==
  /\ Act /\ next' = next + 1
  /\ notes' = [i \in DOMAIN notes \cup {next} |-> IF i = next THEN [type |-> t, read |-> FALSE] ELSE notes[i]]
  /\ IF t = "job_queued" THEN untold' = untold \cup {"notifications"} /\ UNCHANGED calls
     ELSE calls' = Broadcast(calls, "notificationCreated") /\ UNCHANGED untold
  /\ UNCHANGED <<skips, screen, fading>>

\* A job is deleted and its notifications with it; or the daily pruning
\* deletes what was read: nobody is told.
VanishNotifications(S) ==
  /\ Act /\ S # {} /\ S \subseteq DOMAIN notes
  /\ notes' = Without(notes, S)
  /\ untold' = untold \cup {"notifications"}
  /\ UNCHANGED <<skips, next, screen, calls, fading>>

\* addSkipEvent.
AddSkipEvent(g) ==
  /\ Act /\ g \notin skips /\ skips' = skips \cup {g}
  /\ untold' = untold \cup {"skips"}
  /\ UNCHANGED <<notes, next, screen, calls, fading>>

-----------------------------------------------------------------------------
(* The page.                                                               *)

FetchAndRender(f, from) == Call("list", [filter |-> f, offset |-> from])
Send(cs) == calls' = calls \o cs

\* navigateTo: each of the two views fetches what it shows.
Navigate(v) ==
  /\ v # view /\ Act /\ view' = v
  /\ CASE v = "notifications" -> /\ offset' = 0 /\ notifCards' = None
                                 /\ Send(<<FetchAndRender(filter, 0)>>)
                                 /\ UNCHANGED <<filter, rows>>
       [] v = "skips" -> /\ rows' = None /\ Send(<<Call("skips", None)>>)
                         /\ UNCHANGED <<filter, offset, notifCards>>
       [] v = "other" -> UNCHANGED <<filter, offset, notifCards, rows, calls>>
  /\ UNCHANGED <<tables, badge, fading, untold>>

ShowPage(f, from) ==
  /\ view = "notifications" /\ Act
  /\ filter' = f /\ offset' = from /\ notifCards' = None
  /\ Send(<<FetchAndRender(f, from)>>)
  /\ UNCHANGED <<tables, view, rows, badge, fading, untold>>

\* A filter begins with its first page; the buttons of the pages.
SetFilter(f) == f # filter /\ ShowPage(f, 0)
LoadNotificationsPage(delta) ==
  LET to == offset + delta * PageSize
  IN  ShowPage(filter, IF to > 0 THEN to ELSE 0)

\* The buttons of a card, and those above the cards.
Press(op, i) ==
  /\ view = "notifications" /\ Act
  /\ IF op \in {"read", "delete"} THEN notifCards # None /\ i \in DOMAIN notifCards ELSE i = None
  /\ op = "read" => ~notifCards[i].read
  /\ Send(<<Call(op, i)>>)
  /\ UNCHANGED <<tables, screen, fading, untold>>

DeleteSkipEventGroup(g) ==
  /\ view = "skips" /\ rows # None /\ g \in rows /\ Act
  /\ Send(<<Call("deleteSkips", g)>>)
  /\ UNCHANGED <<tables, screen, fading, untold>>

\* The timer of deleteNotification.
CardRemoved(i) ==
  /\ i \in fading /\ fading' = fading \ {i}
  /\ notifCards' = None /\ Send(<<FetchAndRender(filter, offset)>>)
  /\ UNCHANGED <<tables, view, filter, offset, rows, badge, untold, acts>>

-----------------------------------------------------------------------------
(* The routes.                                                             *)

\* The tables after a request about notifications, and its answer.
Notified(c) ==
  LET same(a) == [notes |-> notes, skips |-> skips, answer |-> a]
      kept(ns) == [notes |-> ns, skips |-> skips, answer |-> "ok"]
  IN  CASE c.op = "list" -> {same([cards |-> ListNotifications(notes, c.arg.filter, c.arg.offset),
                                   unread |-> Unread(notes)])}
        [] c.op = "count" -> {same(Unread(notes))}
        [] c.op = "read" -> IF c.arg \notin DOMAIN notes THEN {same("missing")}
                            ELSE {kept([notes EXCEPT ![c.arg].read = TRUE])}
        [] c.op = "readAll" -> {kept([i \in DOMAIN notes |-> [notes[i] EXCEPT !.read = TRUE]])}
        [] c.op = "delete" -> IF c.arg \notin DOMAIN notes THEN {same("missing")}
                              ELSE {kept(Without(notes, {c.arg}))}
        [] c.op = "deleteRead" -> {kept(Without(notes, ReadOf(notes)))}
        [] c.op = "prune" -> {kept(Without(notes, S)) : S \in SUBSET ReadOf(notes)}
        [] OTHER -> {}

\* And about skipped issues.
SkipsServed(c) ==
  CASE c.op = "skips" -> {[notes |-> notes, skips |-> skips, answer |-> skips]}
    [] c.op = "deleteSkips" -> {[notes |-> notes, skips |-> skips \ {c.arg}, answer |-> "ok"]}
    [] OTHER -> {}

\* The first request that has none gets its answer.  Reading all is told to
\* every page; what is fetched now is no longer untold.
Serve ==
  \E k \in DOMAIN calls :
    LET c == calls[k] IN
    /\ c.answer = None /\ \A j \in 1 .. k - 1 : calls[j].answer # None
    /\ \E o \in Notified(c) \cup SkipsServed(c) :
         /\ notes' = o.notes /\ skips' = o.skips
         /\ LET cs == [calls EXCEPT ![k].answer = o.answer]
            IN  calls' = IF c.op = "readAll" THEN Broadcast(cs, "notificationsReadAll") ELSE cs
    /\ untold' = untold \ (IF c.op = "list" THEN {"notifications"} ELSE IF c.op = "skips" THEN {"skips"} ELSE {})
    /\ UNCHANGED <<next, screen, fading, acts>>

\* What the page asks for upon an answer or an event.
Asks(c) ==
  LET now == FetchAndRender(filter, offset)
  IN  CASE c.op = "event" -> (IF c.arg = "notificationCreated" THEN <<Call("count", None)>> ELSE <<>>)
                             \o (IF view = "notifications" THEN <<now>> ELSE <<>>)
        [] c.op \in {"readAll", "prune", "deleteRead"} -> <<now>>
        [] c.op \in {"read", "delete"} /\ c.answer = "ok" -> <<Call("count", None)>>
        [] c.op = "deleteSkips" -> <<Call("skips", None)>>
        [] OTHER -> <<>>

\* Mutant: nothing removes it.
NeverFades(c) == {}

\* A card that was deleted fades, if it is still there, and a timer removes it.
Fades(c) == IF c.op = "delete" /\ c.answer = "ok" /\ notifCards # None THEN {c.arg} \cap DOMAIN notifCards ELSE {}

\* updateNotificationBadge.
BadgeAfter(c) ==
  CASE c.op = "list" -> c.answer.unread
    [] c.op = "count" -> c.answer
    [] c.op = "readAll" \/ (c.op = "event" /\ c.arg = "notificationsReadAll") -> 0
    [] OTHER -> badge

\* The cards of an answer; none while they are fetched again.
CardsAfter(c) ==
  CASE c.op = "list" -> c.answer.cards
    [] \E k \in DOMAIN Asks(c) : Asks(c)[k].op = "list" -> None
    [] c.op = "read" /\ c.answer = "ok" /\ notifCards # None ->
         [i \in DOMAIN notifCards |-> IF i = c.arg THEN [notifCards[i] EXCEPT !.read = TRUE] ELSE notifCards[i]]
    [] OTHER -> notifCards

\* loadSkipEvents.
RowsAfter(c) == CASE c.op = "skips" -> c.answer [] c.op = "deleteSkips" -> None [] OTHER -> rows

\* What the page does with an answer or an event.
Answer ==
  LET c == Head(calls)
  IN  /\ calls # <<>> /\ c.answer # None
      /\ calls' = Tail(calls) \o Asks(c)
      /\ badge' = BadgeAfter(c) /\ notifCards' = CardsAfter(c) /\ rows' = RowsAfter(c)
      /\ fading' = fading \cup Fades(c)
      /\ UNCHANGED <<tables, view, filter, offset, untold, acts>>

\* The network fails before or after the request was served.
LoseCall ==
  /\ calls # <<>> /\ Act
  /\ calls' = Tail(calls)
  /\ untold' = {"notifications", "skips"}
  /\ UNCHANGED <<tables, screen, fading>>

-----------------------------------------------------------------------------
NotifNext ==
  \/ \E t \in Types : CreateNotification(t)
  \/ \E S \in SUBSET Ids : VanishNotifications(S)
  \/ \E g \in Groups : AddSkipEvent(g) \/ DeleteSkipEventGroup(g)
  \/ \E v \in Views : Navigate(v)
  \/ \E f \in Filters : SetFilter(f)
  \/ \E d \in {-1, 1} : LoadNotificationsPage(d)
  \/ \E op \in {"read", "delete", "readAll", "prune", "deleteRead"}, i \in Ids \cup {None} : Press(op, i)
  \/ \E i \in Ids : CardRemoved(i)
  \/ Serve \/ Answer \/ LoseCall

NotifFairness ==
  /\ WF_notifVars(Serve) /\ WF_notifVars(Answer)
  /\ WF_notifVars(\E i \in Ids : CardRemoved(i))

NotifSpec == NotifInit /\ [][NotifNext]_notifVars /\ NotifFairness

-----------------------------------------------------------------------------
\* The page shows what the tables have, as far as it was told.
NotificationsRight ==
  /\ "notifications" \notin untold =>
       /\ badge = Unread(notes)
       /\ view = "notifications" =>
            /\ notifCards # None /\ DOMAIN notifCards \subseteq DOMAIN notes
            /\ notifCards = Restrict(notes, DOMAIN notifCards)
            /\ DOMAIN ListNotifications(notes, filter, offset) # {} => DOMAIN notifCards # {}
  /\ "skips" \notin untold /\ view = "skips" => rows = skips

\* What the page was told of is what it shows in the end: the badge counts the
\* unread notifications; no card is left of one that was deleted, none is
\* faded that was not read or the other way round, and a page that has some
\* shows some; a deleted group of skipped issues is gone.  (app.js fetches
\* again after each request of its own and each event.)
NotificationsSettle == <>[]NotificationsRight
=============================================================================
