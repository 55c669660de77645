----------------------------- MODULE PageProofs -----------------------------
(***************************************************************************)
(* Proofs about the pages: that the notifications, the badge and the       *)
(* skipped issues are right whenever a page has come to rest (module       *)
(* Notifications), what the form says of presets and what a save leaves    *)
(* alone (module SettingsForm).                                            *)
(***************************************************************************)
EXTENDS SettingsForm, Notifications, SequenceLemmas, FiniteSetTheorems

-----------------------------------------------------------------------------
(* Lists.                                                                  *)

LEMMA ListLemma ==
  ASSUME NEW l \in Lists
  PROVE  /\ l = [i \in DOMAIN l |-> l[i]] /\ DOMAIN l \subseteq Ids /\ DOMAIN l \subseteq Nat
         /\ IsFiniteSet(DOMAIN l)
         /\ \A i \in DOMAIN l : l[i] \in Notification
<1>1. PICK S \in SUBSET Ids : l \in [S -> Notification]
  BY DEF Lists
<1>2. IsFiniteSet(Ids) /\ Ids \subseteq Nat
  BY NotifAssumption, FS_Interval DEF NotifAssumption, Ids
<1> QED BY <1>1, <1>2, FS_Subset

LEMMA ListIntro ==
  ASSUME NEW S \in SUBSET Ids, NEW l \in [S -> Notification]
  PROVE  l \in Lists
  BY DEF Lists

LEMMA WithoutLemma ==
  ASSUME NEW l \in Lists, NEW S
  PROVE  /\ Without(l, S) \in Lists /\ DOMAIN Without(l, S) = DOMAIN l \ S
         /\ \A i \in DOMAIN l \ S : Without(l, S)[i] = l[i]
<1>1. Without(l, S) = [i \in DOMAIN l \ S |-> l[i]]
  BY DEF Without, Restrict
<1>2. [i \in DOMAIN l \ S |-> l[i]] \in [DOMAIN l \ S -> Notification] /\ DOMAIN l \ S \in SUBSET Ids
  BY ListLemma
<1> QED BY <1>1, <1>2, ListIntro

LEMMA ListedLemma ==
  ASSUME NEW l \in Lists, NEW f, NEW from
  PROVE  /\ ListNotifications(l, f, from) \in Lists
         /\ DOMAIN ListNotifications(l, f, from) \subseteq DOMAIN l
         /\ \A i \in DOMAIN ListNotifications(l, f, from) : ListNotifications(l, f, from)[i] = l[i]
<1> DEFINE D == {i \in Of(l, f) : LET newer == Cardinality({k \in Of(l, f) : k > i})
                                  IN  newer >= from /\ newer < from + PageSize}
<1>1. ListNotifications(l, f, from) = [i \in D |-> l[i]] /\ D \subseteq DOMAIN l
  BY DEF ListNotifications, Restrict, Of
<1> HIDE DEF D
<1>2. [i \in D |-> l[i]] \in [D -> Notification] /\ D \in SUBSET Ids
  BY <1>1, ListLemma
<1> QED BY <1>1, <1>2, ListIntro

LEMMA UnreadLemma ==
  ASSUME NEW l \in Lists
  PROVE  Unread(l) \in Nat
<1>1. IsFiniteSet({i \in DOMAIN l : ~l[i].read})
  BY ListLemma, FS_Subset
<1> QED BY <1>1, FS_CardinalityType DEF Unread

\* A page that has cards when one notification less is there has some.
LEMMA FewerLemma ==
  ASSUME NEW l \in Lists, NEW d, NEW f, NEW from \in Nat,
         DOMAIN ListNotifications(Without(l, {d}), f, from) # {}
  PROVE  DOMAIN ListNotifications(l, f, from) # {}
<1> DEFINE O == Of(l, f)
           Newer(T, i) == {k \in T : k > i}
           Shown(T, i) == Cardinality(Newer(T, i)) >= from /\ Cardinality(Newer(T, i)) < from + PageSize
<1>1. /\ DOMAIN ListNotifications(l, f, from) = {i \in O : Shown(O, i)}
      /\ DOMAIN ListNotifications(Without(l, {d}), f, from) =
           {i \in Of(Without(l, {d}), f) : Shown(Of(Without(l, {d}), f), i)}
  BY DEF ListNotifications, Restrict
<1>2. Of(Without(l, {d}), f) = O \ {d}
  <2>1. \A i \in DOMAIN l \ {d} : Without(l, {d})[i] = l[i]
    BY WithoutLemma
  <2>2. DOMAIN Without(l, {d}) = DOMAIN l \ {d}
    BY WithoutLemma
  <2> HIDE DEF O
  <2>3. \A i : i \in Of(Without(l, {d}), f) <=> i \in DOMAIN l \ {d} /\ (f = "all" \/ l[i].type = f)
    BY <2>1, <2>2 DEF Of
  <2>4. \A i : i \in O <=> i \in DOMAIN l /\ (f = "all" \/ l[i].type = f)
    BY DEF O, Of
  <2> QED BY <2>3, <2>4
<1>3. O \subseteq DOMAIN l /\ O \subseteq Nat /\ IsFiniteSet(O)
  BY ListLemma, FS_Subset DEF Of
<1>4. PICK i \in O \ {d} : Shown(O \ {d}, i)
  BY <1>1, <1>2
<1> HIDE DEF O
<1> DEFINE A == Newer(O, i)
<1>5. IsFiniteSet(A) /\ A \subseteq O
  BY <1>3, FS_Subset
<1>6. Newer(O \ {d}, i) = A \ {d}
  OBVIOUS
<1>7. Cardinality(A) \in Nat /\ Cardinality(A \ {d}) \in {Cardinality(A), Cardinality(A) - 1}
  BY <1>5, FS_CardinalityType, FS_RemoveElement
<1>8. CASE Cardinality(A) < from + PageSize
  <2>1. Cardinality(A \ {d}) >= from
    BY <1>4, <1>6
  <2>2. Shown(O, i)
    BY <1>7, <1>8, <2>1
  <2> QED BY <1>1, <1>4, <2>2
<1>9. CASE ~(Cardinality(A) < from + PageSize)
  <2>1. Cardinality(A) = from + PageSize
    <3>1. Cardinality(A \ {d}) < from + PageSize
      BY <1>4, <1>6
    <3> QED BY <3>1, <1>7, <1>9, NotifAssumption DEF NotifAssumption
  <2>2. A # {}
    <3>1. Cardinality(A) # 0
      BY <2>1, NotifAssumption DEF NotifAssumption
    <3> HIDE DEF A
    <3> QED BY <3>1, FS_EmptySet
  <2> DEFINE m == Min(A)
  <2>3. m \in A /\ \A k \in A : m <= k
    BY <2>2, <1>3, <1>5, SmallestLemma
  <2> HIDE DEF m
  <2>4. Newer(O, m) = A \ {m}
    <3>1. i \in Nat /\ m \in Nat /\ m > i /\ m \in O
      BY <2>3, <1>3, <1>4
    <3>2. \A k \in O : k > m <=> k \in A /\ k # m
      BY <3>1, <2>3, <1>3
    <3> QED BY <3>2, <1>5
  <2>5. Cardinality(Newer(O, m)) = Cardinality(A) - 1
    BY <2>3, <2>4, <1>5, FS_RemoveElement
  <2>6. Shown(O, m) /\ m \in O
    BY <2>1, <2>3, <2>5, <1>5, NotifAssumption DEF NotifAssumption
  <2> QED BY <1>1, <2>6
<1> QED BY <1>8, <1>9

\* Reading one changes neither what there is nor what a page has.
LEMMA ReadLemma ==
  ASSUME NEW l \in Lists, NEW d \in DOMAIN l, NEW f, NEW from
  PROVE  LET r == [l EXCEPT ![d].read = TRUE]
         IN  /\ r \in Lists /\ DOMAIN r = DOMAIN l
             /\ r[d] = [l[d] EXCEPT !.read = TRUE] /\ r[d].read
             /\ \A i \in DOMAIN l \ {d} : r[i] = l[i]
             /\ DOMAIN ListNotifications(r, f, from) = DOMAIN ListNotifications(l, f, from)
<1> DEFINE r == [l EXCEPT ![d].read = TRUE]
           e == [l[d] EXCEPT !.read = TRUE]
<1>1. l[d] \in Notification /\ e \in Notification /\ e.type = l[d].type /\ e.read
  <2>1. l[d] \in Notification
    BY ListLemma
  <2> HIDE DEF e
  <2> QED BY <2>1 DEF Notification, e
<1>2. r = [i \in DOMAIN l |-> IF i = d THEN e ELSE l[i]]
  BY ListLemma
<1> HIDE DEF e
<1>3. r \in [DOMAIN l -> Notification] /\ DOMAIN l \in SUBSET Ids
  BY <1>1, <1>2, ListLemma
<1>4. r \in Lists
  BY <1>3, ListIntro
<1>5. DOMAIN r = DOMAIN l /\ r[d] = e /\ \A i \in DOMAIN l \ {d} : r[i] = l[i]
  BY <1>2
<1> HIDE DEF r
<1>6. Of(r, f) = Of(l, f)
  BY <1>1, <1>5 DEF Of
<1>7. DOMAIN ListNotifications(r, f, from) = DOMAIN ListNotifications(l, f, from)
  BY <1>6 DEF ListNotifications, Restrict
<1> QED BY <1>1, <1>4, <1>5, <1>7 DEF r, e

-----------------------------------------------------------------------------
(* The invariant.                                                          *)

CallType ==
  [op : {"list"}, arg : [filter : Filters, offset : Nat], answer : [cards : Lists, unread : Nat] \cup {None}]
    \cup [op : {"count"}, arg : {None}, answer : Nat \cup {None}]
    \cup [op : {"read", "delete"}, arg : Ids, answer : {"ok", "missing", None}]
    \cup [op : {"readAll", "prune", "deleteRead"}, arg : {None}, answer : {"ok", None}]
    \cup [op : {"skips"}, arg : {None}, answer : (SUBSET Groups) \cup {None}]
    \cup [op : {"deleteSkips"}, arg : Groups, answer : {"ok", None}]
    \cup [op : {"event"}, arg : {"notificationCreated", "notificationsReadAll"}, answer : {"sent"}]

NotifTypeOK ==
  /\ notes \in Lists /\ DOMAIN notes \subseteq 1..(next - 1) /\ skips \subseteq Groups
  /\ acts \in 0..MaxActs /\ next \in 1..(acts + 3)
  /\ view \in Views /\ filter \in Filters /\ offset \in Nat
  /\ notifCards \in Lists \cup {None} /\ rows \in (SUBSET Groups) \cup {None} /\ badge \in Nat
  /\ calls \in Seq(CallType) /\ fading \subseteq Ids
  /\ untold \subseteq {"notifications", "skips"}

Done(c) == c.answer # None

\* Requests are served in their order; a notification that was read stays so;
\* the last list asked for is the one that the page is to show.
InTurn(cs) == \A j, k \in DOMAIN cs : j < k /\ Done(cs[k]) => Done(cs[j])
StaysRead(cs, ns, n) ==
  \A k \in DOMAIN cs : cs[k].op = "read" /\ cs[k].answer = "ok" =>
    cs[k].arg < n /\ (cs[k].arg \in DOMAIN ns => ns[cs[k].arg].read)
LastList(cs, f, from) ==
  \A k \in DOMAIN cs : cs[k].op = "list" /\ (\A j \in DOMAIN cs : j > k => cs[j].op # "list") =>
    cs[k].arg.filter = f /\ cs[k].arg.offset = from

\* The greatest of some places.
Latest(k, S) == k \in S /\ \A j \in S : j <= k

\* The badge: a call will bring what it is to show, or the last that brought
\* something, the badge itself when there is none, is right.
BringsBadge(c) ==
  \/ c.op \in {"list", "count"} /\ ~Done(c)
  \/ Done(c) /\ (c.op \in {"readAll", "prune", "deleteRead"} \/ (c.op = "event" /\ c.arg = "notificationCreated"))
  \/ c.op \in {"read", "delete"} /\ c.answer = "ok"
SetsBadge(c) ==
  Done(c) /\ (c.op \in {"list", "count", "readAll"} \/ (c.op = "event" /\ c.arg = "notificationsReadAll"))
BadgeOf(c) == CASE c.op = "list" -> c.answer.unread [] c.op = "count" -> c.answer [] OTHER -> 0
BadgeSetters(cs) == {k \in DOMAIN cs : SetsBadge(cs[k])}

BadgeDue(cs, b, n) ==
  \/ \E k \in DOMAIN cs : BringsBadge(cs[k])
  \/ /\ \A k \in DOMAIN cs : Latest(k, BadgeSetters(cs)) => BadgeOf(cs[k]) = n
     /\ BadgeSetters(cs) = {} => b = n

\* The groups of skipped issues: the same.
BringsRows(c) == (c.op = "skips" /\ ~Done(c)) \/ (c.op = "deleteSkips" /\ Done(c))
RowSetters(cs) == {k \in DOMAIN cs : cs[k].op = "skips" /\ Done(cs[k])}

RowsDue(cs, r, s) ==
  \/ \E k \in DOMAIN cs : BringsRows(cs[k])
  \/ /\ \A k \in DOMAIN cs : Latest(k, RowSetters(cs)) => cs[k].answer = s
     /\ RowSetters(cs) = {} => r = s

\* The cards: a list is as the table, but for what the answers behind it will
\* do to it, and is empty only if the page has none.
BringsCards(c) == (c.op = "list" /\ ~Done(c)) \/ (c.op \in {"event", "readAll", "prune", "deleteRead"} /\ Done(c))
CardSetters(cs) == {k \in DOMAIN cs : cs[k].op = "list" /\ Done(cs[k])}
Granted(cs, op, i, k) == \E j \in DOMAIN cs : j > k /\ cs[j].op = op /\ cs[j].arg = i /\ cs[j].answer = "ok"

Follows(l, ns, cs, k) ==
  \A i \in DOMAIN l :
    /\ i \in DOMAIN ns => \/ l[i] = ns[i]
                          \/ Granted(cs, "read", i, k) /\ ns[i] = [l[i] EXCEPT !.read = TRUE]
    /\ i \notin DOMAIN ns => Granted(cs, "delete", i, k)
HasSome(l, ns, f, from) == DOMAIN ListNotifications(ns, f, from) # {} => DOMAIN l # {}
Holds(l, ns, f, from, cs, k) == l # None /\ Follows(l, ns, cs, k) /\ HasSome(l, ns, f, from)

CardsDue(cs, l, ns, f, from) ==
  \/ \E k \in DOMAIN cs : BringsCards(cs[k])
  \/ /\ \A k \in DOMAIN cs : Latest(k, CardSetters(cs)) => Holds(cs[k].answer.cards, ns, f, from, cs, k)
     /\ CardSetters(cs) = {} => Holds(l, ns, f, from, cs, 0)

InOrder == InTurn(calls) /\ StaysRead(calls, notes, next) /\ LastList(calls, filter, offset)
BadgeComes == "notifications" \notin untold => BadgeDue(calls, badge, Unread(notes))
RowsCome == "skips" \notin untold /\ view = "skips" => RowsDue(calls, rows, skips)
CardsCome ==
  "notifications" \notin untold /\ view = "notifications" =>
    fading # {} \/ CardsDue(calls, notifCards, notes, filter, offset)

NotifInv == NotifTypeOK /\ InOrder /\ BadgeComes /\ RowsCome /\ CardsCome

\* Nothing is on its way and no card fades.
AtRest == calls = <<>> /\ fading = {}

-----------------------------------------------------------------------------
(* Calls, and what can happen to the sequence of them.                     *)

LEMMA CallLemma ==
  ASSUME NEW c \in CallType
  PROVE  /\ c = [op |-> c.op, arg |-> c.arg, answer |-> c.answer]
         /\ c.op = "list" => /\ c.arg \in [filter : Filters, offset : Nat]
                             /\ Done(c) => c.answer \in [cards : Lists, unread : Nat]
         /\ c.op = "count" /\ Done(c) => c.answer \in Nat
         /\ c.op \in {"read", "delete"} => c.arg \in Ids /\ c.answer \in {"ok", "missing", None}
         /\ c.op = "skips" /\ Done(c) => c.answer \in SUBSET Groups
         /\ c.op = "event" => Done(c)
<1>1. None \notin {"ok", "missing", "sent"}
  BY NotifAssumption DEF NotifAssumption
<1>2. c = [op |-> c.op, arg |-> c.arg, answer |-> c.answer]
  BY DEF CallType
<1>3. c.op = "list" => /\ c.arg \in [filter : Filters, offset : Nat]
                       /\ Done(c) => c.answer \in [cards : Lists, unread : Nat]
  BY DEF CallType, Done
<1>4. c.op = "count" /\ Done(c) => c.answer \in Nat
  BY DEF CallType, Done
<1>5. c.op \in {"read", "delete"} => c.arg \in Ids /\ c.answer \in {"ok", "missing", None}
  BY DEF CallType
<1>6. c.op = "skips" /\ Done(c) => c.answer \in SUBSET Groups
  BY DEF CallType, Done
<1>7. c.op = "event" => Done(c)
  BY <1>1 DEF CallType, Done
<1> QED BY <1>2, <1>3, <1>4, <1>5, <1>6, <1>7

\* What the page asks for.
LEMMA CallIntro ==
  /\ \A f \in Filters, from \in Nat : FetchAndRender(f, from) \in CallType
  /\ Call("count", None) \in CallType /\ Call("skips", None) \in CallType
  /\ \A op \in {"read", "delete"}, i \in Ids : Call(op, i) \in CallType
  /\ \A op \in {"readAll", "prune", "deleteRead"} : Call(op, None) \in CallType
  /\ \A g \in Groups : Call("deleteSkips", g) \in CallType
  /\ \A op, x : /\ Call(op, x).op = op /\ Call(op, x).arg = x /\ ~Done(Call(op, x))
<1>1. \A f \in Filters, from \in Nat : FetchAndRender(f, from) \in CallType
  BY DEF CallType, Call, FetchAndRender
<1>2. Call("count", None) \in CallType
  BY DEF CallType, Call
<1>3. Call("skips", None) \in CallType
  BY DEF CallType, Call
<1>4. \A op \in {"read", "delete"}, i \in Ids : Call(op, i) \in CallType
  BY DEF CallType, Call
<1>5. \A op \in {"readAll", "prune", "deleteRead"} : Call(op, None) \in CallType
  BY DEF CallType, Call
<1>6. \A g \in Groups : Call("deleteSkips", g) \in CallType
  BY DEF CallType, Call
<1>7. \A op, x : Call(op, x).op = op /\ Call(op, x).arg = x /\ ~Done(Call(op, x))
  BY DEF Call, Done
<1> QED BY <1>1, <1>2, <1>3, <1>4, <1>5, <1>6, <1>7

\* A call is served.
LEMMA ServedLemma ==
  ASSUME NEW cs \in Seq(CallType), NEW k \in DOMAIN cs, NEW a,
         \/ cs[k].op = "list" /\ a \in [cards : Lists, unread : Nat]
         \/ cs[k].op = "count" /\ a \in Nat
         \/ cs[k].op \in {"read", "delete"} /\ a \in {"ok", "missing"}
         \/ cs[k].op \in {"readAll", "prune", "deleteRead", "deleteSkips"} /\ a = "ok"
         \/ cs[k].op = "skips" /\ a \in SUBSET Groups
  PROVE  LET r == [cs EXCEPT ![k].answer = a]
         IN  /\ r \in Seq(CallType) /\ Len(r) = Len(cs) /\ DOMAIN r = DOMAIN cs
             /\ r[k].op = cs[k].op /\ r[k].arg = cs[k].arg /\ r[k].answer = a /\ Done(r[k])
             /\ \A j \in DOMAIN cs : j # k => r[j] = cs[j]
<1> DEFINE c == cs[k]
           d == [c EXCEPT !.answer = a]
           r == [cs EXCEPT ![k].answer = a]
<1>1. c \in CallType
  OBVIOUS
<1>2. c = [op |-> c.op, arg |-> c.arg, answer |-> c.answer]
  BY <1>1, CallLemma
<1>3. d.op = c.op /\ d.arg = c.arg /\ d.answer = a /\ d = [op |-> c.op, arg |-> c.arg, answer |-> a]
  BY <1>2
<1>4. Done(d)
  BY <1>3, NotifAssumption DEF Done, NotifAssumption
<1>5. d \in CallType
  <2> HIDE DEF d
  <2> QED BY <1>1, <1>3 DEF CallType
<1>6. r = [j \in DOMAIN cs |-> IF j = k THEN d ELSE cs[j]]
  OBVIOUS
<1> HIDE DEF d, r
<1>7. DOMAIN r = DOMAIN cs /\ r[k] = d /\ \A j \in DOMAIN cs : j # k => r[j] = cs[j]
  BY <1>6
<1>8. r \in Seq(CallType) /\ Len(r) = Len(cs)
  <2>1. \A j \in DOMAIN cs : r[j] \in CallType
    BY <1>5, <1>7
  <2>2. r = [j \in DOMAIN cs |-> r[j]]
    BY <1>6
  <2>3. r \in Seq(CallType)
    BY <2>1, <2>2, <1>7, MappedLemma
  <2> QED BY <2>3, <1>7
<1> QED BY <1>3, <1>4, <1>7, <1>8 DEF r

\* Calls are sent.
LEMMA SentLemma ==
  ASSUME NEW cs \in Seq(CallType), NEW t \in Seq(CallType)
  PROVE  LET r == cs \o t
         IN  /\ r \in Seq(CallType)
             /\ \A k \in DOMAIN cs : k \in DOMAIN r /\ r[k] = cs[k]
             /\ \A k \in DOMAIN r : k \in DOMAIN cs \/ \E m \in DOMAIN t : r[k] = t[m] /\ k = Len(cs) + m
             /\ \A m \in DOMAIN t : Len(cs) + m \in DOMAIN r /\ r[Len(cs) + m] = t[m]
<1> DEFINE r == cs \o t
<1>1. r \in Seq(CallType) /\ Len(r) = Len(cs) + Len(t)
  BY BehindLemma
<1>2. \A m \in 1..Len(cs) : r[m] = cs[m]
  BY BehindLemma
<1>3. \A m \in 1..Len(t) : r[Len(cs) + m] = t[m]
  BY BehindLemma
<1> HIDE DEF r
<1>4. ASSUME NEW k \in DOMAIN r, k \notin DOMAIN cs PROVE \E m \in DOMAIN t : r[k] = t[m] /\ k = Len(cs) + m
  <2>1. k - Len(cs) \in 1..Len(t) /\ k = Len(cs) + (k - Len(cs))
    BY <1>1, <1>4
  <2> QED BY <2>1, <1>3
<1>5. \A m \in DOMAIN t : Len(cs) + m \in DOMAIN r /\ r[Len(cs) + m] = t[m]
  BY <1>1, <1>3
<1>6. \A k \in DOMAIN cs : k \in DOMAIN r /\ r[k] = cs[k]
  BY <1>1, <1>2
<1> QED BY <1>1, <1>4, <1>5, <1>6 DEF r

\* The first is gone.
LEMMA GoneLemma ==
  ASSUME NEW cs \in Seq(CallType), cs # <<>>
  PROVE  /\ Tail(cs) \in Seq(CallType) /\ 1 \in DOMAIN cs /\ Head(cs) = cs[1]
         /\ \A k \in DOMAIN cs : k # 1 => k - 1 \in DOMAIN Tail(cs) /\ Tail(cs)[k - 1] = cs[k]
         /\ \A k \in DOMAIN Tail(cs) : k \in Nat /\ k >= 1 /\ k + 1 \in DOMAIN cs /\ Tail(cs)[k] = cs[k + 1]
<1>1. /\ Tail(cs) \in Seq(CallType) /\ Len(Tail(cs)) = Len(cs) - 1
      /\ \A m \in 1..(Len(cs) - 1) : Tail(cs)[m] = cs[m + 1]
  OBVIOUS
<1>2. ASSUME NEW k \in DOMAIN cs, k # 1 PROVE k - 1 \in DOMAIN Tail(cs) /\ Tail(cs)[k - 1] = cs[k]
  <2>1. k - 1 \in 1..(Len(cs) - 1) /\ (k - 1) + 1 = k
    BY <1>2
  <2> QED BY <2>1, <1>1
<1>3. \A k \in DOMAIN Tail(cs) : k \in Nat /\ k >= 1 /\ k + 1 \in DOMAIN cs /\ Tail(cs)[k] = cs[k + 1]
  BY <1>1
<1> QED BY <1>1, <1>2, <1>3

\* An event comes between what is served and what is not.
EventAt(cs, r, d, e) ==
  /\ d \in DOMAIN r /\ r[d] = [op |-> "event", arg |-> e, answer |-> "sent"]
  /\ \A j \in DOMAIN cs : Done(cs[j]) <=> j < d
  /\ \A j \in DOMAIN cs : IF j < d THEN j \in DOMAIN r /\ r[j] = cs[j]
                          ELSE j + 1 \in DOMAIN r /\ r[j + 1] = cs[j]
  /\ \A j \in DOMAIN r : IF j < d THEN j \in DOMAIN cs /\ r[j] = cs[j]
                         ELSE j # d => j - 1 \in DOMAIN cs /\ r[j] = cs[j - 1]

LEMMA BroadcastLemma ==
  ASSUME NEW cs \in Seq(CallType), InTurn(cs), NEW e \in {"notificationCreated", "notificationsReadAll"}
  PROVE  /\ Broadcast(cs, e) \in Seq(CallType)
         /\ \E d \in 1..(Len(cs) + 1) : EventAt(cs, Broadcast(cs, e), d, e)
<1> DEFINE D == {k \in DOMAIN cs : cs[k].answer # None}
           U == DOMAIN cs \ D
           v == [op |-> "event", arg |-> e, answer |-> "sent"]
<1>1. PICK d \in 1..(Len(cs) + 1) : D = 1..(d - 1)
  <2>1. CASE U = {}
    <3>1. D = 1..((Len(cs) + 1) - 1)
      BY <2>1
    <3> QED BY <3>1
  <2>2. CASE U # {}
    <3>1. U \in SUBSET Nat
      OBVIOUS
    <3> DEFINE d == Min(U)
    <3>2. d \in U /\ \A n \in U : d <= n
      BY <2>2, <3>1, SmallestLemma
    <3> HIDE DEF d
    <3>3. ASSUME NEW j \in DOMAIN cs PROVE j \in D <=> j < d
      <4>1. CASE j < d
        BY <4>1, <3>2, <3>1
      <4>2. CASE j >= d
        <5>1. d \in DOMAIN cs /\ ~Done(cs[d])
          BY <3>2 DEF Done
        <5>2. ~Done(cs[j])
          <6>1. CASE j = d
            BY <5>1, <6>1
          <6>2. CASE j # d
            BY <5>1, <6>2, <4>2 DEF InTurn
          <6> QED BY <6>1, <6>2
        <5> QED BY <5>2, <4>2, <5>1 DEF Done
      <4> QED BY <4>1, <4>2, <3>2
    <3>4. d \in 1..(Len(cs) + 1)
      BY <3>2
    <3>5. D = 1..(d - 1)
      <4> HIDE DEF D
      <4>1. D \subseteq DOMAIN cs
        BY DEF D
      <4>2. DOMAIN cs = 1..Len(cs) /\ Len(cs) \in Nat /\ d \in DOMAIN cs
        BY <3>2
      <4>3. \A j \in 1..Len(cs) : j \in D <=> j < d
        BY <3>3, <4>2
      <4>4. \A j : j \in D <=> j \in 1..(d - 1)
        BY <4>1, <4>2, <4>3
      <4> QED BY <4>4
    <3> QED BY <3>4, <3>5
  <2> QED BY <2>1, <2>2
<1>2. Cardinality(D) = d - 1
  <2>1. Cardinality(1..(d - 1)) = d - 1
    BY FS_Interval
  <2> HIDE DEF D
  <2> QED BY <2>1, <1>1
<1>3. Broadcast(cs, e) = InsertAt(cs, d, v)
  <2>1. Broadcast(cs, e) = InsertAt(cs, Cardinality(D) + 1, v)
    BY DEF Broadcast
  <2>2. (d - 1) + 1 = d
    OBVIOUS
  <2> HIDE DEF D, v
  <2> QED BY <2>1, <1>2, <2>2
<1>4. \A j \in DOMAIN cs : Done(cs[j]) <=> j < d
  <2>1. \A j \in DOMAIN cs : Done(cs[j]) <=> j \in D
    BY DEF Done
  <2> HIDE DEF D
  <2> QED BY <2>1, <1>1
<1>5. v \in CallType
  BY DEF CallType
<1> DEFINE r == Broadcast(cs, e)
<1> HIDE DEF v, D, U, r
<1>6. r = InsertAt(cs, d, v)
  BY <1>3 DEF r
<1>7. InsertAt(cs, d, v) \in Seq(CallType) /\ Len(InsertAt(cs, d, v)) = Len(cs) + 1
  BY <1>5, InsertLemma
<1>8. \A m \in 1..(Len(cs) + 1) : InsertAt(cs, d, v)[m] = IF m < d THEN cs[m] ELSE IF m = d THEN v ELSE cs[m - 1]
  BY <1>5, InsertLemma
<1>9. /\ r \in Seq(CallType) /\ DOMAIN r = 1..(Len(cs) + 1) /\ DOMAIN cs = 1..Len(cs)
      /\ \A m \in 1..(Len(cs) + 1) : r[m] = IF m < d THEN cs[m] ELSE IF m = d THEN v ELSE cs[m - 1]
  BY <1>6, <1>7, <1>8
<1>10. d \in DOMAIN r /\ r[d] = v
  BY <1>9
<1>11. \A j \in DOMAIN cs : IF j < d THEN j \in DOMAIN r /\ r[j] = cs[j]
                            ELSE j + 1 \in DOMAIN r /\ r[j + 1] = cs[j]
  BY <1>9
<1>12. \A j \in DOMAIN r : IF j < d THEN j \in DOMAIN cs /\ r[j] = cs[j]
                           ELSE j # d => j - 1 \in DOMAIN cs /\ r[j] = cs[j - 1]
  BY <1>9
<1>13. EventAt(cs, r, d, e)
  BY <1>4, <1>10, <1>11, <1>12 DEF v, EventAt
<1> QED BY <1>9, <1>13 DEF r

-----------------------------------------------------------------------------
(* What these changes keep.                                                *)

LEMMA LatestMoves ==
  ASSUME NEW A \in SUBSET (Nat \ {0}), NEW B \in SUBSET (Nat \ {0}),
         \A m \in Nat \ {0} : m \in B <=> m + 1 \in A
  PROVE  /\ \A m \in B : Latest(m, B) => Latest(m + 1, A)
         /\ B = {} => A = {} \/ Latest(1, A)
<1>1. ASSUME NEW m \in B, Latest(m, B) PROVE Latest(m + 1, A)
  <2>1. m + 1 \in A
    OBVIOUS
  <2>2. ASSUME NEW j \in A PROVE j <= m + 1
    <3>1. CASE j = 1
      BY <3>1
    <3>2. CASE j # 1
      <4>1. j - 1 \in Nat \ {0} /\ (j - 1) + 1 = j
        BY <3>2
      <4>2. j - 1 \in B
        BY <4>1
      <4> QED BY <4>2, <1>1 DEF Latest
    <3> QED BY <3>1, <3>2
  <2> QED BY <2>1, <2>2 DEF Latest
<1>2. ASSUME B = {}, A # {} PROVE Latest(1, A)
  <2>1. \A j \in A : j = 1
    <3> SUFFICES ASSUME NEW j \in A, j # 1 PROVE FALSE
      OBVIOUS
    <3>1. j - 1 \in Nat \ {0} /\ (j - 1) + 1 = j
      OBVIOUS
    <3> QED BY <3>1, <1>2
  <2>2. 1 \in A
    BY <2>1, <1>2
  <2>3. \A j \in A : j <= 1
    BY <2>1
  <2> QED BY <2>2, <2>3 DEF Latest
<1> QED BY <1>1, <1>2

LEMMA SentKeeps ==
  ASSUME NEW cs \in Seq(CallType), NEW t \in Seq(CallType), \A m \in DOMAIN t : ~Done(t[m])
  PROVE  LET r == cs \o t
         IN  /\ r \in Seq(CallType)
             /\ InTurn(cs) => InTurn(r)
             /\ \A ns, n : StaysRead(cs, ns, n) => StaysRead(r, ns, n)
             /\ \A b, n : BadgeDue(cs, b, n) => BadgeDue(r, b, n)
             /\ \A w, s : RowsDue(cs, w, s) => RowsDue(r, w, s)
             /\ \A l, ns, f, from : CardsDue(cs, l, ns, f, from) => CardsDue(r, l, ns, f, from)
<1> DEFINE r == cs \o t
<1>1. /\ r \in Seq(CallType)
      /\ \A k \in DOMAIN cs : k \in DOMAIN r /\ r[k] = cs[k]
      /\ \A k \in DOMAIN r : k \in DOMAIN cs \/ \E m \in DOMAIN t : r[k] = t[m] /\ k = Len(cs) + m
  BY SentLemma
<1> HIDE DEF r
<1>2. ASSUME NEW k \in DOMAIN r, Done(r[k]) PROVE k \in DOMAIN cs
  BY <1>1, <1>2
<1>3. "ok" # None
  BY NotifAssumption DEF NotifAssumption
<1>4. ASSUME NEW k \in DOMAIN r, r[k].answer = "ok" PROVE k \in DOMAIN cs
  BY <1>2, <1>3, <1>4 DEF Done
<1>5. ASSUME InTurn(cs) PROVE InTurn(r)
  <2> SUFFICES ASSUME NEW j \in DOMAIN r, NEW k \in DOMAIN r, j < k, Done(r[k]) PROVE Done(r[j])
    BY DEF InTurn
  <2>1. k \in DOMAIN cs /\ r[k] = cs[k]
    BY <1>1, <1>2
  <2>2. j \in DOMAIN cs
    BY <2>1, <1>1
  <2> QED BY <2>1, <2>2, <1>1, <1>5 DEF InTurn
<1>6. ASSUME NEW ns, NEW n, StaysRead(cs, ns, n) PROVE StaysRead(r, ns, n)
  BY <1>1, <1>4, <1>6 DEF StaysRead
<1>7. ASSUME NEW b, NEW n, BadgeDue(cs, b, n) PROVE BadgeDue(r, b, n)
  <2>1. \A k : k \in BadgeSetters(r) <=> k \in BadgeSetters(cs)
    BY <1>1, <1>2 DEF BadgeSetters, SetsBadge
  <2>2. BadgeSetters(r) = BadgeSetters(cs)
    BY <2>1
  <2>3. CASE \E k \in DOMAIN cs : BringsBadge(cs[k])
    BY <2>3, <1>1 DEF BadgeDue
  <2>4. CASE ~\E k \in DOMAIN cs : BringsBadge(cs[k])
    <3>1. \A k \in DOMAIN r : Latest(k, BadgeSetters(r)) => k \in DOMAIN cs /\ Latest(k, BadgeSetters(cs))
      BY <2>2 DEF Latest, BadgeSetters
    <3> QED BY <2>4, <3>1, <2>2, <1>1, <1>7 DEF BadgeDue
  <2> QED BY <2>3, <2>4
<1>8. ASSUME NEW w, NEW s, RowsDue(cs, w, s) PROVE RowsDue(r, w, s)
  <2>1. \A k : k \in RowSetters(r) <=> k \in RowSetters(cs)
    BY <1>1, <1>2 DEF RowSetters
  <2>2. RowSetters(r) = RowSetters(cs)
    BY <2>1
  <2>3. CASE \E k \in DOMAIN cs : BringsRows(cs[k])
    BY <2>3, <1>1 DEF RowsDue
  <2>4. CASE ~\E k \in DOMAIN cs : BringsRows(cs[k])
    <3>1. \A k \in DOMAIN r : Latest(k, RowSetters(r)) => k \in DOMAIN cs /\ Latest(k, RowSetters(cs))
      BY <2>2 DEF Latest, RowSetters
    <3> QED BY <2>4, <3>1, <2>2, <1>1, <1>8 DEF RowsDue
  <2> QED BY <2>3, <2>4
<1>9. ASSUME NEW l, NEW ns, NEW f, NEW from, CardsDue(cs, l, ns, f, from) PROVE CardsDue(r, l, ns, f, from)
  <2>1. \A k : k \in CardSetters(r) <=> k \in CardSetters(cs)
    BY <1>1, <1>2 DEF CardSetters
  <2>2. CardSetters(r) = CardSetters(cs)
    BY <2>1
  <2>3. CASE \E k \in DOMAIN cs : BringsCards(cs[k])
    BY <2>3, <1>1 DEF CardsDue
  <2>4. CASE ~\E k \in DOMAIN cs : BringsCards(cs[k])
    <3>1. \A k \in DOMAIN r : Latest(k, CardSetters(r)) => k \in DOMAIN cs /\ Latest(k, CardSetters(cs))
      BY <2>2 DEF Latest, CardSetters
    <3>2. \A op, i, k : Granted(cs, op, i, k) => Granted(r, op, i, k)
      BY <1>1 DEF Granted
    <3>3. \A x, k : Holds(x, ns, f, from, cs, k) => Holds(x, ns, f, from, r, k)
      BY <3>2 DEF Holds, Follows
    <3> QED BY <2>4, <3>1, <3>3, <2>2, <1>1, <1>9 DEF CardsDue
  <2> QED BY <2>3, <2>4
<1> QED BY <1>1, <1>5, <1>6, <1>7, <1>8, <1>9 DEF r

\* What is sent brings what it asks for.
LEMMA SentBrings ==
  ASSUME NEW cs \in Seq(CallType), NEW t \in Seq(CallType), NEW m \in DOMAIN t, ~Done(t[m])
  PROVE  /\ t[m].op \in {"list", "count"} => \A b, n : BadgeDue(cs \o t, b, n)
         /\ t[m].op = "skips" => \A w, s : RowsDue(cs \o t, w, s)
         /\ t[m].op = "list" => \A l, ns, f, from : CardsDue(cs \o t, l, ns, f, from)
<1> DEFINE r == cs \o t
<1>1. Len(cs) + m \in DOMAIN r /\ r[Len(cs) + m] = t[m]
  BY SentLemma
<1> HIDE DEF r
<1>2. t[m].op \in {"list", "count"} => \A b, n : BadgeDue(r, b, n)
  BY <1>1 DEF BadgeDue, BringsBadge
<1>3. t[m].op = "skips" => \A w, s : RowsDue(r, w, s)
  BY <1>1 DEF RowsDue, BringsRows
<1>4. t[m].op = "list" => \A l, ns, f, from : CardsDue(r, l, ns, f, from)
  BY <1>1 DEF CardsDue, BringsCards
<1> QED BY <1>2, <1>3, <1>4 DEF r

\* The list that is to be shown is the last one sent.
LEMMA SentLast ==
  ASSUME NEW cs \in Seq(CallType), NEW t \in Seq(CallType), NEW f, NEW from,
         \/ LastList(cs, f, from) /\ \A m \in DOMAIN t : t[m].op # "list"
         \/ t # <<>> /\ t[Len(t)].op = "list" /\ t[Len(t)].arg.filter = f /\ t[Len(t)].arg.offset = from
  PROVE  LastList(cs \o t, f, from)
<1> DEFINE r == cs \o t
<1>1. /\ r \in Seq(CallType)
      /\ \A k \in DOMAIN cs : k \in DOMAIN r /\ r[k] = cs[k]
      /\ \A k \in DOMAIN r : k \in DOMAIN cs \/ \E m \in DOMAIN t : r[k] = t[m] /\ k = Len(cs) + m
      /\ \A m \in DOMAIN t : Len(cs) + m \in DOMAIN r /\ r[Len(cs) + m] = t[m]
  BY SentLemma
<1> HIDE DEF r
<1> SUFFICES ASSUME NEW k \in DOMAIN r, r[k].op = "list", \A j \in DOMAIN r : j > k => r[j].op # "list"
             PROVE  r[k].arg.filter = f /\ r[k].arg.offset = from
  BY DEF LastList, r
<1>2. CASE LastList(cs, f, from) /\ \A m \in DOMAIN t : t[m].op # "list"
  <2>1. k \in DOMAIN cs /\ r[k] = cs[k]
    BY <1>1, <1>2
  <2>2. \A j \in DOMAIN cs : j > k => cs[j].op # "list"
    BY <1>1
  <2> QED BY <2>1, <2>2, <1>2 DEF LastList
<1>3. CASE t # <<>> /\ t[Len(t)].op = "list" /\ t[Len(t)].arg.filter = f /\ t[Len(t)].arg.offset = from
  <2>1. Len(t) \in DOMAIN t /\ Len(t) \in Nat /\ Len(cs) \in Nat /\ Len(t) >= 1
    BY <1>3
  <2>2. ~(Len(cs) + Len(t) > k)
    BY <2>1, <1>1, <1>3
  <2>3. k = Len(cs) + Len(t)
    <3>1. CASE k \in DOMAIN cs
      BY <3>1, <2>1, <2>2
    <3>2. CASE k \notin DOMAIN cs
      BY <3>2, <2>1, <2>2, <1>1
    <3> QED BY <3>1, <3>2
  <2> QED BY <2>1, <2>3, <1>1, <1>3
<1> QED BY <1>2, <1>3

\* The first is answered.
LEMMA GoneKeeps ==
  ASSUME NEW cs \in Seq(CallType), cs # <<>>
  PROVE  /\ InTurn(cs) => InTurn(Tail(cs))
         /\ \A ns, n : StaysRead(cs, ns, n) => StaysRead(Tail(cs), ns, n)
         /\ \A f, from : LastList(cs, f, from) => LastList(Tail(cs), f, from)
<1> DEFINE r == Tail(cs)
<1>1. /\ \A k \in DOMAIN cs : k # 1 => k - 1 \in DOMAIN r /\ r[k - 1] = cs[k]
      /\ \A k \in DOMAIN r : k \in Nat /\ k >= 1 /\ k + 1 \in DOMAIN cs /\ r[k] = cs[k + 1]
      /\ \A k \in DOMAIN cs : k \in Nat /\ k >= 1
  BY GoneLemma
<1> HIDE DEF r
<1>2. ASSUME InTurn(cs) PROVE InTurn(r)
  BY <1>1, <1>2 DEF InTurn
<1>3. ASSUME NEW ns, NEW n, StaysRead(cs, ns, n) PROVE StaysRead(r, ns, n)
  BY <1>1, <1>3 DEF StaysRead
<1>4. ASSUME NEW f, NEW from, LastList(cs, f, from) PROVE LastList(r, f, from)
  <2> SUFFICES ASSUME NEW k \in DOMAIN r, r[k].op = "list", \A j \in DOMAIN r : j > k => r[j].op # "list"
               PROVE  r[k].arg.filter = f /\ r[k].arg.offset = from
    BY DEF LastList
  <2>1. k + 1 \in DOMAIN cs /\ cs[k + 1] = r[k]
    BY <1>1
  <2>2. ASSUME NEW j \in DOMAIN cs, j > k + 1 PROVE cs[j].op # "list"
    <3>1. j # 1 /\ j - 1 > k
      BY <1>1, <2>2
    <3> QED BY <3>1, <1>1
  <2> QED BY <2>1, <2>2, <1>4 DEF LastList
<1> QED BY <1>2, <1>3, <1>4 DEF r

LEMMA GoneBadge ==
  ASSUME NEW cs \in Seq(CallType), cs # <<>>, NEW b, NEW n, BadgeDue(cs, b, n), ~BringsBadge(Head(cs))
  PROVE  BadgeDue(Tail(cs), IF SetsBadge(Head(cs)) THEN BadgeOf(Head(cs)) ELSE b, n)
<1> DEFINE r == Tail(cs)
           A == BadgeSetters(cs)
           B == BadgeSetters(r)
<1>1. /\ 1 \in DOMAIN cs /\ Head(cs) = cs[1]
      /\ \A k \in DOMAIN cs : k # 1 => k - 1 \in DOMAIN r /\ r[k - 1] = cs[k]
      /\ \A k \in DOMAIN r : k \in Nat /\ k >= 1 /\ k + 1 \in DOMAIN cs /\ r[k] = cs[k + 1]
      /\ \A k \in DOMAIN cs : k \in Nat /\ k >= 1
  BY GoneLemma
<1> HIDE DEF r
<1>2. A \in SUBSET (Nat \ {0}) /\ B \in SUBSET (Nat \ {0})
  BY <1>1 DEF BadgeSetters
<1>3. ASSUME NEW m \in Nat \ {0} PROVE m \in B <=> m + 1 \in A
  <2>1. m \in DOMAIN r <=> m + 1 \in DOMAIN cs
    <3>1. m + 1 # 1 /\ (m + 1) - 1 = m
      OBVIOUS
    <3> QED BY <3>1, <1>1
  <2> QED BY <2>1, <1>1 DEF BadgeSetters
<1>4. (1 \in A) <=> SetsBadge(Head(cs))
  BY <1>1 DEF BadgeSetters
<1>5. /\ \A m \in B : Latest(m, B) => Latest(m + 1, A)
      /\ B = {} => A = {} \/ Latest(1, A)
  <2> HIDE DEF A, B
  <2> QED BY <1>2, <1>3, LatestMoves
<1>6. CASE \E k \in DOMAIN cs : BringsBadge(cs[k])
  BY <1>1, <1>6 DEF BadgeDue, r
<1>7. CASE ~\E k \in DOMAIN cs : BringsBadge(cs[k])
  <2>1. /\ \A k \in DOMAIN cs : Latest(k, A) => BadgeOf(cs[k]) = n
        /\ A = {} => b = n
    BY <1>7 DEF BadgeDue
  <2> HIDE DEF A
  <2>2. \A k \in DOMAIN r : Latest(k, B) => BadgeOf(r[k]) = n
    <3> SUFFICES ASSUME NEW k \in DOMAIN r, Latest(k, B) PROVE BadgeOf(r[k]) = n
      OBVIOUS
    <3>1. Latest(k + 1, A)
      BY <1>5 DEF Latest
    <3> QED BY <3>1, <2>1, <1>1
  <2>3. B = {} => (IF SetsBadge(Head(cs)) THEN BadgeOf(Head(cs)) ELSE b) = n
    BY <2>1, <1>1, <1>4, <1>5 DEF Latest
  <2> QED BY <2>2, <2>3 DEF BadgeDue, r
<1> QED BY <1>6, <1>7

LEMMA GoneRows ==
  ASSUME NEW cs \in Seq(CallType), cs # <<>>, NEW w, NEW s, RowsDue(cs, w, s), ~BringsRows(Head(cs))
  PROVE  RowsDue(Tail(cs), IF Head(cs).op = "skips" THEN Head(cs).answer ELSE w, s)
<1> DEFINE r == Tail(cs)
           A == RowSetters(cs)
           B == RowSetters(r)
<1>1. /\ 1 \in DOMAIN cs /\ Head(cs) = cs[1]
      /\ \A k \in DOMAIN cs : k # 1 => k - 1 \in DOMAIN r /\ r[k - 1] = cs[k]
      /\ \A k \in DOMAIN r : k \in Nat /\ k >= 1 /\ k + 1 \in DOMAIN cs /\ r[k] = cs[k + 1]
      /\ \A k \in DOMAIN cs : k \in Nat /\ k >= 1
  BY GoneLemma
<1> HIDE DEF r
<1>2. A \in SUBSET (Nat \ {0}) /\ B \in SUBSET (Nat \ {0})
  BY <1>1 DEF RowSetters
<1>3. ASSUME NEW m \in Nat \ {0} PROVE m \in B <=> m + 1 \in A
  <2>1. m \in DOMAIN r <=> m + 1 \in DOMAIN cs
    <3>1. m + 1 # 1 /\ (m + 1) - 1 = m
      OBVIOUS
    <3> QED BY <3>1, <1>1
  <2> QED BY <2>1, <1>1 DEF RowSetters
<1>4. (1 \in A) <=> Head(cs).op = "skips"
  BY <1>1 DEF RowSetters, BringsRows
<1>5. /\ \A m \in B : Latest(m, B) => Latest(m + 1, A)
      /\ B = {} => A = {} \/ Latest(1, A)
  <2> HIDE DEF A, B
  <2> QED BY <1>2, <1>3, LatestMoves
<1>6. CASE \E k \in DOMAIN cs : BringsRows(cs[k])
  BY <1>1, <1>6 DEF RowsDue, r
<1>7. CASE ~\E k \in DOMAIN cs : BringsRows(cs[k])
  <2>1. /\ \A k \in DOMAIN cs : Latest(k, A) => cs[k].answer = s
        /\ A = {} => w = s
    BY <1>7 DEF RowsDue
  <2> HIDE DEF A
  <2>2. \A k \in DOMAIN r : Latest(k, B) => r[k].answer = s
    <3> SUFFICES ASSUME NEW k \in DOMAIN r, Latest(k, B) PROVE r[k].answer = s
      OBVIOUS
    <3>1. Latest(k + 1, A)
      BY <1>5 DEF Latest
    <3> QED BY <3>1, <2>1, <1>1
  <2>3. B = {} => (IF Head(cs).op = "skips" THEN Head(cs).answer ELSE w) = s
    BY <2>1, <1>1, <1>4, <1>5 DEF Latest
  <2> QED BY <2>2, <2>3 DEF RowsDue, r
<1> QED BY <1>6, <1>7

\* The cards once an answer is shown: those of a list; one that was read is
\* shown so.
CardsShown(l, c) ==
  IF c.op = "list" THEN c.answer.cards
  ELSE IF c.op = "read" /\ c.answer = "ok" /\ l # None
       THEN [i \in DOMAIN l |-> IF i = c.arg THEN [l[i] EXCEPT !.read = TRUE] ELSE l[i]]
       ELSE l

LEMMA GoneCards ==
  ASSUME NEW cs \in Seq(CallType), cs # <<>>, NEW l \in Lists \cup {None}, NEW ns \in Lists, NEW f, NEW from, NEW n,
         CardsDue(cs, l, ns, f, from), ~BringsCards(Head(cs)), StaysRead(cs, ns, n),
         Head(cs).op = "delete" /\ Head(cs).answer = "ok" /\ l # None => Head(cs).arg \notin DOMAIN l
  PROVE  CardsDue(Tail(cs), CardsShown(l, Head(cs)), ns, f, from)
<1> DEFINE r == Tail(cs)
           c == Head(cs)
           A == CardSetters(cs)
           B == CardSetters(r)
           x == CardsShown(l, c)
<1>1. /\ 1 \in DOMAIN cs /\ c = cs[1]
      /\ \A k \in DOMAIN cs : k # 1 => k - 1 \in DOMAIN r /\ r[k - 1] = cs[k]
      /\ \A k \in DOMAIN r : k \in Nat /\ k >= 1 /\ k + 1 \in DOMAIN cs /\ r[k] = cs[k + 1]
      /\ \A k \in DOMAIN cs : k \in Nat /\ k >= 1
  BY GoneLemma
<1>0. ~BringsCards(c) /\ (c.op = "delete" /\ c.answer = "ok" /\ l # None => c.arg \notin DOMAIN l)
  OBVIOUS
<1> HIDE DEF r, c
<1>2. A \in SUBSET (Nat \ {0}) /\ B \in SUBSET (Nat \ {0})
  BY <1>1 DEF CardSetters
<1>3. ASSUME NEW m \in Nat \ {0} PROVE m \in B <=> m + 1 \in A
  <2>1. m \in DOMAIN r <=> m + 1 \in DOMAIN cs
    <3>1. m + 1 # 1 /\ (m + 1) - 1 = m
      OBVIOUS
    <3> QED BY <3>1, <1>1
  <2> QED BY <2>1, <1>1 DEF CardSetters
<1>4. (1 \in A) <=> c.op = "list"
  BY <1>0, <1>1 DEF CardSetters, BringsCards
<1>5. /\ \A m \in B : Latest(m, B) => Latest(m + 1, A)
      /\ B = {} => A = {} \/ Latest(1, A)
  <2> HIDE DEF A, B
  <2> QED BY <1>2, <1>3, LatestMoves
<1>6. CASE \E k \in DOMAIN cs : BringsCards(cs[k])
  BY <1>0, <1>1, <1>6 DEF CardsDue, r, c
<1>7. CASE ~\E k \in DOMAIN cs : BringsCards(cs[k])
  <2>1. /\ \A k \in DOMAIN cs : Latest(k, A) => Holds(cs[k].answer.cards, ns, f, from, cs, k)
        /\ A = {} => Holds(l, ns, f, from, cs, 0)
    BY <1>7 DEF CardsDue
  <2> HIDE DEF A, B, x
  <2>2. ASSUME NEW op, NEW i, NEW k \in Nat, Granted(cs, op, i, k + 1) PROVE Granted(r, op, i, k)
    <3>1. PICK j \in DOMAIN cs : j > k + 1 /\ cs[j].op = op /\ cs[j].arg = i /\ cs[j].answer = "ok"
      BY <2>2 DEF Granted
    <3>2. j # 1 /\ j - 1 > k
      BY <3>1, <1>1
    <3> QED BY <3>1, <3>2, <1>1 DEF Granted
  <2>3. ASSUME NEW k \in Nat, NEW y, Holds(y, ns, f, from, cs, k + 1) PROVE Holds(y, ns, f, from, r, k)
    BY <2>2, <2>3 DEF Holds, Follows
  <2>4. \A k \in DOMAIN r : Latest(k, B) => Holds(r[k].answer.cards, ns, f, from, r, k)
    <3> SUFFICES ASSUME NEW k \in DOMAIN r, Latest(k, B) PROVE Holds(r[k].answer.cards, ns, f, from, r, k)
      OBVIOUS
    <3>1. Latest(k + 1, A)
      BY <1>5 DEF Latest
    <3> QED BY <3>1, <2>1, <2>3, <1>1
  <2>5. ASSUME B = {} PROVE Holds(x, ns, f, from, r, 0)
    <3>1. CASE c.op = "list"
      <4>1. Latest(1, A) /\ x = c.answer.cards
        BY <3>1, <2>5, <1>4, <1>5 DEF x, CardsShown
      <4>2. Holds(x, ns, f, from, cs, 0 + 1)
        BY <4>1, <2>1, <1>1
      <4> QED BY <4>2, <2>3
    <3>2. CASE c.op # "list"
      <4>1. Holds(l, ns, f, from, cs, 0)
        BY <3>2, <2>5, <2>1, <1>4, <1>5 DEF Latest
      <4>2. l \in Lists /\ l # None
        BY <4>1 DEF Holds
      <4>3. ASSUME NEW op, NEW i, Granted(cs, op, i, 0), ~(c.op = op /\ c.arg = i /\ c.answer = "ok")
            PROVE  Granted(r, op, i, 0)
        <5>1. PICK j \in DOMAIN cs : j > 0 /\ cs[j].op = op /\ cs[j].arg = i /\ cs[j].answer = "ok"
          BY <4>3 DEF Granted
        <5>2. j # 1 /\ j - 1 > 0
          BY <5>1, <4>3, <1>1
        <5> QED BY <5>1, <5>2, <1>1 DEF Granted
      <4>4. CASE c.op = "read" /\ c.answer = "ok"
        <5>1. x = [i \in DOMAIN l |-> IF i = c.arg THEN [l[i] EXCEPT !.read = TRUE] ELSE l[i]]
          BY <4>2, <4>4 DEF x, CardsShown
        <5>2. DOMAIN x = DOMAIN l /\ x # None
          <6>1. \A i \in DOMAIN l : [l[i] EXCEPT !.read = TRUE] \in Notification
            <7> SUFFICES ASSUME NEW i \in DOMAIN l PROVE [l[i] EXCEPT !.read = TRUE] \in Notification
              OBVIOUS
            <7>1. l[i] \in Notification
              BY <4>2, ListLemma
            <7> QED BY <7>1 DEF Notification
          <6>2. x \in [DOMAIN l -> Notification] /\ DOMAIN l \in SUBSET Ids
            BY <5>1, <6>1, <4>2, ListLemma
          <6>3. x \in Lists
            BY <6>2, ListIntro
          <6> QED BY <6>2, <6>3, NotifAssumption DEF NotifAssumption
        <5>3. ASSUME NEW i \in DOMAIN x, i \in DOMAIN ns
              PROVE  x[i] = ns[i] \/ (Granted(r, "read", i, 0) /\ ns[i] = [x[i] EXCEPT !.read = TRUE])
          <6>1. \/ l[i] = ns[i]
                \/ Granted(cs, "read", i, 0) /\ ns[i] = [l[i] EXCEPT !.read = TRUE]
            BY <4>1, <5>2, <5>3 DEF Holds, Follows
          <6>2. CASE i = c.arg
            <7>1. ns[i].read /\ ns[i] \in Notification
              BY <6>2, <4>4, <5>3, <1>1, ListLemma DEF StaysRead
            <7>2. [ns[i] EXCEPT !.read = TRUE] = ns[i]
              BY <7>1 DEF Notification
            <7>3. x[i] = [l[i] EXCEPT !.read = TRUE]
              BY <5>1, <5>2, <6>2
            <7> QED BY <6>1, <7>2, <7>3
          <6>3. CASE i # c.arg
            <7>1. x[i] = l[i]
              BY <5>1, <5>2, <6>3
            <7>2. Granted(cs, "read", i, 0) => Granted(r, "read", i, 0)
              BY <4>3, <6>3
            <7> QED BY <6>1, <7>1, <7>2
          <6> QED BY <6>2, <6>3
        <5>4. ASSUME NEW i \in DOMAIN x, i \notin DOMAIN ns PROVE Granted(r, "delete", i, 0)
          <6>1. Granted(cs, "delete", i, 0)
            BY <4>1, <5>2, <5>4 DEF Holds, Follows
          <6> QED BY <6>1, <4>3, <4>4
        <5>5. HasSome(x, ns, f, from)
          BY <4>1, <5>2 DEF Holds, HasSome
        <5>6. Follows(x, ns, r, 0)
          BY <5>3, <5>4 DEF Follows
        <5> QED BY <5>2, <5>5, <5>6 DEF Holds
      <4>5. CASE ~(c.op = "read" /\ c.answer = "ok")
        <5>1. x = l
          BY <3>2, <4>5 DEF x, CardsShown
        <5>2. \A i \in DOMAIN l : /\ Granted(cs, "read", i, 0) => Granted(r, "read", i, 0)
                                  /\ Granted(cs, "delete", i, 0) => Granted(r, "delete", i, 0)
          BY <4>2, <4>3, <4>5, <1>0
        <5>3. Follows(l, ns, r, 0)
          BY <4>1, <5>2 DEF Holds, Follows
        <5> QED BY <5>1, <5>3, <4>1 DEF Holds
      <4> QED BY <4>4, <4>5
    <3> QED BY <3>1, <3>2
  <2> QED BY <2>4, <2>5 DEF CardsDue, r, B, x, c
<1> QED BY <1>6, <1>7

\* Call k, the first that was not, is served: r has its answer.
ServedAt(cs, r, k) ==
  /\ k \in DOMAIN cs /\ DOMAIN r = DOMAIN cs
  /\ ~Done(cs[k]) /\ \A j \in 1..(k - 1) : Done(cs[j])
  /\ r[k].op = cs[k].op /\ r[k].arg = cs[k].arg /\ Done(r[k])
  /\ \A j \in DOMAIN cs : j # k => r[j] = cs[j]

LEMMA ServedOrder ==
  ASSUME NEW cs \in Seq(CallType), NEW r \in Seq(CallType), NEW k, ServedAt(cs, r, k), InTurn(cs)
  PROVE  /\ InTurn(r)
         /\ \A f, from : LastList(cs, f, from) => LastList(r, f, from)
         /\ \A j \in DOMAIN cs : (Done(cs[j]) <=> j < k) /\ (Done(r[j]) <=> j <= k)
<1>1. /\ k \in DOMAIN cs /\ DOMAIN r = DOMAIN cs
      /\ ~Done(cs[k]) /\ \A j \in 1..(k - 1) : Done(cs[j])
      /\ r[k].op = cs[k].op /\ r[k].arg = cs[k].arg /\ Done(r[k])
      /\ \A j \in DOMAIN cs : j # k => r[j] = cs[j]
  BY DEF ServedAt
<1>2. ASSUME NEW j \in DOMAIN cs PROVE (Done(cs[j]) <=> j < k) /\ (Done(r[j]) <=> j <= k)
  <2>1. CASE j < k
    <3>1. j \in 1..(k - 1)
      BY <2>1, <1>1
    <3> QED BY <3>1, <2>1, <1>1
  <2>2. CASE j = k
    BY <2>2, <1>1
  <2>3. CASE j > k
    <3>1. ~Done(cs[j])
      BY <2>3, <1>1 DEF InTurn
    <3> QED BY <3>1, <2>3, <1>1
  <2> QED BY <2>1, <2>2, <2>3, <1>1
<1>3. InTurn(r)
  <2> SUFFICES ASSUME NEW i \in DOMAIN r, NEW j \in DOMAIN r, i < j, Done(r[j]) PROVE Done(r[i])
    BY DEF InTurn
  <2>1. j <= k
    BY <1>1, <1>2
  <2>2. i <= k
    BY <2>1, <1>1
  <2> QED BY <2>2, <1>1, <1>2
<1>4. ASSUME NEW f, NEW from, LastList(cs, f, from) PROVE LastList(r, f, from)
  <2>1. \A j \in DOMAIN cs : r[j].op = cs[j].op /\ r[j].arg = cs[j].arg
    BY <1>1
  <2> QED BY <2>1, <1>1, <1>4 DEF LastList
<1> QED BY <1>2, <1>3, <1>4

LEMMA ServedBadge ==
  ASSUME NEW cs \in Seq(CallType), NEW r \in Seq(CallType), NEW k, ServedAt(cs, r, k), InTurn(cs), NEW b, NEW n,
         \/ BringsBadge(r[k])
         \/ SetsBadge(r[k]) /\ BadgeOf(r[k]) = n
         \/ BadgeDue(cs, b, n) /\ ~SetsBadge(r[k]) /\ ~BringsBadge(cs[k])
  PROVE  BadgeDue(r, b, n)
<1>1. /\ k \in DOMAIN r /\ DOMAIN r = DOMAIN cs /\ ~Done(cs[k])
      /\ \A j \in DOMAIN cs : j # k => r[j] = cs[j]
  BY DEF ServedAt
<1>2. \A j \in DOMAIN r : Done(r[j]) => j <= k
  BY <1>1, ServedOrder
<1>3. CASE BringsBadge(r[k])
  BY <1>1, <1>3 DEF BadgeDue
<1>4. CASE SetsBadge(r[k]) /\ BadgeOf(r[k]) = n
  <2>1. k \in BadgeSetters(r)
    BY <1>1, <1>4 DEF BadgeSetters
  <2>2. ASSUME NEW j \in DOMAIN r, Latest(j, BadgeSetters(r)) PROVE j = k
    <3>1. j <= k /\ k <= j
      BY <2>1, <2>2, <1>2 DEF Latest, BadgeSetters, SetsBadge
    <3> QED BY <3>1, <1>1
  <2> QED BY <2>1, <2>2, <1>4 DEF BadgeDue
<1>5. CASE BadgeDue(cs, b, n) /\ ~SetsBadge(r[k]) /\ ~BringsBadge(cs[k])
  <2>1. \A j : j \in BadgeSetters(r) <=> j \in BadgeSetters(cs)
    BY <1>1, <1>5 DEF BadgeSetters, SetsBadge
  <2>2. BadgeSetters(r) = BadgeSetters(cs)
    BY <2>1
  <2>3. CASE \E j \in DOMAIN cs : BringsBadge(cs[j])
    BY <2>3, <1>1, <1>5 DEF BadgeDue
  <2>4. CASE ~\E j \in DOMAIN cs : BringsBadge(cs[j])
    <3>1. /\ \A j \in DOMAIN cs : Latest(j, BadgeSetters(cs)) => BadgeOf(cs[j]) = n
          /\ BadgeSetters(cs) = {} => b = n
      BY <2>4, <1>5 DEF BadgeDue
    <3>2. k \notin BadgeSetters(cs)
      BY <1>1 DEF BadgeSetters, SetsBadge
    <3>3. ASSUME NEW j \in DOMAIN r, Latest(j, BadgeSetters(r)) PROVE BadgeOf(r[j]) = n
      <4>1. j # k /\ Latest(j, BadgeSetters(cs))
        BY <2>2, <3>2, <3>3 DEF Latest
      <4> QED BY <4>1, <3>1, <1>1
    <3> QED BY <3>1, <3>3, <2>2 DEF BadgeDue
  <2> QED BY <2>3, <2>4
<1> QED BY <1>3, <1>4, <1>5

LEMMA ServedRows ==
  ASSUME NEW cs \in Seq(CallType), NEW r \in Seq(CallType), NEW k, ServedAt(cs, r, k), InTurn(cs), NEW w, NEW s,
         \/ r[k].op = "deleteSkips"
         \/ r[k].op = "skips" /\ r[k].answer = s
         \/ RowsDue(cs, w, s) /\ r[k].op # "skips"
  PROVE  RowsDue(r, w, s)
<1>1. /\ k \in DOMAIN r /\ DOMAIN r = DOMAIN cs /\ ~Done(cs[k]) /\ Done(r[k]) /\ r[k].op = cs[k].op
      /\ \A j \in DOMAIN cs : j # k => r[j] = cs[j]
  BY DEF ServedAt
<1>2. \A j \in DOMAIN r : Done(r[j]) => j <= k
  BY <1>1, ServedOrder
<1>3. CASE r[k].op = "deleteSkips"
  BY <1>1, <1>3 DEF RowsDue, BringsRows
<1>4. CASE r[k].op = "skips" /\ r[k].answer = s
  <2>1. k \in RowSetters(r)
    BY <1>1, <1>4 DEF RowSetters
  <2>2. ASSUME NEW j \in DOMAIN r, Latest(j, RowSetters(r)) PROVE j = k
    <3>1. j <= k /\ k <= j
      BY <2>1, <2>2, <1>2 DEF Latest, RowSetters
    <3> QED BY <3>1, <1>1
  <2> QED BY <2>1, <2>2, <1>4 DEF RowsDue
<1>5. CASE RowsDue(cs, w, s) /\ r[k].op \notin {"skips", "deleteSkips"}
  <2>1. \A j : j \in RowSetters(r) <=> j \in RowSetters(cs)
    BY <1>1, <1>5 DEF RowSetters
  <2>2. RowSetters(r) = RowSetters(cs)
    BY <2>1
  <2>3. CASE \E j \in DOMAIN cs : BringsRows(cs[j])
    BY <2>3, <1>1, <1>5 DEF RowsDue, BringsRows
  <2>4. CASE ~\E j \in DOMAIN cs : BringsRows(cs[j])
    <3>1. /\ \A j \in DOMAIN cs : Latest(j, RowSetters(cs)) => cs[j].answer = s
          /\ RowSetters(cs) = {} => w = s
      BY <2>4, <1>5 DEF RowsDue
    <3>2. k \notin RowSetters(cs)
      BY <1>1 DEF RowSetters
    <3>3. ASSUME NEW j \in DOMAIN r, Latest(j, RowSetters(r)) PROVE r[j].answer = s
      <4>1. j # k /\ Latest(j, RowSetters(cs))
        BY <2>2, <3>2, <3>3 DEF Latest
      <4> QED BY <4>1, <3>1, <1>1
    <3> QED BY <3>1, <3>3, <2>2 DEF RowsDue
  <2> QED BY <2>3, <2>4
<1> QED BY <1>3, <1>4, <1>5

\* What a list lacks of the table is in the answers behind it, after a served
\* call as before.
LEMMA ServedHolds ==
  ASSUME NEW cs \in Seq(CallType), NEW r \in Seq(CallType), NEW k, ServedAt(cs, r, k),
         NEW y \in Lists, NEW ns \in Lists, NEW ns2, NEW f, NEW from \in Nat, NEW q \in Nat, q < k,
         Holds(y, ns, f, from, cs, q),
         \/ ns2 = ns
         \/ /\ r[k].op = "read" /\ r[k].answer = "ok" /\ r[k].arg \in DOMAIN ns
            /\ ns2 = [ns EXCEPT ![r[k].arg].read = TRUE]
         \/ r[k].op = "delete" /\ r[k].answer = "ok" /\ ns2 = Without(ns, {r[k].arg})
  PROVE  Holds(y, ns2, f, from, r, q)
<1> DEFINE d == r[k].arg
<1>1. /\ k \in DOMAIN r /\ DOMAIN r = DOMAIN cs /\ ~Done(cs[k])
      /\ \A j \in DOMAIN cs : j # k => r[j] = cs[j]
  BY DEF ServedAt
<1>2. "ok" # None
  BY NotifAssumption DEF NotifAssumption
<1>3. ASSUME NEW op, NEW i, Granted(cs, op, i, q) PROVE Granted(r, op, i, q)
  <2>1. PICK j \in DOMAIN cs : j > q /\ cs[j].op = op /\ cs[j].arg = i /\ cs[j].answer = "ok"
    BY <1>3 DEF Granted
  <2>2. j # k
    BY <2>1, <1>1, <1>2 DEF Done
  <2> QED BY <2>1, <2>2, <1>1 DEF Granted
<1>4. /\ y # None /\ HasSome(y, ns, f, from)
      /\ \A i \in DOMAIN y : i \in DOMAIN ns =>
           y[i] = ns[i] \/ (Granted(r, "read", i, q) /\ ns[i] = [y[i] EXCEPT !.read = TRUE])
      /\ \A i \in DOMAIN y : i \notin DOMAIN ns => Granted(r, "delete", i, q)
  BY <1>3 DEF Holds, Follows
<1>5. CASE ns2 = ns
  BY <1>4, <1>5 DEF Holds, Follows
<1>6. CASE /\ r[k].op = "read" /\ r[k].answer = "ok" /\ d \in DOMAIN ns
           /\ ns2 = [ns EXCEPT ![d].read = TRUE]
  <2>1. Granted(r, "read", d, q)
    BY <1>1, <1>6 DEF Granted
  <2> HIDE DEF d
  <2> DEFINE e == [ns EXCEPT ![d].read = TRUE]
  <2>2. e \in Lists
    BY <1>6, ReadLemma
  <2>3. DOMAIN e = DOMAIN ns /\ e[d] = [ns[d] EXCEPT !.read = TRUE]
    BY <1>6, ReadLemma
  <2>4. \A i \in DOMAIN ns \ {d} : e[i] = ns[i]
    BY <1>6, ReadLemma
  <2>0. d \in DOMAIN ns
    BY <1>6
  <2>5. DOMAIN ListNotifications(e, f, from) = DOMAIN ListNotifications(ns, f, from)
    BY ONLY <2>0, ns \in Lists, ReadLemma
  <2>6. ns2 = e
    BY <1>6
  <2> HIDE DEF e
  <2>7. HasSome(y, ns2, f, from)
    BY <2>5, <2>6, <1>4 DEF HasSome
  <2>8. ASSUME NEW i \in DOMAIN y, i \in DOMAIN ns2
        PROVE  y[i] = ns2[i] \/ (Granted(r, "read", i, q) /\ ns2[i] = [y[i] EXCEPT !.read = TRUE])
    <3>1. y[i] = ns[i] \/ (Granted(r, "read", i, q) /\ ns[i] = [y[i] EXCEPT !.read = TRUE])
      BY <1>4, <2>3, <2>6, <2>8
    <3>2. CASE i # d
      BY <3>1, <3>2, <2>3, <2>4, <2>6, <2>8
    <3>3. CASE i = d
      <4>1. y[i] \in Notification
        BY ListLemma
      <4> DEFINE a == [y[i] EXCEPT !.read = TRUE]
      <4>2. [a EXCEPT !.read = TRUE] = a
        BY <4>1 DEF Notification
      <4> HIDE DEF a
      <4>3. [ns[d] EXCEPT !.read = TRUE] = a
        BY <3>1, <3>3, <4>2 DEF a
      <4> QED BY <4>3, <2>1, <2>3, <2>6, <3>3 DEF a
    <3> QED BY <3>2, <3>3
  <2> QED BY <2>3, <2>6, <2>7, <2>8, <1>4 DEF Holds, Follows
<1>7. CASE r[k].op = "delete" /\ r[k].answer = "ok" /\ ns2 = Without(ns, {d})
  <2>1. Granted(r, "delete", d, q)
    BY <1>1, <1>7 DEF Granted
  <2> HIDE DEF d
  <2> DEFINE e == Without(ns, {d})
  <2>2. DOMAIN e = DOMAIN ns \ {d}
    BY WithoutLemma
  <2>3. \A i \in DOMAIN ns \ {d} : e[i] = ns[i]
    BY WithoutLemma
  <2>a. DOMAIN ListNotifications(e, f, from) # {} => DOMAIN ListNotifications(ns, f, from) # {}
    BY FewerLemma
  <2>b. ns2 = e
    BY <1>7
  <2> HIDE DEF e
  <2>4. HasSome(y, ns2, f, from)
    BY <1>4, <2>a, <2>b DEF HasSome
  <2> QED BY <2>1, <2>2, <2>3, <2>b, <2>4, <1>4 DEF Holds, Follows
<1> QED BY <1>5, <1>6, <1>7

LEMMA ServedCards ==
  ASSUME NEW cs \in Seq(CallType), NEW r \in Seq(CallType), NEW k, ServedAt(cs, r, k), InTurn(cs),
         NEW l \in Lists \cup {None}, NEW ns \in Lists, NEW ns2 \in Lists, NEW f, NEW from,
         \/ r[k].op \in {"readAll", "prune", "deleteRead"}
         \/ /\ r[k].op = "list" /\ LastList(r, f, from)
            /\ r[k].answer.cards = ListNotifications(ns2, r[k].arg.filter, r[k].arg.offset)
         \/ /\ CardsDue(cs, l, ns, f, from) /\ r[k].op # "list"
            /\ \A y \in Lists, q \in Nat : q < k /\ Holds(y, ns, f, from, cs, q) => Holds(y, ns2, f, from, r, q)
  PROVE  CardsDue(r, l, ns2, f, from)
<1>1. /\ k \in DOMAIN r /\ DOMAIN r = DOMAIN cs /\ ~Done(cs[k]) /\ Done(r[k]) /\ r[k].op = cs[k].op
      /\ \A j \in DOMAIN cs : j # k => r[j] = cs[j]
  BY DEF ServedAt
<1>2. \A j \in DOMAIN r : Done(r[j]) <=> j <= k
  BY <1>1, ServedOrder
<1>3. CASE r[k].op \in {"readAll", "prune", "deleteRead"}
  BY <1>1, <1>3 DEF CardsDue, BringsCards
<1>4. CASE /\ r[k].op = "list" /\ LastList(r, f, from)
           /\ r[k].answer.cards = ListNotifications(ns2, r[k].arg.filter, r[k].arg.offset)
  <2>1. CASE \E j \in DOMAIN r : j > k /\ r[j].op = "list"
    <3>1. PICK j \in DOMAIN r : j > k /\ r[j].op = "list"
      BY <2>1
    <3>2. ~Done(r[j])
      BY <3>1, <1>1, <1>2
    <3> QED BY <3>1, <3>2 DEF CardsDue, BringsCards
  <2>2. CASE \A j \in DOMAIN r : j > k => r[j].op # "list"
    <3>1. r[k].arg.filter = f /\ r[k].arg.offset = from
      BY <2>2, <1>1, <1>4 DEF LastList
    <3> DEFINE y == ListNotifications(ns2, f, from)
    <3>2. y \in Lists
      BY ListedLemma
    <3>3. DOMAIN y \subseteq DOMAIN ns2 /\ \A i \in DOMAIN y : y[i] = ns2[i]
      BY ListedLemma
    <3>4. HasSome(y, ns2, f, from)
      BY DEF HasSome
    <3>5. r[k].answer.cards = y
      BY <3>1, <1>4
    <3> HIDE DEF y
    <3>6. Holds(y, ns2, f, from, r, k)
      BY <3>2, <3>3, <3>4, NotifAssumption DEF Holds, Follows, NotifAssumption
    <3>7. k \in CardSetters(r)
      BY <1>1, <1>4 DEF CardSetters
    <3>8. ASSUME NEW j \in DOMAIN r, Latest(j, CardSetters(r)) PROVE j = k
      <4>1. j <= k /\ k <= j
        BY <3>7, <3>8, <1>2 DEF Latest, CardSetters
      <4> QED BY <4>1, <1>1
    <3> QED BY <3>5, <3>6, <3>7, <3>8 DEF CardsDue
  <2> QED BY <2>1, <2>2
<1>5. CASE /\ CardsDue(cs, l, ns, f, from) /\ r[k].op \notin {"list", "readAll", "prune", "deleteRead"}
           /\ \A y \in Lists, q \in Nat : q < k /\ Holds(y, ns, f, from, cs, q) => Holds(y, ns2, f, from, r, q)
  <2>1. \A j : j \in CardSetters(r) <=> j \in CardSetters(cs)
    BY <1>1, <1>5 DEF CardSetters
  <2>2. CardSetters(r) = CardSetters(cs)
    BY <2>1
  <2>3. CASE \E j \in DOMAIN cs : BringsCards(cs[j])
    BY <2>3, <1>1, <1>5 DEF CardsDue, BringsCards
  <2>4. CASE ~\E j \in DOMAIN cs : BringsCards(cs[j])
    <3>1. /\ \A j \in DOMAIN cs : Latest(j, CardSetters(cs)) => Holds(cs[j].answer.cards, ns, f, from, cs, j)
          /\ CardSetters(cs) = {} => Holds(l, ns, f, from, cs, 0)
      BY <2>4, <1>5 DEF CardsDue
    <3>2. k \notin CardSetters(cs)
      BY <1>1 DEF CardSetters
    <3>3. ASSUME NEW j \in DOMAIN r, Latest(j, CardSetters(r)) PROVE Holds(r[j].answer.cards, ns2, f, from, r, j)
      <4>1. j # k /\ Latest(j, CardSetters(cs)) /\ j \in CardSetters(cs)
        BY <2>2, <3>2, <3>3 DEF Latest
      <4>2. j \in Nat /\ j < k /\ cs[j] \in CallType /\ cs[j].op = "list" /\ Done(cs[j]) /\ r[j] = cs[j]
        BY <4>1, <1>1, <1>2 DEF CardSetters
      <4>3. cs[j].answer.cards \in Lists
        BY <4>2, CallLemma
      <4> QED BY <4>1, <4>2, <4>3, <3>1, <1>1, <1>5
    <3>4. ASSUME CardSetters(r) = {} PROVE Holds(l, ns2, f, from, r, 0)
      <4>1. Holds(l, ns, f, from, cs, 0)
        BY <3>1, <3>4, <2>2
      <4>2. l \in Lists /\ 0 < k
        BY <4>1, <1>1 DEF Holds
      <4> QED BY <4>1, <4>2, <1>5
    <3> QED BY <3>3, <3>4 DEF CardsDue
  <2> QED BY <2>3, <2>4
<1> QED BY <1>3, <1>4, <1>5

LEMMA BroadcastKeeps ==
  ASSUME NEW cs \in Seq(CallType), InTurn(cs), NEW e \in {"notificationCreated", "notificationsReadAll"}
  PROVE  LET r == Broadcast(cs, e)
         IN  /\ r \in Seq(CallType) /\ InTurn(r)
             /\ \A ns, n : StaysRead(cs, ns, n) => StaysRead(r, ns, n)
             /\ \A f, from : LastList(cs, f, from) => LastList(r, f, from)
             /\ \A w, s : RowsDue(cs, w, s) => RowsDue(r, w, s)
             /\ \A l, ns, f, from : CardsDue(r, l, ns, f, from)
             /\ e = "notificationCreated" \/ (\E j \in DOMAIN cs : cs[j].op = "readAll" /\ Done(cs[j])) =>
                  \A b, n : BadgeDue(r, b, n)
<1> DEFINE r == Broadcast(cs, e)
<1>1. r \in Seq(CallType)
  BY BroadcastLemma
<1>0. PICK d \in 1..(Len(cs) + 1) : EventAt(cs, r, d, e)
  BY BroadcastLemma
<1>2. /\ d \in DOMAIN r /\ r[d] = [op |-> "event", arg |-> e, answer |-> "sent"]
      /\ \A j \in DOMAIN cs : Done(cs[j]) <=> j < d
      /\ \A j \in DOMAIN cs : IF j < d THEN j \in DOMAIN r /\ r[j] = cs[j]
                              ELSE j + 1 \in DOMAIN r /\ r[j + 1] = cs[j]
      /\ \A j \in DOMAIN r : IF j < d THEN j \in DOMAIN cs /\ r[j] = cs[j]
                             ELSE j # d => j - 1 \in DOMAIN cs /\ r[j] = cs[j - 1]
  BY <1>0 DEF EventAt
<1> HIDE DEF r
<1>3. None # "sent" /\ None # "ok"
  BY NotifAssumption DEF NotifAssumption
<1>4. r[d].op = "event" /\ r[d].arg = e /\ r[d].answer = "sent" /\ Done(r[d])
  BY <1>2, <1>3 DEF Done
<1>5. ASSUME NEW j \in DOMAIN r PROVE Done(r[j]) <=> j <= d
  <2>1. CASE j < d
    BY <2>1, <1>2
  <2>2. CASE j = d
    BY <2>2, <1>4
  <2>3. CASE j > d
    <3>1. j - 1 \in DOMAIN cs /\ r[j] = cs[j - 1] /\ ~(j - 1 < d)
      BY <2>3, <1>1, <1>2
    <3>2. ~(j <= d)
      BY <2>3, <1>1
    <3> QED BY <3>1, <3>2, <1>2
  <2> QED BY <2>1, <2>2, <2>3, <1>1
<1>6. InTurn(r)
  <2> SUFFICES ASSUME NEW i \in DOMAIN r, NEW j \in DOMAIN r, i < j, Done(r[j]) PROVE Done(r[i])
    BY DEF InTurn
  <2>1. i <= d
    BY <1>1, <1>5
  <2> QED BY <2>1, <1>5
<1>7. ASSUME NEW ns, NEW n, StaysRead(cs, ns, n) PROVE StaysRead(r, ns, n)
  <2> SUFFICES ASSUME NEW j \in DOMAIN r, r[j].op = "read", r[j].answer = "ok"
               PROVE  r[j].arg < n /\ (r[j].arg \in DOMAIN ns => ns[r[j].arg].read)
    BY DEF StaysRead
  <2>1. j <= d /\ j # d
    BY <1>3, <1>4, <1>5 DEF Done
  <2>2. j \in DOMAIN cs /\ r[j] = cs[j]
    BY <2>1, <1>1, <1>2
  <2> QED BY <2>2, <1>7 DEF StaysRead
<1>8. ASSUME NEW f, NEW from, LastList(cs, f, from) PROVE LastList(r, f, from)
  <2> SUFFICES ASSUME NEW k \in DOMAIN r, r[k].op = "list", \A j \in DOMAIN r : j > k => r[j].op # "list"
               PROVE  r[k].arg.filter = f /\ r[k].arg.offset = from
    BY DEF LastList
  <2> DEFINE at(j) == IF j < d THEN j ELSE j + 1
  <2>1. \A j \in DOMAIN cs : at(j) \in DOMAIN r /\ r[at(j)] = cs[j]
    BY <1>2
  <2>2. PICK m \in DOMAIN cs : at(m) = k /\ cs[m] = r[k]
    <3>1. CASE k < d
      BY <3>1, <1>2
    <3>2. CASE k >= d
      <4>1. k # d
        BY <1>4
      <4>2. k - 1 \in DOMAIN cs /\ r[k] = cs[k - 1] /\ at(k - 1) = k
        BY <3>2, <4>1, <1>1, <1>2
      <4> QED BY <4>2
    <3> QED BY <3>1, <3>2, <1>1
  <2>3. ASSUME NEW j \in DOMAIN cs, j > m PROVE cs[j].op # "list"
    <3>1. at(j) > at(m)
      BY <2>3
    <3> HIDE DEF at
    <3> QED BY <3>1, <2>1, <2>2
  <2> QED BY <2>2, <2>3, <1>8 DEF LastList
<1>9. ASSUME NEW w, NEW s, RowsDue(cs, w, s) PROVE RowsDue(r, w, s)
  <2>1. \A j : j \in RowSetters(r) => j \in DOMAIN cs /\ j < d /\ r[j] = cs[j]
    <3> SUFFICES ASSUME NEW j \in RowSetters(r) PROVE j \in DOMAIN cs /\ j < d /\ r[j] = cs[j]
      OBVIOUS
    <3>1. j \in DOMAIN r /\ j <= d /\ j # d
      BY <1>4, <1>5 DEF RowSetters
    <3> QED BY <3>1, <1>1, <1>2
  <2>2. \A j : j \in RowSetters(cs) => j \in DOMAIN r /\ r[j] = cs[j]
    BY <1>2 DEF RowSetters
  <2>3. RowSetters(r) = RowSetters(cs)
    <3>1. \A j : j \in RowSetters(r) <=> j \in RowSetters(cs)
      BY <2>1, <2>2 DEF RowSetters
    <3> QED BY <3>1
  <2>4. CASE \E j \in DOMAIN cs : BringsRows(cs[j])
    <3>1. PICK j \in DOMAIN cs : BringsRows(cs[j])
      BY <2>4
    <3>2. \E i \in DOMAIN r : r[i] = cs[j]
      BY <1>2
    <3> QED BY <3>1, <3>2 DEF RowsDue
  <2>5. CASE ~\E j \in DOMAIN cs : BringsRows(cs[j])
    <3>1. /\ \A j \in DOMAIN cs : Latest(j, RowSetters(cs)) => cs[j].answer = s
          /\ RowSetters(cs) = {} => w = s
      BY <2>5, <1>9 DEF RowsDue
    <3>2. ASSUME NEW j \in DOMAIN r, Latest(j, RowSetters(r)) PROVE r[j].answer = s
      <4>1. j \in RowSetters(r) /\ Latest(j, RowSetters(cs))
        BY <2>3, <3>2 DEF Latest
      <4> QED BY <4>1, <2>1, <3>1
    <3> QED BY <3>1, <3>2, <2>3 DEF RowsDue
  <2> QED BY <2>4, <2>5
<1>10. \A l, ns, f, from : CardsDue(r, l, ns, f, from)
  BY <1>2, <1>4 DEF CardsDue, BringsCards
<1>11. ASSUME e = "notificationCreated" \/ \E j \in DOMAIN cs : cs[j].op = "readAll" /\ Done(cs[j])
       PROVE  \A b, n : BadgeDue(r, b, n)
  <2>1. \E j \in DOMAIN r : BringsBadge(r[j])
    <3>1. CASE e = "notificationCreated"
      BY <3>1, <1>2, <1>4 DEF BringsBadge
    <3>2. CASE \E j \in DOMAIN cs : cs[j].op = "readAll" /\ Done(cs[j])
      BY <3>2, <1>2 DEF BringsBadge
    <3> QED BY <3>1, <3>2, <1>11
  <2> QED BY <2>1 DEF BadgeDue
<1> QED BY <1>1, <1>6, <1>7, <1>8, <1>9, <1>10, <1>11 DEF r

LEMMA ServedRead ==
  ASSUME NEW cs \in Seq(CallType), NEW r \in Seq(CallType), NEW k, ServedAt(cs, r, k), NEW ns, NEW ns2, NEW n,
         StaysRead(cs, ns, n), DOMAIN ns2 \subseteq DOMAIN ns, \A i \in DOMAIN ns2 : ns[i].read => ns2[i].read,
         r[k].op = "read" /\ r[k].answer = "ok" =>
           r[k].arg < n /\ (r[k].arg \in DOMAIN ns2 => ns2[r[k].arg].read)
  PROVE  StaysRead(r, ns2, n)
<1>1. DOMAIN r = DOMAIN cs /\ \A j \in DOMAIN cs : j # k => r[j] = cs[j]
  BY DEF ServedAt
<1> SUFFICES ASSUME NEW j \in DOMAIN r, r[j].op = "read", r[j].answer = "ok"
             PROVE  r[j].arg < n /\ (r[j].arg \in DOMAIN ns2 => ns2[r[j].arg].read)
  BY DEF StaysRead
<1>2. CASE j = k
  BY <1>2
<1>3. CASE j # k
  <2>1. cs[j].arg < n /\ (cs[j].arg \in DOMAIN ns => ns[cs[j].arg].read) /\ r[j] = cs[j]
    BY <1>1, <1>3 DEF StaysRead
  <2> QED BY <2>1
<1> QED BY <1>2, <1>3

\* One call is sent.
LEMMA OneSent ==
  ASSUME NEW cs \in Seq(CallType), NEW x \in CallType, ~Done(x)
  PROVE  LET r == cs \o <<x>>
         IN  /\ r \in Seq(CallType)
             /\ InTurn(cs) => InTurn(r)
             /\ \A ns, n : StaysRead(cs, ns, n) => StaysRead(r, ns, n)
             /\ \A b, n : x.op = "list" \/ BadgeDue(cs, b, n) => BadgeDue(r, b, n)
             /\ \A w, s : x.op = "skips" \/ RowsDue(cs, w, s) => RowsDue(r, w, s)
             /\ \A l, ns, f, from : x.op = "list" \/ CardsDue(cs, l, ns, f, from) => CardsDue(r, l, ns, f, from)
             /\ x.op = "list" => LastList(r, x.arg.filter, x.arg.offset)
             /\ \A f, from : x.op # "list" /\ LastList(cs, f, from) => LastList(r, f, from)
<1> DEFINE t == <<x>>
           r == cs \o t
<1>1. t \in Seq(CallType) /\ DOMAIN t = {1} /\ t[1] = x /\ Len(t) = 1 /\ t # <<>>
  BY Alone
<1> HIDE DEF t
<1>2. \A m \in DOMAIN t : ~Done(t[m]) /\ t[m] = x
  BY <1>1
<1>3. /\ r \in Seq(CallType)
      /\ InTurn(cs) => InTurn(r)
      /\ \A ns, n : StaysRead(cs, ns, n) => StaysRead(r, ns, n)
      /\ \A b, n : BadgeDue(cs, b, n) => BadgeDue(r, b, n)
      /\ \A w, s : RowsDue(cs, w, s) => RowsDue(r, w, s)
      /\ \A l, ns, f, from : CardsDue(cs, l, ns, f, from) => CardsDue(r, l, ns, f, from)
  BY <1>1, <1>2, SentKeeps
<1>4. /\ t[1].op \in {"list", "count"} => \A b, n : BadgeDue(cs \o t, b, n)
      /\ t[1].op = "skips" => \A w, s : RowsDue(cs \o t, w, s)
      /\ t[1].op = "list" => \A l, ns, f, from : CardsDue(cs \o t, l, ns, f, from)
  BY <1>1, <1>2, SentBrings
<1>5. x.op = "list" => LastList(r, x.arg.filter, x.arg.offset)
  BY <1>1, SentLast
<1>6. \A f, from : x.op # "list" /\ LastList(cs, f, from) => LastList(r, f, from)
  BY <1>1, <1>2, SentLast
<1> HIDE DEF r
<1>7. /\ x.op = "list" => \A b, n : BadgeDue(r, b, n)
      /\ x.op = "skips" => \A w, s : RowsDue(r, w, s)
      /\ x.op = "list" => \A l, ns, f, from : CardsDue(r, l, ns, f, from)
  BY <1>1, <1>4 DEF r
<1>8. \A b, n : x.op = "list" \/ BadgeDue(cs, b, n) => BadgeDue(r, b, n)
  BY <1>3, <1>7
<1>9. \A w, s : x.op = "skips" \/ RowsDue(cs, w, s) => RowsDue(r, w, s)
  BY <1>3, <1>7
<1>10. \A l, ns, f, from : x.op = "list" \/ CardsDue(cs, l, ns, f, from) => CardsDue(r, l, ns, f, from)
  BY <1>3, <1>7
<1> QED BY <1>3, <1>5, <1>6, <1>8, <1>9, <1>10 DEF r, t

\* What the page asks for upon an answer: what that has changed.
LEMMA AsksLemma ==
  ASSUME NotifTypeOK, NEW c \in CallType, Done(c)
  PROVE  LET t == Asks(c)
         IN  /\ t \in Seq(CallType) /\ \A m \in DOMAIN t : ~Done(t[m])
             /\ \/ \A m \in DOMAIN t : t[m].op # "list"
                \/ t # <<>> /\ t[Len(t)].op = "list" /\ t[Len(t)].arg.filter = filter /\ t[Len(t)].arg.offset = offset
             /\ BringsBadge(c) => \E m \in DOMAIN t : t[m].op \in {"list", "count"}
             /\ BringsRows(c) => \E m \in DOMAIN t : t[m].op = "skips"
             /\ BringsCards(c) /\ view = "notifications" => \E m \in DOMAIN t : t[m].op = "list"
             /\ (\E m \in DOMAIN t : t[m].op = "list") => BringsCards(c)
<1> DEFINE now == FetchAndRender(filter, offset)
           n == Call("count", None)
           s == Call("skips", None)
<1>1. now \in CallType /\ n \in CallType /\ s \in CallType
  BY CallIntro DEF NotifTypeOK
<1>2. ~Done(now) /\ ~Done(n) /\ ~Done(s)
  BY CallIntro DEF FetchAndRender
<1>3. /\ now.op = "list" /\ now.arg.filter = filter /\ now.arg.offset = offset
      /\ n.op = "count" /\ s.op = "skips"
  BY CallIntro DEF FetchAndRender
<1> DEFINE t == Asks(c)
<1>4. \/ t = <<>> /\ ~BringsBadge(c) /\ ~BringsRows(c) /\ ~(BringsCards(c) /\ view = "notifications")
      \/ t = <<n>> \o <<now>> /\ ~BringsRows(c) /\ BringsCards(c)
      \/ t = <<n>> /\ ~BringsRows(c) /\ ~(BringsCards(c) /\ view = "notifications")
      \/ t = <<now>> /\ ~BringsRows(c) /\ BringsCards(c)
      \/ t = <<s>> /\ ~BringsBadge(c) /\ ~BringsCards(c)
  <2>1. CASE c.op = "event"
    <3>1. /\ ~BringsRows(c) /\ BringsCards(c)
          /\ c.arg # "notificationCreated" => ~BringsBadge(c)
      BY <2>1 DEF BringsBadge, BringsRows, BringsCards
    <3>2. t = (IF c.arg = "notificationCreated" THEN <<n>> ELSE <<>>)
              \o (IF view = "notifications" THEN <<now>> ELSE <<>>)
      BY <2>1 DEF Asks
    <3> HIDE DEF t, n, s, now
    <3>3. <<n>> \in Seq(CallType) /\ <<now>> \in Seq(CallType)
      BY <1>1, Alone
    <3>4. <<n>> \o <<>> = <<n>> /\ <<>> \o <<now>> = <<now>> /\ <<>> \o <<>> = <<>>
      BY <3>3
    <3> QED BY <3>1, <3>2, <3>4
  <2>2. CASE c.op \in {"readAll", "prune", "deleteRead"}
    <3>1. t = <<now>>
      BY <2>2 DEF Asks
    <3>2. ~BringsRows(c) /\ BringsCards(c)
      BY <2>2 DEF BringsRows, BringsCards
    <3> QED BY <3>1, <3>2
  <2>3. CASE c.op \in {"read", "delete"} /\ c.answer = "ok"
    <3>1. t = <<n>>
      BY <2>3 DEF Asks
    <3>2. ~BringsRows(c) /\ ~BringsCards(c)
      BY <2>3 DEF BringsRows, BringsCards
    <3> QED BY <3>1, <3>2
  <2>4. CASE c.op = "deleteSkips"
    <3>1. t = <<s>>
      BY <2>4 DEF Asks
    <3>2. ~BringsBadge(c) /\ ~BringsCards(c)
      BY <2>4 DEF BringsBadge, BringsCards
    <3> QED BY <3>1, <3>2
  <2>5. CASE /\ c.op \notin {"event", "readAll", "prune", "deleteRead", "deleteSkips"}
             /\ ~(c.op \in {"read", "delete"} /\ c.answer = "ok")
    <3>1. t = <<>>
      BY <2>5 DEF Asks
    <3>2. ~BringsBadge(c) /\ ~BringsRows(c) /\ ~BringsCards(c)
      BY <2>5 DEF BringsBadge, BringsRows, BringsCards
    <3> QED BY <3>1, <3>2
  <2> QED BY <2>1, <2>2, <2>3, <2>4, <2>5
<1> HIDE DEF t, n, s, now
<1>5. CASE t = <<>> /\ ~BringsBadge(c) /\ ~BringsRows(c) /\ ~(BringsCards(c) /\ view = "notifications")
  BY <1>5 DEF t
<1>6. CASE t = <<n>> \o <<now>> /\ ~BringsRows(c) /\ BringsCards(c)
  <2> DEFINE u == <<n>>
             v == <<now>>
  <2>a. u \in Seq(CallType) /\ v \in Seq(CallType) /\ Len(u) = 1 /\ Len(v) = 1 /\ u[1] = n /\ v[1] = now
    BY <1>1, Alone
  <2>b. t = u \o v
    BY <1>6
  <2> HIDE DEF u, v
  <2>f. u \in Seq(CallType) /\ v \in Seq(CallType)
    BY <2>a
  <2>c. u \o v \in Seq(CallType) /\ Len(u \o v) = Len(u) + Len(v)
    BY ONLY <2>f, BehindLemma
  <2>d. \A m \in 1..Len(u) : (u \o v)[m] = u[m]
    BY ONLY <2>f, BehindLemma
  <2>e. \A m \in 1..Len(v) : (u \o v)[Len(u) + m] = v[m]
    BY ONLY <2>f, BehindLemma
  <2>1. t \in Seq(CallType) /\ DOMAIN t = {1, 2} /\ t[1] = n /\ t[2] = now /\ Len(t) = 2 /\ t # <<>>
    BY <2>a, <2>b, <2>c, <2>d, <2>e
  <2> QED BY <2>1, <1>2, <1>3, <1>6 DEF t
<1>7. CASE t = <<n>> /\ ~BringsRows(c) /\ ~(BringsCards(c) /\ view = "notifications")
  <2>1. t \in Seq(CallType) /\ DOMAIN t = {1} /\ t[1] = n
    BY <1>1, <1>7
  <2> QED BY <2>1, <1>2, <1>3, <1>7 DEF t
<1>8. CASE t = <<now>> /\ ~BringsRows(c) /\ BringsCards(c)
  <2>1. t \in Seq(CallType) /\ DOMAIN t = {1} /\ t[1] = now /\ Len(t) = 1 /\ t # <<>>
    BY <1>1, <1>8
  <2> QED BY <2>1, <1>2, <1>3, <1>8 DEF t
<1>9. CASE t = <<s>> /\ ~BringsBadge(c) /\ ~BringsCards(c)
  <2>1. t \in Seq(CallType) /\ DOMAIN t = {1} /\ t[1] = s
    BY <1>1, <1>9
  <2> QED BY <2>1, <1>2, <1>3, <1>9 DEF t
<1> QED BY <1>4, <1>5, <1>6, <1>7, <1>8, <1>9

-----------------------------------------------------------------------------
(* Each action keeps the invariant.                                        *)

LEMMA NotifInvInit == NotifInit => NotifInv
<1> SUFFICES ASSUME NotifInit PROVE NotifInv
  OBVIOUS
<1>1. 1..2 \in SUBSET Ids /\ 0 \in 0..MaxActs
  BY NotifAssumption DEF NotifAssumption, Ids
<1>2. /\ notes \in [1..2 -> [type : Types, read : {FALSE}]] /\ skips = {} /\ next = 3
      /\ view = "other" /\ filter = "all" /\ offset = 0
      /\ notifCards = None /\ rows = None /\ badge = 2
      /\ calls = <<>> /\ fading = {} /\ untold = {} /\ acts = 0
  BY DEF NotifInit
<1>3. notes \in [1..2 -> Notification]
  <2>1. [type : Types, read : {FALSE}] \subseteq Notification
    BY DEF Notification
  <2> QED BY <1>2, <2>1
<1>4. notes \in Lists /\ DOMAIN notes = 1..2
  BY <1>1, <1>3, ListIntro
<1>5. NotifTypeOK
  BY <1>1, <1>2, <1>4 DEF NotifTypeOK, Views, Filters
<1>6. Unread(notes) = 2
  <2>1. {i \in DOMAIN notes : ~notes[i].read} = 1..2
    BY <1>2
  <2>2. \A m \in Nat : Cardinality(1..m) = m
    BY FS_Interval
  <2> QED BY <2>1, <2>2 DEF Unread
<1>7. DOMAIN calls = {}
  BY <1>2
<1>8. InOrder
  BY <1>7 DEF InOrder, InTurn, StaysRead, LastList
<1>9. BadgeComes
  BY <1>2, <1>6, <1>7 DEF BadgeComes, BadgeDue, BadgeSetters
<1>10. RowsCome /\ CardsCome
  BY <1>2 DEF RowsCome, CardsCome
<1> QED BY <1>5, <1>8, <1>9, <1>10 DEF NotifInv

\* What a request does to the tables, and its answer.
LEMMA OutcomeLemma ==
  ASSUME NotifTypeOK, NEW c \in CallType, ~Done(c), NEW o \in Notified(c) \cup SkipsServed(c)
  PROVE  \/ /\ c.op = "list" /\ o.notes = notes /\ o.skips = skips
            /\ o.answer = [cards |-> ListNotifications(notes, c.arg.filter, c.arg.offset), unread |-> Unread(notes)]
         \/ c.op = "count" /\ o.notes = notes /\ o.skips = skips /\ o.answer = Unread(notes)
         \/ c.op \in {"read", "delete"} /\ o.notes = notes /\ o.skips = skips /\ o.answer = "missing"
         \/ /\ c.op = "read" /\ c.arg \in DOMAIN notes /\ o.skips = skips /\ o.answer = "ok"
            /\ o.notes = [notes EXCEPT ![c.arg].read = TRUE]
         \/ /\ c.op = "delete" /\ c.arg \in DOMAIN notes /\ o.skips = skips /\ o.answer = "ok"
            /\ o.notes = Without(notes, {c.arg})
         \/ /\ c.op \in {"readAll", "prune", "deleteRead"} /\ o.skips = skips /\ o.answer = "ok"
            /\ o.notes \in Lists /\ DOMAIN o.notes \subseteq DOMAIN notes
            /\ \A i \in DOMAIN o.notes : notes[i].read => o.notes[i].read
         \/ c.op = "skips" /\ o.notes = notes /\ o.skips = skips /\ o.answer = skips
         \/ c.op = "deleteSkips" /\ o.notes = notes /\ o.skips = skips \ {c.arg} /\ o.answer = "ok"
<1>1. notes \in Lists /\ c.op # "event"
  BY CallLemma DEF NotifTypeOK
<1>2. CASE c.op = "list"
  BY <1>2 DEF Notified, SkipsServed
<1>3. CASE c.op = "count"
  BY <1>3 DEF Notified, SkipsServed
<1>4. CASE c.op = "read"
  <2>1. CASE c.arg \notin DOMAIN notes
    BY <1>4, <2>1 DEF Notified, SkipsServed
  <2>2. CASE c.arg \in DOMAIN notes
    BY <1>4, <2>2 DEF Notified, SkipsServed
  <2> QED BY <2>1, <2>2
<1>5. CASE c.op = "delete"
  <2>1. CASE c.arg \notin DOMAIN notes
    BY <1>5, <2>1 DEF Notified, SkipsServed
  <2>2. CASE c.arg \in DOMAIN notes
    BY <1>5, <2>2 DEF Notified, SkipsServed
  <2> QED BY <2>1, <2>2
<1>6. CASE c.op = "readAll"
  <2> DEFINE e == [i \in DOMAIN notes |-> [notes[i] EXCEPT !.read = TRUE]]
  <2>1. o.notes = e /\ o.skips = skips /\ o.answer = "ok"
    BY <1>6 DEF Notified, SkipsServed
  <2>2. \A i \in DOMAIN notes : [notes[i] EXCEPT !.read = TRUE] \in Notification /\ [notes[i] EXCEPT !.read = TRUE].read
    <3> SUFFICES ASSUME NEW i \in DOMAIN notes
                 PROVE  [notes[i] EXCEPT !.read = TRUE] \in Notification /\ [notes[i] EXCEPT !.read = TRUE].read
      OBVIOUS
    <3>1. notes[i] \in Notification
      BY <1>1, ListLemma
    <3> QED BY <3>1 DEF Notification
  <2>3. e \in [DOMAIN notes -> Notification] /\ DOMAIN notes \in SUBSET Ids
    BY <1>1, <2>2, ListLemma
  <2>4. e \in Lists /\ DOMAIN e = DOMAIN notes
    BY <2>3, ListIntro
  <2> QED BY <1>6, <2>1, <2>2, <2>4
<1>7. CASE c.op \in {"prune", "deleteRead"}
  <2>1. PICK S \in SUBSET ReadOf(notes) : o.notes = Without(notes, S) /\ o.skips = skips /\ o.answer = "ok"
    BY <1>7 DEF Notified, SkipsServed
  <2>2. /\ Without(notes, S) \in Lists /\ DOMAIN Without(notes, S) = DOMAIN notes \ S
        /\ \A i \in DOMAIN notes \ S : Without(notes, S)[i] = notes[i]
    BY <1>1, WithoutLemma
  <2> QED BY <1>7, <2>1, <2>2
<1>8. CASE c.op = "skips"
  BY <1>8 DEF Notified, SkipsServed
<1>9. CASE c.op = "deleteSkips"
  BY <1>9 DEF Notified, SkipsServed
<1>10. c.op \in {"list", "count", "read", "delete", "readAll", "prune", "deleteRead", "skips", "deleteSkips"}
  BY <1>1 DEF CallType
<1> QED BY <1>2, <1>3, <1>4, <1>5, <1>6, <1>7, <1>8, <1>9, <1>10

LEMMA ServeKept == NotifInv /\ Serve => NotifInv'
<1> SUFFICES ASSUME NotifInv, Serve PROVE NotifInv'
  OBVIOUS
<1>1. NotifTypeOK /\ InOrder /\ BadgeComes /\ RowsCome /\ CardsCome
  BY DEF NotifInv
<1>2. /\ calls \in Seq(CallType) /\ notes \in Lists /\ DOMAIN notes \subseteq 1..(next - 1) /\ skips \subseteq Groups
      /\ notifCards \in Lists \cup {None} /\ filter \in Filters /\ offset \in Nat /\ next \in Nat
  BY <1>1, NotifAssumption DEF NotifTypeOK, NotifAssumption
<1>3. PICK k \in DOMAIN calls :
        /\ calls[k].answer = None /\ \A j \in 1..(k - 1) : calls[j].answer # None
        /\ \E o \in Notified(calls[k]) \cup SkipsServed(calls[k]) :
             /\ notes' = o.notes /\ skips' = o.skips
             /\ calls' = IF calls[k].op = "readAll"
                         THEN Broadcast([calls EXCEPT ![k].answer = o.answer], "notificationsReadAll")
                         ELSE [calls EXCEPT ![k].answer = o.answer]
        /\ untold' = untold \ (IF calls[k].op = "list" THEN {"notifications"}
                               ELSE IF calls[k].op = "skips" THEN {"skips"} ELSE {})
        /\ UNCHANGED <<next, screen, fading, acts>>
  BY DEF Serve
<1> DEFINE c == calls[k]
<1>4. PICK o \in Notified(c) \cup SkipsServed(c) :
             /\ notes' = o.notes /\ skips' = o.skips
             /\ calls' = IF c.op = "readAll"
                         THEN Broadcast([calls EXCEPT ![k].answer = o.answer], "notificationsReadAll")
                         ELSE [calls EXCEPT ![k].answer = o.answer]
  BY <1>3
<1> DEFINE r == [calls EXCEPT ![k].answer = o.answer]
<1>5. c \in CallType /\ ~Done(c)
  BY <1>2, <1>3 DEF Done
<1>6. \/ /\ c.op = "list" /\ o.notes = notes /\ o.skips = skips
         /\ o.answer = [cards |-> ListNotifications(notes, c.arg.filter, c.arg.offset), unread |-> Unread(notes)]
      \/ c.op = "count" /\ o.notes = notes /\ o.skips = skips /\ o.answer = Unread(notes)
      \/ c.op \in {"read", "delete"} /\ o.notes = notes /\ o.skips = skips /\ o.answer = "missing"
      \/ /\ c.op = "read" /\ c.arg \in DOMAIN notes /\ o.skips = skips /\ o.answer = "ok"
         /\ o.notes = [notes EXCEPT ![c.arg].read = TRUE]
      \/ /\ c.op = "delete" /\ c.arg \in DOMAIN notes /\ o.skips = skips /\ o.answer = "ok"
         /\ o.notes = Without(notes, {c.arg})
      \/ /\ c.op \in {"readAll", "prune", "deleteRead"} /\ o.skips = skips /\ o.answer = "ok"
         /\ o.notes \in Lists /\ DOMAIN o.notes \subseteq DOMAIN notes
         /\ \A i \in DOMAIN o.notes : notes[i].read => o.notes[i].read
      \/ c.op = "skips" /\ o.notes = notes /\ o.skips = skips /\ o.answer = skips
      \/ c.op = "deleteSkips" /\ o.notes = notes /\ o.skips = skips \ {c.arg} /\ o.answer = "ok"
  BY <1>1, <1>5, OutcomeLemma
<1>7. /\ r \in Seq(CallType) /\ ServedAt(calls, r, k)
      /\ r[k].op = c.op /\ r[k].arg = c.arg /\ r[k].answer = o.answer /\ Done(r[k])
  <2>1. \/ c.op = "list" /\ o.answer \in [cards : Lists, unread : Nat]
        \/ c.op = "count" /\ o.answer \in Nat
        \/ c.op \in {"read", "delete"} /\ o.answer \in {"ok", "missing"}
        \/ c.op \in {"readAll", "prune", "deleteRead", "deleteSkips"} /\ o.answer = "ok"
        \/ c.op = "skips" /\ o.answer \in SUBSET Groups
    <3>1. Unread(notes) \in Nat /\ \A f, from : ListNotifications(notes, f, from) \in Lists
      BY <1>2, UnreadLemma, ListedLemma
    <3> HIDE DEF c
    <3> QED BY <3>1, <1>2, <1>6
  <2>2. /\ r \in Seq(CallType) /\ DOMAIN r = DOMAIN calls
        /\ r[k].op = c.op /\ r[k].arg = c.arg /\ r[k].answer = o.answer /\ Done(r[k])
        /\ \A j \in DOMAIN calls : j # k => r[j] = calls[j]
    BY <2>1, <1>2, ServedLemma
  <2>3. \A j \in 1..(k - 1) : Done(calls[j])
    BY <1>3 DEF Done
  <2> HIDE DEF r
  <2> QED BY <2>2, <2>3, <1>5 DEF ServedAt
<1>8. /\ calls' = IF c.op = "readAll" THEN Broadcast(r, "notificationsReadAll") ELSE r
      /\ notes' = o.notes /\ skips' = o.skips
      /\ untold' = untold \ (IF c.op = "list" THEN {"notifications"} ELSE IF c.op = "skips" THEN {"skips"} ELSE {})
      /\ next' = next /\ view' = view /\ filter' = filter /\ offset' = offset /\ notifCards' = notifCards
      /\ rows' = rows /\ badge' = badge /\ fading' = fading /\ acts' = acts
  BY <1>3, <1>4 DEF screen
<1>9. InTurn(calls) /\ StaysRead(calls, notes, next) /\ LastList(calls, filter, offset)
  BY <1>1 DEF InOrder
<1> HIDE DEF r, c
<1>10. InTurn(r) /\ LastList(r, filter, offset)
  BY <1>2, <1>7, <1>9, ServedOrder
<1>11. /\ o.notes \in Lists /\ DOMAIN o.notes \subseteq DOMAIN notes /\ o.skips \subseteq Groups
       /\ \A i \in DOMAIN o.notes : notes[i].read => o.notes[i].read
       /\ c.op = "read" /\ o.answer = "ok" => c.arg < next /\ (c.arg \in DOMAIN o.notes => o.notes[c.arg].read)
  <2>1. CASE c.op = "read" /\ c.arg \in DOMAIN notes /\ o.notes = [notes EXCEPT ![c.arg].read = TRUE] /\ o.skips = skips
    <3> DEFINE d == c.arg
               e == [notes EXCEPT ![d].read = TRUE]
    <3> HIDE DEF d
    <3>1. d \in DOMAIN notes /\ o.notes = e
      BY <2>1 DEF d
    <3>2. e \in Lists /\ DOMAIN e = DOMAIN notes /\ e[d].read /\ \A i \in DOMAIN notes \ {d} : e[i] = notes[i]
      BY <3>1, <1>2, ReadLemma
    <3>3. d < next
      BY <3>1, <1>2
    <3> HIDE DEF e
    <3> QED BY <3>1, <3>2, <3>3, <2>1, <1>2 DEF d
  <2>2. CASE c.op = "delete" /\ o.notes = Without(notes, {c.arg}) /\ o.skips = skips
    <3>1. /\ Without(notes, {c.arg}) \in Lists /\ DOMAIN Without(notes, {c.arg}) = DOMAIN notes \ {c.arg}
          /\ \A i \in DOMAIN notes \ {c.arg} : Without(notes, {c.arg})[i] = notes[i]
      BY <1>2, WithoutLemma
    <3> QED BY <3>1, <2>2, <1>2
  <2>3. CASE o.notes = notes /\ o.skips \subseteq skips /\ ~(c.op = "read" /\ o.answer = "ok")
    BY <2>3, <1>2
  <2>4. CASE /\ c.op \in {"readAll", "prune", "deleteRead"} /\ o.skips = skips
             /\ o.notes \in Lists /\ DOMAIN o.notes \subseteq DOMAIN notes
             /\ \A i \in DOMAIN o.notes : notes[i].read => o.notes[i].read
    BY <2>4, <1>2
  <2> QED BY <1>6, <2>1, <2>2, <2>3, <2>4
<1>12. StaysRead(r, o.notes, next)
  BY <1>2, <1>7, <1>9, <1>11, ServedRead
<1>13. c.op = "readAll" =>
         LET q == Broadcast(r, "notificationsReadAll")
         IN  /\ q \in Seq(CallType) /\ InTurn(q) /\ StaysRead(q, o.notes, next) /\ LastList(q, filter, offset)
             /\ \A w, s : RowsDue(r, w, s) => RowsDue(q, w, s)
             /\ \A l, ns, f, from : CardsDue(q, l, ns, f, from)
             /\ \A b, n : BadgeDue(q, b, n)
  <2> SUFFICES ASSUME c.op = "readAll"
               PROVE  LET q == Broadcast(r, "notificationsReadAll")
                      IN  /\ q \in Seq(CallType) /\ InTurn(q) /\ StaysRead(q, o.notes, next) /\ LastList(q, filter, offset)
                          /\ \A w, s : RowsDue(r, w, s) => RowsDue(q, w, s)
                          /\ \A l, ns, f, from : CardsDue(q, l, ns, f, from)
                          /\ \A b, n : BadgeDue(q, b, n)
    OBVIOUS
  <2>1. \E j \in DOMAIN r : r[j].op = "readAll" /\ Done(r[j])
    BY <1>7 DEF ServedAt
  <2> QED BY <2>1, <1>7, <1>10, <1>12, BroadcastKeeps
<1>14. InOrder'
  <2>1. CASE c.op = "readAll"
    BY <2>1, <1>8, <1>13 DEF InOrder
  <2>2. CASE c.op # "readAll"
    BY <2>2, <1>8, <1>10, <1>12 DEF InOrder
  <2> QED BY <2>1, <2>2
<1>15. NotifTypeOK'
  <2>1. calls' \in Seq(CallType)
    BY <1>7, <1>8, <1>13
  <2>2. notes' \in Lists /\ DOMAIN notes' \subseteq 1..(next' - 1) /\ skips' \subseteq Groups
    BY <1>2, <1>8, <1>11
  <2> QED BY <2>1, <2>2, <1>1, <1>8 DEF NotifTypeOK
<1>16. ASSUME "notifications" \notin untold' PROVE BadgeDue(calls', badge', Unread(notes'))
  <2>1. CASE c.op = "readAll"
    BY <2>1, <1>8, <1>13
  <2>2. CASE c.op # "readAll"
    <3>1. BadgeDue(r, badge, Unread(o.notes))
      <4>1. \/ BringsBadge(r[k])
            \/ SetsBadge(r[k]) /\ BadgeOf(r[k]) = Unread(o.notes)
            \/ BadgeDue(calls, badge, Unread(o.notes)) /\ ~SetsBadge(r[k]) /\ ~BringsBadge(calls[k])
        <5>1. CASE c.op = "list"
          BY <5>1, <1>6, <1>7 DEF SetsBadge, BadgeOf
        <5>2. CASE c.op = "count"
          BY <5>2, <1>6, <1>7 DEF SetsBadge, BadgeOf
        <5>3. CASE c.op \in {"readAll", "prune", "deleteRead"}
          BY <5>3, <1>7 DEF BringsBadge
        <5>4. CASE c.op \in {"read", "delete"} /\ o.answer = "ok"
          BY <5>4, <1>7 DEF BringsBadge
        <5>5. CASE o.notes = notes /\ c.op \in {"read", "delete", "skips", "deleteSkips"}
          <6>1. BadgeDue(calls, badge, Unread(notes))
            <7>1. "notifications" \notin untold
              BY <5>5, <1>8, <1>16
            <7> QED BY <7>1, <1>1 DEF BadgeComes
          <6>2. ~SetsBadge(r[k])
            BY <5>5, <1>7 DEF SetsBadge
          <6>3. ~BringsBadge(c)
            <7>1. None # "ok"
              BY NotifAssumption DEF NotifAssumption
            <7> QED BY <7>1, <5>5, <1>5 DEF BringsBadge, Done
          <6> QED BY <6>1, <6>2, <6>3, <5>5 DEF c
        <5> QED BY <5>1, <5>2, <5>3, <5>4, <5>5, <1>6
      <4> QED BY <4>1, <1>2, <1>7, <1>9, ServedBadge
    <3> QED BY <3>1, <2>2, <1>8
  <2> QED BY <2>1, <2>2
<1>17. ASSUME "skips" \notin untold', view' = "skips" PROVE RowsDue(calls', rows', skips')
  <2>1. RowsDue(r, rows, o.skips)
    <3>1. \/ r[k].op = "deleteSkips"
          \/ r[k].op = "skips" /\ r[k].answer = o.skips
          \/ RowsDue(calls, rows, o.skips) /\ r[k].op # "skips"
      <4>1. CASE c.op = "deleteSkips"
        BY <4>1, <1>7
      <4>2. CASE c.op = "skips"
        BY <4>2, <1>6, <1>7
      <4>3. CASE c.op \notin {"skips", "deleteSkips"}
        <5>1. o.skips = skips
          BY <4>3, <1>6
        <5>2. "skips" \notin untold /\ view = "skips"
          BY <4>3, <1>8, <1>17
        <5> QED BY <5>1, <5>2, <4>3, <1>1, <1>7 DEF RowsCome
      <4> QED BY <4>1, <4>2, <4>3
    <3> QED BY <3>1, <1>2, <1>7, <1>9, ServedRows
  <2> QED BY <2>1, <1>8, <1>13
<1>18. ASSUME "notifications" \notin untold', view' = "notifications", fading' = {}
       PROVE  CardsDue(calls', notifCards', notes', filter', offset')
  <2>1. CASE c.op = "readAll"
    BY <2>1, <1>8, <1>13
  <2>2. CASE c.op # "readAll"
    <3>1. CardsDue(r, notifCards, o.notes, filter, offset)
      <4>1. \/ r[k].op \in {"readAll", "prune", "deleteRead"}
            \/ /\ r[k].op = "list" /\ LastList(r, filter, offset)
               /\ r[k].answer.cards = ListNotifications(o.notes, r[k].arg.filter, r[k].arg.offset)
            \/ /\ CardsDue(calls, notifCards, notes, filter, offset) /\ r[k].op # "list"
               /\ \A y \in Lists, q \in Nat : q < k /\ Holds(y, notes, filter, offset, calls, q) =>
                                                Holds(y, o.notes, filter, offset, r, q)
        <5>1. CASE c.op = "list"
          BY <5>1, <1>6, <1>7, <1>10
        <5>2. CASE c.op \in {"prune", "deleteRead"}
          BY <5>2, <1>7
        <5>3. CASE c.op \in {"count", "read", "delete", "skips", "deleteSkips"}
          <6>1. CardsDue(calls, notifCards, notes, filter, offset)
            <7>1. "notifications" \notin untold /\ view = "notifications" /\ fading = {}
              BY <5>3, <1>8, <1>18
            <7> QED BY <7>1, <1>1 DEF CardsCome
          <6>2. ASSUME NEW y \in Lists, NEW q \in Nat, q < k, Holds(y, notes, filter, offset, calls, q)
                PROVE  Holds(y, o.notes, filter, offset, r, q)
            <7>1. \/ o.notes = notes
                  \/ /\ r[k].op = "read" /\ r[k].answer = "ok" /\ r[k].arg \in DOMAIN notes
                     /\ o.notes = [notes EXCEPT ![r[k].arg].read = TRUE]
                  \/ r[k].op = "delete" /\ r[k].answer = "ok" /\ o.notes = Without(notes, {r[k].arg})
              BY <5>3, <1>6, <1>7
            <7> QED BY <7>1, <6>2, <1>2, <1>7, ServedHolds
          <6> QED BY <6>1, <6>2, <5>3, <1>7
        <5> QED BY <5>1, <5>2, <5>3, <2>2, <1>6
      <4> QED BY <4>1, <1>2, <1>7, <1>9, <1>11, ServedCards
    <3> QED BY <3>1, <2>2, <1>8
  <2> QED BY <2>1, <2>2
<1> QED BY <1>14, <1>15, <1>16, <1>17, <1>18 DEF NotifInv, BadgeComes, RowsCome, CardsCome

LEMMA AnswerKept == NotifInv /\ Answer => NotifInv'
<1> SUFFICES ASSUME NotifInv, Answer PROVE NotifInv'
  OBVIOUS
<1>1. NotifTypeOK /\ InOrder /\ BadgeComes /\ RowsCome /\ CardsCome
  BY DEF NotifInv
<1>2. /\ calls \in Seq(CallType) /\ notes \in Lists /\ notifCards \in Lists \cup {None}
      /\ rows \in (SUBSET Groups) \cup {None} /\ badge \in Nat
  BY <1>1 DEF NotifTypeOK
<1> DEFINE c == Head(calls)
           t == Asks(c)
           u == Tail(calls)
           r == u \o t
<1>3. /\ calls # <<>> /\ Done(c) /\ calls' = r
      /\ badge' = BadgeAfter(c) /\ notifCards' = CardsAfter(c) /\ rows' = RowsAfter(c)
      /\ fading' = fading \cup Fades(c)
      /\ notes' = notes /\ skips' = skips /\ next' = next /\ view' = view /\ filter' = filter /\ offset' = offset
      /\ untold' = untold /\ acts' = acts
  BY DEF Answer, tables, Done
<1>4. u \in Seq(CallType) /\ c \in CallType
  BY <1>2, <1>3, GoneLemma
<1>5. /\ t \in Seq(CallType) /\ \A m \in DOMAIN t : ~Done(t[m])
      /\ \/ \A m \in DOMAIN t : t[m].op # "list"
         \/ t # <<>> /\ t[Len(t)].op = "list" /\ t[Len(t)].arg.filter = filter /\ t[Len(t)].arg.offset = offset
      /\ BringsBadge(c) => \E m \in DOMAIN t : t[m].op \in {"list", "count"}
      /\ BringsRows(c) => \E m \in DOMAIN t : t[m].op = "skips"
      /\ BringsCards(c) /\ view = "notifications" => \E m \in DOMAIN t : t[m].op = "list"
      /\ (\E m \in DOMAIN t : t[m].op = "list") => BringsCards(c)
  BY <1>1, <1>3, <1>4, AsksLemma
<1>6. InTurn(u) /\ StaysRead(u, notes, next) /\ LastList(u, filter, offset)
  BY <1>1, <1>2, <1>3, GoneKeeps DEF InOrder
<1>7. /\ c.op = "list" => c.answer \in [cards : Lists, unread : Nat]
      /\ c.op = "count" => c.answer \in Nat
      /\ c.op \in {"read", "delete"} => c.arg \in Ids
      /\ c.op = "skips" => c.answer \in SUBSET Groups
  BY <1>3, <1>4, CallLemma
<1>8. CardsAfter(c) = IF \E m \in DOMAIN t : t[m].op = "list" THEN None ELSE CardsShown(notifCards, c)
  <2>1. c.op = "list" => ~\E m \in DOMAIN t : t[m].op = "list"
    BY <1>3, <1>5 DEF BringsCards
  <2>2. c.op = "read" => ~\E m \in DOMAIN t : t[m].op = "list"
    BY <1>5 DEF BringsCards
  <2> HIDE DEF c
  <2>3. CASE c.op = "list"
    BY <2>1, <2>3 DEF CardsAfter, CardsShown
  <2>4. CASE c.op # "list" /\ \E m \in DOMAIN t : t[m].op = "list"
    BY <2>2, <2>4 DEF CardsAfter
  <2>5. CASE c.op # "list" /\ ~\E m \in DOMAIN t : t[m].op = "list"
    <3>1. CASE c.op = "read" /\ c.answer = "ok" /\ notifCards # None
      BY <2>5, <3>1 DEF CardsAfter, CardsShown
    <3>2. CASE ~(c.op = "read" /\ c.answer = "ok" /\ notifCards # None)
      BY <2>5, <3>2 DEF CardsAfter, CardsShown
    <3> QED BY <3>1, <3>2
  <2> QED BY <2>3, <2>4, <2>5
<1>9. BadgeAfter(c) \in Nat /\ (~BringsBadge(c) => BadgeAfter(c) = IF SetsBadge(c) THEN BadgeOf(c) ELSE badge)
  <2> HIDE DEF c
  <2>1. BadgeAfter(c) \in Nat
    BY <1>2, <1>7 DEF BadgeAfter
  <2>2. ASSUME ~BringsBadge(c) PROVE BadgeAfter(c) = IF SetsBadge(c) THEN BadgeOf(c) ELSE badge
    <3>1. c.op # "readAll"
      BY <2>2, <1>3 DEF BringsBadge
    <3> QED BY <3>1, <1>3 DEF BadgeAfter, SetsBadge, BadgeOf
  <2> QED BY <2>1, <2>2
<1>10. /\ RowsAfter(c) \in (SUBSET Groups) \cup {None}
       /\ ~BringsRows(c) => RowsAfter(c) = IF c.op = "skips" THEN c.answer ELSE rows
  <2> HIDE DEF c
  <2>1. ~BringsRows(c) => c.op # "deleteSkips"
    BY <1>3 DEF BringsRows
  <2> QED BY <2>1, <1>2, <1>7 DEF RowsAfter
<1>11. CardsShown(notifCards, c) \in Lists \cup {None}
  <2> HIDE DEF c
  <2>1. CASE c.op = "list"
    BY <2>1, <1>7 DEF CardsShown
  <2>2. CASE c.op = "read" /\ c.answer = "ok" /\ notifCards # None
    <3> DEFINE e == [i \in DOMAIN notifCards |-> IF i = c.arg THEN [notifCards[i] EXCEPT !.read = TRUE] ELSE notifCards[i]]
    <3>1. CardsShown(notifCards, c) = e
      BY <2>2 DEF CardsShown
    <3>2. notifCards \in Lists
      BY <2>2, <1>2
    <3>3. \A i \in DOMAIN notifCards : notifCards[i] \in Notification /\ [notifCards[i] EXCEPT !.read = TRUE] \in Notification
      <4> SUFFICES ASSUME NEW i \in DOMAIN notifCards
                   PROVE  notifCards[i] \in Notification /\ [notifCards[i] EXCEPT !.read = TRUE] \in Notification
        OBVIOUS
      <4>1. notifCards[i] \in Notification
        BY <3>2, ListLemma
      <4> QED BY <4>1 DEF Notification
    <3>4. e \in [DOMAIN notifCards -> Notification] /\ DOMAIN notifCards \in SUBSET Ids
      BY <3>2, <3>3, ListLemma
    <3>5. e \in Lists
      BY <3>4, ListIntro
    <3> QED BY <3>1, <3>5
  <2>3. CASE c.op # "list" /\ ~(c.op = "read" /\ c.answer = "ok" /\ notifCards # None)
    BY <2>3, <1>2 DEF CardsShown
  <2> QED BY <2>1, <2>2, <2>3
<1>12. Fades(c) \subseteq Ids
  <2> HIDE DEF c
  <2>1. c.op = "delete" => c.arg \in Ids
    BY <1>7
  <2> QED BY <2>1 DEF Fades
<1> HIDE DEF c, t, u
<1>13. /\ r \in Seq(CallType)
       /\ InTurn(u) => InTurn(r)
       /\ \A ns, n : StaysRead(u, ns, n) => StaysRead(r, ns, n)
       /\ \A b, n : BadgeDue(u, b, n) => BadgeDue(r, b, n)
       /\ \A w, s : RowsDue(u, w, s) => RowsDue(r, w, s)
       /\ \A l, ns, f, from : CardsDue(u, l, ns, f, from) => CardsDue(r, l, ns, f, from)
  BY <1>4, <1>5, SentKeeps
<1>14. LastList(r, filter, offset)
  BY <1>4, <1>5, <1>6, SentLast
<1>15. /\ (\E m \in DOMAIN t : t[m].op \in {"list", "count"}) => \A b, n : BadgeDue(r, b, n)
       /\ (\E m \in DOMAIN t : t[m].op = "skips") => \A w, s : RowsDue(r, w, s)
       /\ (\E m \in DOMAIN t : t[m].op = "list") => \A l, ns, f, from : CardsDue(r, l, ns, f, from)
  <2>1. \A m \in DOMAIN t : /\ t[m].op \in {"list", "count"} => \A b, n : BadgeDue(r, b, n)
                            /\ t[m].op = "skips" => \A w, s : RowsDue(r, w, s)
                            /\ t[m].op = "list" => \A l, ns, f, from : CardsDue(r, l, ns, f, from)
    BY <1>4, <1>5, SentBrings
  <2> HIDE DEF r
  <2> QED BY <2>1
<1> HIDE DEF r
<1>16. NotifTypeOK'
  BY <1>1, <1>3, <1>8, <1>9, <1>10, <1>11, <1>12, <1>13 DEF NotifTypeOK
<1>17. InOrder'
  BY <1>3, <1>6, <1>13, <1>14 DEF InOrder
<1>18. ASSUME "notifications" \notin untold PROVE BadgeDue(r, BadgeAfter(c), Unread(notes))
  <2>1. CASE BringsBadge(c)
    BY <2>1, <1>5, <1>15
  <2>2. CASE ~BringsBadge(c)
    <3>1. BadgeDue(calls, badge, Unread(notes))
      BY <1>1, <1>18 DEF BadgeComes
    <3>2. BadgeDue(u, IF SetsBadge(c) THEN BadgeOf(c) ELSE badge, Unread(notes))
      BY <3>1, <2>2, <1>2, <1>3, GoneBadge DEF u, c
    <3> QED BY <3>2, <2>2, <1>9, <1>13
  <2> QED BY <2>1, <2>2
<1>19. ASSUME "skips" \notin untold, view = "skips" PROVE RowsDue(r, RowsAfter(c), skips)
  <2>1. CASE BringsRows(c)
    BY <2>1, <1>5, <1>15
  <2>2. CASE ~BringsRows(c)
    <3>1. RowsDue(calls, rows, skips)
      BY <1>1, <1>19 DEF RowsCome
    <3>2. RowsDue(u, IF c.op = "skips" THEN c.answer ELSE rows, skips)
      BY <3>1, <2>2, <1>2, <1>3, GoneRows DEF u, c
    <3> QED BY <3>2, <2>2, <1>10, <1>13
  <2> QED BY <2>1, <2>2
<1>20. ASSUME "notifications" \notin untold, view = "notifications", fading' = {}
       PROVE  CardsDue(r, CardsAfter(c), notes, filter, offset)
  <2>1. CASE BringsCards(c)
    BY <2>1, <1>5, <1>15, <1>20
  <2>2. CASE ~BringsCards(c)
    <3>1. fading = {} /\ Fades(c) = {}
      BY <1>3, <1>20
    <3>2. CardsDue(calls, notifCards, notes, filter, offset)
      BY <3>1, <1>1, <1>20 DEF CardsCome
    <3>3. c.op = "delete" /\ c.answer = "ok" /\ notifCards # None => c.arg \notin DOMAIN notifCards
      BY <3>1 DEF Fades
    <3>4. StaysRead(calls, notes, next)
      BY <1>1 DEF InOrder
    <3>5. CardsDue(u, CardsShown(notifCards, c), notes, filter, offset)
      BY <3>2, <3>3, <3>4, <2>2, <1>2, <1>3, GoneCards DEF u, c
    <3>6. CardsAfter(c) = CardsShown(notifCards, c)
      BY <2>2, <1>5, <1>8
    <3> QED BY <3>5, <3>6, <1>13
  <2> QED BY <2>1, <2>2
<1>21. BadgeComes'
  BY <1>3, <1>18 DEF BadgeComes
<1>22. RowsCome'
  BY <1>3, <1>19 DEF RowsCome
<1>23. CardsCome'
  BY <1>3, <1>20 DEF CardsCome
<1> QED BY <1>16, <1>17, <1>21, <1>22, <1>23 DEF NotifInv

LEMMA LoseCallKept == NotifInv /\ LoseCall => NotifInv'
<1> SUFFICES ASSUME NotifInv, LoseCall PROVE NotifInv'
  OBVIOUS
<1>1. /\ calls # <<>> /\ acts < MaxActs /\ acts' = acts + 1 /\ calls' = Tail(calls)
      /\ untold' = {"notifications", "skips"}
      /\ notes' = notes /\ skips' = skips /\ next' = next /\ view' = view /\ filter' = filter /\ offset' = offset
      /\ notifCards' = notifCards /\ rows' = rows /\ badge' = badge /\ fading' = fading
  BY DEF LoseCall, Act, tables, screen
<1>2. NotifTypeOK /\ calls \in Seq(CallType) /\ InTurn(calls) /\ StaysRead(calls, notes, next) /\ LastList(calls, filter, offset)
  BY DEF NotifInv, InOrder, NotifTypeOK
<1>3. Tail(calls) \in Seq(CallType)
  BY <1>1, <1>2, GoneLemma
<1>4. NotifTypeOK'
  BY <1>1, <1>2, <1>3, NotifAssumption DEF NotifTypeOK, NotifAssumption
<1>5. InTurn(Tail(calls)) /\ StaysRead(Tail(calls), notes, next) /\ LastList(Tail(calls), filter, offset)
  BY <1>1, <1>2, GoneKeeps
<1>6. InOrder'
  BY <1>1, <1>5 DEF InOrder
<1> QED BY <1>1, <1>4, <1>6 DEF NotifInv, BadgeComes, RowsCome, CardsCome

\* The page sends a request: a list is for the page it is on.
LEMMA SendKept ==
  ASSUME NotifInv, NEW x \in CallType, ~Done(x), calls' = calls \o <<x>>,
         notes' = notes, skips' = skips, next' = next, badge' = badge, untold' = untold,
         view' \in Views, filter' \in Filters, offset' \in Nat, fading' \subseteq fading,
         notifCards' \in {notifCards, None}, rows' \in {rows, None}, acts' \in acts..MaxActs,
         x.op = "list" => x.arg.filter = filter' /\ x.arg.offset = offset',
         x.op # "list" => /\ filter' = filter /\ offset' = offset /\ fading' = fading /\ notifCards' = notifCards
                          /\ view' = "notifications" => view = "notifications",
         x.op # "skips" => rows' = rows /\ (view' = "skips" => view = "skips")
  PROVE  NotifInv'
<1>1. NotifTypeOK /\ InOrder /\ BadgeComes /\ RowsCome /\ CardsCome
  BY DEF NotifInv
<1>2. calls \in Seq(CallType)
  BY <1>1 DEF NotifTypeOK
<1> DEFINE r == calls \o <<x>>
<1>3. /\ r \in Seq(CallType)
      /\ InTurn(calls) => InTurn(r)
      /\ \A ns, n : StaysRead(calls, ns, n) => StaysRead(r, ns, n)
      /\ \A b, n : x.op = "list" \/ BadgeDue(calls, b, n) => BadgeDue(r, b, n)
      /\ \A w, s : x.op = "skips" \/ RowsDue(calls, w, s) => RowsDue(r, w, s)
      /\ \A l, ns, f, from : x.op = "list" \/ CardsDue(calls, l, ns, f, from) => CardsDue(r, l, ns, f, from)
      /\ x.op = "list" => LastList(r, x.arg.filter, x.arg.offset)
      /\ \A f, from : x.op # "list" /\ LastList(calls, f, from) => LastList(r, f, from)
  BY <1>2, OneSent
<1>4. calls' = r
  OBVIOUS
<1> HIDE DEF r
<1>5. NotifTypeOK'
  <2>0. acts \in 0..MaxActs /\ next \in 1..(acts + 3) /\ MaxActs \in Nat
    BY <1>1, NotifAssumption DEF NotifTypeOK, NotifAssumption
  <2>1. acts' \in 0..MaxActs /\ next' \in 1..(acts' + 3)
    <3>1. acts' \in acts..MaxActs /\ next' = next
      OBVIOUS
    <3>2. acts' \in Int /\ acts <= acts' /\ acts' <= MaxActs
      BY <2>0, <3>1
    <3>3. next \in Int /\ 1 <= next /\ next <= acts + 3 /\ acts \in Int /\ 0 <= acts
      BY <2>0
    <3>4. acts' \in 0..MaxActs
      BY ONLY <2>0, <3>2, <3>3
    <3>a. \A m, n, k \in Int : m <= n /\ 1 <= k /\ k <= m + 3 => k \in 1..(n + 3)
      OBVIOUS
    <3>b. acts \in Int /\ next \in Int /\ acts <= acts' /\ acts' \in Int /\ 1 <= next /\ next <= acts + 3
      BY <3>2, <3>3
    <3>5. next \in 1..(acts' + 3)
      BY ONLY <3>a, <3>b
    <3>6. next' \in 1..(acts' + 3)
      BY <3>5
    <3> QED BY <3>4, <3>6
  <2>2. calls' \in Seq(CallType)
    BY <1>3, <1>4
  <2> QED BY <2>1, <2>2, <1>1 DEF NotifTypeOK
<1>6. InTurn(r) /\ StaysRead(r, notes, next)
  BY <1>1, <1>3 DEF InOrder
<1>7. LastList(r, filter', offset')
  BY <1>1, <1>3 DEF InOrder
<1>8. InOrder'
  BY <1>4, <1>6, <1>7 DEF InOrder
<1>9. ASSUME "notifications" \notin untold PROVE BadgeDue(r, badge, Unread(notes))
  BY <1>1, <1>3, <1>9 DEF BadgeComes
<1>10. ASSUME "skips" \notin untold, view' = "skips" PROVE RowsDue(r, rows', skips)
  BY <1>1, <1>3, <1>10 DEF RowsCome
<1>11. ASSUME "notifications" \notin untold, view' = "notifications", fading' = {}
       PROVE  CardsDue(r, notifCards', notes, filter', offset')
  <2>1. CASE x.op = "list"
    BY <2>1, <1>3
  <2>2. CASE x.op # "list"
    <3>1. CardsDue(calls, notifCards, notes, filter, offset)
      BY <2>2, <1>1, <1>11 DEF CardsCome
    <3> QED BY <3>1, <2>2, <1>3
  <2> QED BY <2>1, <2>2
<1>12. BadgeComes'
  BY <1>4, <1>9 DEF BadgeComes
<1>13. RowsCome'
  BY <1>4, <1>10 DEF RowsCome
<1>14. CardsCome'
  BY <1>4, <1>11 DEF CardsCome
<1> QED BY <1>5, <1>8, <1>12, <1>13, <1>14 DEF NotifInv

\* An action counted in acts.
LEMMA ActLemma ==
  ASSUME NotifTypeOK, Act
  PROVE  acts' \in acts..MaxActs /\ acts' \in 0..MaxActs /\ acts' = acts + 1
  BY NotifAssumption DEF NotifTypeOK, Act, NotifAssumption

LEMMA NavigateKept == ASSUME NotifInv, NEW v \in Views, Navigate(v) PROVE NotifInv'
<1>1. NotifTypeOK /\ InOrder /\ BadgeComes /\ RowsCome /\ CardsCome
  BY DEF NotifInv
<1>2. /\ v # view /\ Act /\ view' = v
      /\ notes' = notes /\ skips' = skips /\ next' = next /\ badge' = badge /\ fading' = fading /\ untold' = untold
  BY DEF Navigate, tables
<1>3. acts' \in acts..MaxActs /\ acts' \in 0..MaxActs /\ acts' = acts + 1
  BY <1>1, <1>2, ActLemma
<1>4. filter \in Filters /\ offset \in Nat /\ 0 \in Nat
  BY <1>1 DEF NotifTypeOK
<1>5. CASE v = "notifications"
  <2> DEFINE x == FetchAndRender(filter, 0)
  <2>1. calls' = calls \o <<x>> /\ offset' = 0 /\ notifCards' = None /\ filter' = filter /\ rows' = rows
    BY <1>5 DEF Navigate, Send
  <2>2. x \in CallType /\ ~Done(x) /\ x.op = "list" /\ x.arg.filter = filter /\ x.arg.offset = 0
    BY <1>4, CallIntro DEF FetchAndRender
  <2> HIDE DEF x
  <2> QED BY <2>1, <2>2, <1>2, <1>3, <1>4, <1>5, SendKept
<1>6. CASE v = "skips"
  <2> DEFINE x == Call("skips", None)
  <2>1. calls' = calls \o <<x>> /\ offset' = offset /\ notifCards' = notifCards /\ filter' = filter /\ rows' = None
    BY <1>6 DEF Navigate, Send
  <2>2. x \in CallType /\ ~Done(x) /\ x.op = "skips"
    BY CallIntro
  <2> HIDE DEF x
  <2> QED BY <2>1, <2>2, <1>2, <1>3, <1>4, <1>6, SendKept
<1>7. CASE v = "other"
  <2>1. UNCHANGED <<filter, offset, notifCards, rows, calls>>
    BY <1>7 DEF Navigate
  <2>2. NotifTypeOK'
    BY <2>1, <1>1, <1>2, <1>3, NotifAssumption DEF NotifTypeOK, NotifAssumption
  <2>3. InOrder' /\ BadgeComes' /\ RowsCome' /\ CardsCome'
    BY <2>1, <1>1, <1>2, <1>7 DEF InOrder, BadgeComes, RowsCome, CardsCome
  <2> QED BY <2>2, <2>3 DEF NotifInv
<1> QED BY <1>5, <1>6, <1>7 DEF Views

LEMMA ShowPageKept == ASSUME NotifInv, NEW f \in Filters, NEW from \in Nat, ShowPage(f, from) PROVE NotifInv'
<1>1. NotifTypeOK
  BY DEF NotifInv
<1> DEFINE x == FetchAndRender(f, from)
<1>2. /\ view = "notifications" /\ Act /\ filter' = f /\ offset' = from /\ notifCards' = None /\ calls' = calls \o <<x>>
      /\ notes' = notes /\ skips' = skips /\ next' = next /\ view' = view /\ rows' = rows
      /\ badge' = badge /\ fading' = fading /\ untold' = untold
  BY DEF ShowPage, Send, tables
<1>3. x \in CallType /\ ~Done(x) /\ x.op = "list" /\ x.arg.filter = f /\ x.arg.offset = from
  BY CallIntro DEF FetchAndRender
<1>4. acts' \in acts..MaxActs /\ view \in Views
  BY <1>1, <1>2, ActLemma DEF NotifTypeOK
<1> HIDE DEF x
<1> QED BY <1>2, <1>3, <1>4, SendKept

LEMMA PressKept ==
  ASSUME NotifInv, NEW op \in {"read", "delete", "readAll", "prune", "deleteRead"}, NEW i \in Ids \cup {None}, Press(op, i)
  PROVE  NotifInv'
<1>1. NotifTypeOK
  BY DEF NotifInv
<1> DEFINE x == Call(op, i)
<1>2. /\ Act /\ calls' = calls \o <<x>>
      /\ notes' = notes /\ skips' = skips /\ next' = next
      /\ view' = view /\ filter' = filter /\ offset' = offset /\ notifCards' = notifCards /\ rows' = rows
      /\ badge' = badge /\ fading' = fading /\ untold' = untold
  BY DEF Press, Send, tables, screen
<1>3. x \in CallType /\ ~Done(x) /\ x.op = op
  <2>1. CASE op \in {"read", "delete"}
    <3>1. notifCards \in Lists /\ i \in DOMAIN notifCards
      BY <2>1, <1>1 DEF Press, NotifTypeOK
    <3>2. i \in Ids
      BY <3>1, ListLemma
    <3> QED BY <2>1, <3>2, CallIntro
  <2>2. CASE op \in {"readAll", "prune", "deleteRead"}
    <3>1. i = None
      BY <2>2 DEF Press
    <3> QED BY <2>2, <3>1, CallIntro
  <2> QED BY <2>1, <2>2
<1>4. acts' \in acts..MaxActs /\ view \in Views /\ filter \in Filters /\ offset \in Nat
  BY <1>1, <1>2, ActLemma DEF NotifTypeOK
<1> HIDE DEF x
<1> QED BY <1>2, <1>3, <1>4, SendKept

LEMMA DeleteSkipsKept == ASSUME NotifInv, NEW g \in Groups, DeleteSkipEventGroup(g) PROVE NotifInv'
<1>1. NotifTypeOK
  BY DEF NotifInv
<1> DEFINE x == Call("deleteSkips", g)
<1>2. /\ Act /\ calls' = calls \o <<x>>
      /\ notes' = notes /\ skips' = skips /\ next' = next
      /\ view' = view /\ filter' = filter /\ offset' = offset /\ notifCards' = notifCards /\ rows' = rows
      /\ badge' = badge /\ fading' = fading /\ untold' = untold
  BY DEF DeleteSkipEventGroup, Send, tables, screen
<1>3. x \in CallType /\ ~Done(x) /\ x.op = "deleteSkips"
  BY CallIntro
<1>4. acts' \in acts..MaxActs /\ view \in Views /\ filter \in Filters /\ offset \in Nat
  BY <1>1, <1>2, ActLemma DEF NotifTypeOK
<1> HIDE DEF x
<1> QED BY <1>2, <1>3, <1>4, SendKept

LEMMA CardRemovedKept == ASSUME NotifInv, NEW i \in Ids, CardRemoved(i) PROVE NotifInv'
<1>1. NotifTypeOK
  BY DEF NotifInv
<1> DEFINE x == FetchAndRender(filter, offset)
<1>2. /\ fading' = fading \ {i} /\ notifCards' = None /\ calls' = calls \o <<x>>
      /\ notes' = notes /\ skips' = skips /\ next' = next
      /\ view' = view /\ filter' = filter /\ offset' = offset /\ rows' = rows
      /\ badge' = badge /\ untold' = untold /\ acts' = acts
  BY DEF CardRemoved, Send, tables
<1>3. view \in Views /\ filter \in Filters /\ offset \in Nat /\ acts \in acts..MaxActs
  BY <1>1, NotifAssumption DEF NotifTypeOK, NotifAssumption
<1>4. x \in CallType /\ ~Done(x) /\ x.op = "list" /\ x.arg.filter = filter /\ x.arg.offset = offset
  BY <1>3, CallIntro DEF FetchAndRender
<1> HIDE DEF x
<1> QED BY <1>2, <1>3, <1>4, SendKept

\* A new notification is nobody's, and unread.
LEMMA CreateKept == ASSUME NotifInv, NEW y \in Types, CreateNotification(y) PROVE NotifInv'
<1>1. NotifTypeOK /\ InOrder /\ RowsCome
  BY DEF NotifInv
<1> DEFINE new == [type |-> y, read |-> FALSE]
           e == [i \in DOMAIN notes \cup {next} |-> IF i = next THEN new ELSE notes[i]]
<1>2. /\ Act /\ next' = next + 1 /\ notes' = e /\ skips' = skips
      /\ view' = view /\ filter' = filter /\ offset' = offset /\ notifCards' = notifCards /\ rows' = rows
      /\ badge' = badge /\ fading' = fading
      /\ \/ untold' = untold \cup {"notifications"} /\ calls' = calls
         \/ calls' = Broadcast(calls, "notificationCreated") /\ untold' = untold
  BY DEF CreateNotification, screen
<1>3. /\ calls \in Seq(CallType) /\ notes \in Lists /\ DOMAIN notes \subseteq 1..(next - 1)
      /\ acts \in 0..MaxActs /\ next \in 1..(acts + 3) /\ MaxActs \in Nat
      /\ InTurn(calls) /\ StaysRead(calls, notes, next) /\ LastList(calls, filter, offset)
  BY <1>1, NotifAssumption DEF NotifTypeOK, InOrder, NotifAssumption
<1>4. acts' \in 0..MaxActs /\ acts' = acts + 1
  BY <1>1, <1>2, ActLemma
<1>5. next \in Ids /\ next \notin DOMAIN notes /\ next' \in 1..(acts' + 3)
  BY <1>2, <1>3, <1>4 DEF Ids
<1>6. e \in Lists /\ DOMAIN e = DOMAIN notes \cup {next} /\ \A i \in DOMAIN notes : e[i] = notes[i]
  <2>1. new \in Notification
    BY DEF Notification
  <2> HIDE DEF new
  <2>2. DOMAIN notes \subseteq Ids /\ \A i \in DOMAIN notes : notes[i] \in Notification
    BY <1>3, ListLemma
  <2>3. e \in [DOMAIN notes \cup {next} -> Notification] /\ DOMAIN notes \cup {next} \in SUBSET Ids
    BY <2>1, <2>2, <1>5
  <2>4. e \in Lists
    BY <2>3, ListIntro
  <2>5. DOMAIN e = DOMAIN notes \cup {next} /\ \A i \in DOMAIN notes : e[i] = notes[i]
    BY <1>5
  <2> QED BY <2>4, <2>5
<1> HIDE DEF e
<1>7. DOMAIN e \subseteq 1..(next' - 1)
  BY <1>2, <1>3, <1>6
<1>8. StaysRead(calls, e, next')
  <2> SUFFICES ASSUME NEW k \in DOMAIN calls, calls[k].op = "read", calls[k].answer = "ok"
               PROVE  calls[k].arg < next' /\ (calls[k].arg \in DOMAIN e => e[calls[k].arg].read)
    BY DEF StaysRead
  <2>1. calls[k].arg < next /\ (calls[k].arg \in DOMAIN notes => notes[calls[k].arg].read)
    BY <1>3 DEF StaysRead
  <2>2. calls[k].arg \in Nat
    <3>1. calls[k] \in CallType
      BY <1>3
    <3> QED BY <3>1, CallLemma, NotifAssumption DEF Ids, NotifAssumption
  <2> QED BY <2>1, <2>2, <1>2, <1>3, <1>6
<1>9. CASE untold' = untold \cup {"notifications"} /\ calls' = calls
  <2>1. NotifTypeOK'
    BY <1>1, <1>2, <1>4, <1>5, <1>6, <1>7, <1>9 DEF NotifTypeOK
  <2>2. InOrder'
    BY <1>2, <1>3, <1>8, <1>9 DEF InOrder
  <2>3. RowsCome'
    BY <1>1, <1>2, <1>9 DEF RowsCome
  <2> QED BY <2>1, <2>2, <2>3, <1>9 DEF NotifInv, BadgeComes, CardsCome
<1>10. CASE calls' = Broadcast(calls, "notificationCreated") /\ untold' = untold
  <2> DEFINE r == Broadcast(calls, "notificationCreated")
  <2>1. /\ r \in Seq(CallType) /\ InTurn(r)
        /\ StaysRead(calls, e, next') => StaysRead(r, e, next')
        /\ LastList(calls, filter, offset) => LastList(r, filter, offset)
        /\ \A w, s : RowsDue(calls, w, s) => RowsDue(r, w, s)
        /\ \A l, ns, f, from : CardsDue(r, l, ns, f, from)
        /\ \A b, n : BadgeDue(r, b, n)
    BY <1>3, BroadcastKeeps
  <2>2. calls' = r
    BY <1>10
  <2> HIDE DEF r
  <2>3. NotifTypeOK'
    BY <2>1, <2>2, <1>1, <1>2, <1>4, <1>5, <1>6, <1>7, <1>10 DEF NotifTypeOK
  <2>4. InOrder'
    BY <2>1, <2>2, <1>2, <1>3, <1>8 DEF InOrder
  <2>5. RowsCome'
    BY <2>1, <2>2, <1>1, <1>2, <1>10 DEF RowsCome
  <2>6. BadgeComes' /\ CardsCome'
    BY <2>1, <2>2 DEF BadgeComes, CardsCome
  <2> QED BY <2>3, <2>4, <2>5, <2>6 DEF NotifInv
<1> QED BY <1>2, <1>9, <1>10

LEMMA VanishKept == ASSUME NotifInv, NEW S, VanishNotifications(S) PROVE NotifInv'
<1>1. NotifTypeOK /\ InOrder /\ RowsCome
  BY DEF NotifInv
<1>2. /\ Act /\ notes' = Without(notes, S) /\ untold' = untold \cup {"notifications"}
      /\ skips' = skips /\ next' = next /\ calls' = calls /\ fading' = fading
      /\ view' = view /\ filter' = filter /\ offset' = offset /\ notifCards' = notifCards /\ rows' = rows
      /\ badge' = badge
  BY DEF VanishNotifications, screen
<1>3. acts' \in 0..MaxActs /\ acts' = acts + 1
  BY <1>1, <1>2, ActLemma
<1> DEFINE e == Without(notes, S)
<1>4. e \in Lists /\ DOMAIN e = DOMAIN notes \ S /\ \A i \in DOMAIN notes \ S : e[i] = notes[i]
  BY <1>1, WithoutLemma DEF NotifTypeOK
<1>5. notes' = e
  BY <1>2
<1> HIDE DEF e
<1>6. NotifTypeOK'
  <2>1. notes' \in Lists /\ DOMAIN notes' \subseteq 1..(next' - 1)
    BY <1>1, <1>2, <1>4, <1>5 DEF NotifTypeOK
  <2>2. next' \in 1..(acts' + 3)
    BY <1>1, <1>2, <1>3, NotifAssumption DEF NotifTypeOK, NotifAssumption
  <2> QED BY <2>1, <2>2, <1>1, <1>2, <1>3 DEF NotifTypeOK
<1>7. StaysRead(calls, e, next)
  BY <1>1, <1>4 DEF InOrder, StaysRead
<1>8. InOrder'
  BY <1>1, <1>2, <1>5, <1>7 DEF InOrder
<1>9. RowsCome'
  BY <1>1, <1>2 DEF RowsCome
<1> QED BY <1>2, <1>6, <1>8, <1>9 DEF NotifInv, BadgeComes, CardsCome

LEMMA AddSkipKept == ASSUME NotifInv, NEW g \in Groups, AddSkipEvent(g) PROVE NotifInv'
<1>1. NotifTypeOK /\ InOrder /\ BadgeComes /\ CardsCome
  BY DEF NotifInv
<1>2. /\ Act /\ skips' = skips \cup {g} /\ untold' = untold \cup {"skips"}
      /\ notes' = notes /\ next' = next /\ calls' = calls /\ fading' = fading
      /\ view' = view /\ filter' = filter /\ offset' = offset /\ notifCards' = notifCards /\ rows' = rows
      /\ badge' = badge
  BY DEF AddSkipEvent, screen
<1>3. acts' \in 0..MaxActs /\ acts' = acts + 1
  BY <1>1, <1>2, ActLemma
<1>4. NotifTypeOK'
  <2>1. next' \in 1..(acts' + 3)
    BY <1>1, <1>2, <1>3, NotifAssumption DEF NotifTypeOK, NotifAssumption
  <2> QED BY <2>1, <1>1, <1>2, <1>3 DEF NotifTypeOK
<1>5. InOrder' /\ BadgeComes' /\ CardsCome'
  BY <1>1, <1>2 DEF InOrder, BadgeComes, CardsCome
<1> QED BY <1>2, <1>4, <1>5 DEF NotifInv, RowsCome

-----------------------------------------------------------------------------
(* The theorems.                                                           *)

LEMMA NotifInvKept == NotifInv /\ [NotifNext]_notifVars => NotifInv'
<1> SUFFICES ASSUME NotifInv, [NotifNext]_notifVars PROVE NotifInv'
  OBVIOUS
<1>1. ASSUME NEW t \in Types, CreateNotification(t) PROVE NotifInv'
  BY <1>1, CreateKept
<1>2. ASSUME NEW S, VanishNotifications(S) PROVE NotifInv'
  BY <1>2, VanishKept
<1>3. ASSUME NEW g \in Groups, AddSkipEvent(g) PROVE NotifInv'
  BY <1>3, AddSkipKept
<1>4. ASSUME NEW g \in Groups, DeleteSkipEventGroup(g) PROVE NotifInv'
  BY <1>4, DeleteSkipsKept
<1>5. ASSUME NEW v \in Views, Navigate(v) PROVE NotifInv'
  BY <1>5, NavigateKept
<1>6. ASSUME NEW f \in Filters, SetFilter(f) PROVE NotifInv'
  BY <1>6, ShowPageKept DEF SetFilter
<1>7. ASSUME NEW d \in {-1, 1}, LoadNotificationsPage(d) PROVE NotifInv'
  <2>1. filter \in Filters /\ offset + d * PageSize \in Int
    BY NotifAssumption DEF NotifInv, NotifTypeOK, NotifAssumption
  <2>2. (IF offset + d * PageSize > 0 THEN offset + d * PageSize ELSE 0) \in Nat
    BY <2>1
  <2>3. ShowPage(filter, IF offset + d * PageSize > 0 THEN offset + d * PageSize ELSE 0)
    BY <1>7 DEF LoadNotificationsPage
  <2> QED BY <2>1, <2>2, <2>3, ShowPageKept
<1>8. ASSUME NEW op \in {"read", "delete", "readAll", "prune", "deleteRead"}, NEW i \in Ids \cup {None}, Press(op, i)
      PROVE  NotifInv'
  BY <1>8, PressKept
<1>9. ASSUME NEW i \in Ids, CardRemoved(i) PROVE NotifInv'
  BY <1>9, CardRemovedKept
<1>10. ASSUME UNCHANGED notifVars PROVE NotifInv'
  <2>1. UNCHANGED <<notes, skips, next, view, filter, offset, notifCards, rows, badge, calls, fading, untold, acts>>
    BY <1>10 DEF notifVars, tables, screen
  <2>2. NotifTypeOK' <=> NotifTypeOK
    BY <2>1 DEF NotifTypeOK
  <2>3. /\ InOrder' <=> InOrder
        /\ BadgeComes' <=> BadgeComes
        /\ RowsCome' <=> RowsCome
        /\ CardsCome' <=> CardsCome
    BY <2>1 DEF InOrder, BadgeComes, RowsCome, CardsCome
  <2> QED BY <2>2, <2>3 DEF NotifInv
<1> QED BY <1>1, <1>2, <1>3, <1>4, <1>5, <1>6, <1>7, <1>8, <1>9, <1>10, ServeKept, AnswerKept, LoseCallKept DEF NotifNext

LEMMA NotifInvHolds == NotifSpec => []NotifInv
<1>1. NotifInit => NotifInv
  BY NotifInvInit
<1>2. NotifInv /\ [NotifNext]_notifVars => NotifInv'
  BY NotifInvKept
<1> QED BY <1>1, <1>2, PTL DEF NotifSpec

\* The tables, the views and the requests are what their types say (the tables
\* of store/database.ts and the end of public/js/app.js).
THEOREM NotifTypes == NotifSpec => []NotifTypeOK
<1>1. NotifInv => NotifTypeOK
  BY DEF NotifInv
<1> QED BY <1>1, NotifInvHolds, PTL

\* When nothing is on its way and no card fades, the page shows what the tables
\* have, as far as it was told: whatever the user, the jobs and the network did
\* and in whichever order their answers came (app.js fetches again after each
\* request of its own and each event).
THEOREM QuietIsRight == NotifSpec => [](AtRest => NotificationsRight)
<1>1. ASSUME NotifInv, AtRest PROVE NotificationsRight
  <2>1. NotifTypeOK /\ BadgeComes /\ RowsCome /\ CardsCome
    BY <1>1 DEF NotifInv
  <2>2. DOMAIN calls = {} /\ fading = {}
    BY <1>1 DEF AtRest
  <2>3. "notifications" \notin untold => badge = Unread(notes)
    BY <2>1, <2>2 DEF BadgeComes, BadgeDue, BadgeSetters
  <2>4. "skips" \notin untold /\ view = "skips" => rows = skips
    BY <2>1, <2>2 DEF RowsCome, RowsDue, RowSetters
  <2>5. ASSUME "notifications" \notin untold, view = "notifications"
        PROVE  /\ notifCards # None /\ DOMAIN notifCards \subseteq DOMAIN notes
               /\ notifCards = Restrict(notes, DOMAIN notifCards)
               /\ DOMAIN ListNotifications(notes, filter, offset) # {} => DOMAIN notifCards # {}
    <3>1. Holds(notifCards, notes, filter, offset, calls, 0)
      BY <2>1, <2>2, <2>5 DEF CardsCome, CardsDue, CardSetters
    <3>2. notifCards \in Lists /\ notifCards # None
      BY <2>1, <3>1 DEF Holds, NotifTypeOK
    <3>3. \A op, i : ~Granted(calls, op, i, 0)
      BY <2>2 DEF Granted
    <3>4. \A i \in DOMAIN notifCards : i \in DOMAIN notes /\ notifCards[i] = notes[i]
      BY <3>1, <3>3 DEF Holds, Follows
    <3>5. notifCards = [i \in DOMAIN notifCards |-> notifCards[i]]
      BY <3>2, ListLemma
    <3>6. notifCards = Restrict(notes, DOMAIN notifCards)
      BY <3>4, <3>5 DEF Restrict
    <3> QED BY <3>1, <3>2, <3>4, <3>6 DEF Holds, HasSome
  <2> QED BY <2>3, <2>4, <2>5 DEF NotificationsRight
<1> QED BY <1>1, NotifInvHolds, PTL

\* So a page that comes to rest settles on what the tables have: it is only for
\* coming to rest that the answers and the timers have to be fair.
THEOREM RestSettles == NotifSpec => (<>[]AtRest => NotificationsSettle)
<1> QED BY QuietIsRight, PTL DEF NotificationsSettle

-----------------------------------------------------------------------------
(* The settings form.                                                      *)

USE FormAssumption

Configs == [Settings -> Values \ {Bad}]
Names == DOMAIN Presets \cup {NoChip, "custom"}

FormTypeOK ==
  /\ file \in Configs /\ event \in BOOLEAN
  /\ loads \in Seq(Configs \cup {Nothing}) /\ metas \in Seq(Configs)
  /\ current \in [Settings -> Values] \cup {Nothing} /\ shown \in Configs \cup {Nothing}
  /\ tab \in [Tab -> Values] \cup {Nothing} /\ cli \in [Cli -> Values]
  /\ cards \in [Cards -> Values] \cup {Nothing} /\ basic \in [Basic -> Values] \cup {Nothing}
  /\ presets \in {"none", "asked", "loaded"} /\ popover \in BOOLEAN
  /\ chip \in Names /\ fieldChip \in [Basic -> Names]
  /\ armed \subseteq Basic /\ watched \subseteq Basic
  /\ save \in {"idle", "sent", "stored", "failed", "told"}
  /\ DOMAIN sent \subseteq Settings /\ \A p \in DOMAIN sent : sent[p] \in Values
  /\ touched \subseteq Settings
  /\ current = Nothing => save = "idle"

\* A change of a marked field is heard.
Listening ==
  \A p \in Basic : fieldChip[p] \in DOMAIN Presets =>
    /\ basic # Nothing
    /\ p \in armed /\ p \in DOMAIN Presets[fieldChip[p]] /\ basic[p] = Presets[fieldChip[p]][p]

PresetInv == FormTypeOK /\ Listening

\* A field that the user has not changed is as the tabs were made; of the Basic
\* tab once its last description has come.
AsShown(form) == \A p \in DOMAIN form \ touched : form[p] = shown[p]

Untouched ==
  /\ current # Nothing => AsShown(tab) /\ AsShown(cli) /\ AsShown(cards)
  /\ metas = <<>> => AsShown(basic)
  /\ metas # <<>> => metas[Len(metas)] = shown

ShownInv == FormTypeOK /\ Untouched

-----------------------------------------------------------------------------
(* Forms.                                                                  *)

LEMMA NothingLemma ==
  /\ DOMAIN Nothing = {}
  /\ \A V : \A c \in [Settings -> V] : c # Nothing
  /\ \A V : \A c \in [Basic -> V] : c # Nothing
<1>1. DOMAIN Nothing = {} /\ "mode" \in Basic /\ "mode" \in Settings
  BY DEF Nothing, Settings, Basic
<1> QED BY <1>1

LEMMA PartsLemma ==
  Tab \subseteq Settings /\ Cli \subseteq Settings /\ Cards \subseteq Settings /\ Basic \subseteq Settings
  BY DEF Settings

LEMMA ShowLemma ==
  ASSUME NEW c \in Configs, NEW F \in SUBSET Settings
  PROVE  /\ Show(c, F) \in [F -> Values] /\ \A p \in F : Show(c, F)[p] = c[p]
  BY DEF Show, Configs

\* The first of a queue is taken.
LEMMA FirstTaken ==
  ASSUME NEW S, NEW s \in Seq(S), 1 \in DOMAIN s
  PROVE  RemoveAt(s, 1) # <<>> => /\ s # <<>>
                                  /\ RemoveAt(s, 1)[Len(RemoveAt(s, 1))] = s[Len(s)]
<1> DEFINE r == RemoveAt(s, 1)
<1>1. Len(s) \in Nat /\ Len(s) >= 1 /\ s # <<>>
  OBVIOUS
<1>2. /\ r \in Seq(S) /\ Len(r) = Len(s) - 1 /\ \A i \in 1..(Len(s) - 1) : r[i] = s[i + 1]
  BY RemovedLemma
<1> HIDE DEF r
<1>3. ASSUME r # <<>> PROVE r[Len(r)] = s[Len(s)]
  <2>1. Len(r) \in 1..(Len(s) - 1)
    BY <1>1, <1>2, <1>3
  <2> QED BY <2>1, <1>1, <1>2
<1> QED BY <1>1, <1>3 DEF r

\* What a save sends of a setting is in a form that shows it.
LEMMA CollectLemma ==
  ASSUME FormTypeOK
  PROVE  /\ DOMAIN CollectFormData \subseteq Settings
         /\ \A p \in DOMAIN CollectFormData :
              \/ p \in DOMAIN tab /\ CollectFormData[p] = tab[p]
              \/ p \in DOMAIN cli /\ CollectFormData[p] = cli[p]
              \/ p \in DOMAIN cards /\ CollectFormData[p] = cards[p]
              \/ p \in DOMAIN basic /\ CollectFormData[p] = basic[p]
         /\ \A p \in DOMAIN CollectFormData : CollectFormData[p] \in Values
<1> DEFINE Over(f, g) == [p \in DOMAIN f \cup DOMAIN g |-> IF p \in DOMAIN g THEN g[p] ELSE f[p]]
           a == Over(FromTab, FromCli)
           b == Over(a, FromCards)
           c == Over(b, FromBasic)
<1>1. CollectFormData = c
  BY DEF CollectFormData
<1>2. /\ DOMAIN FromTab = DOMAIN tab /\ \A p \in DOMAIN FromTab : FromTab[p] = tab[p]
      /\ DOMAIN FromCli \subseteq DOMAIN cli /\ \A p \in DOMAIN FromCli : FromCli[p] = cli[p]
      /\ DOMAIN FromCards \subseteq DOMAIN cards /\ \A p \in DOMAIN FromCards : FromCards[p] = cards[p]
      /\ DOMAIN FromBasic \subseteq DOMAIN basic /\ \A p \in DOMAIN FromBasic : FromBasic[p] = basic[p]
  BY DEF FromTab, FromCli, FromCards, FromBasic
<1>3. ASSUME NEW p \in DOMAIN c
      PROVE  \/ p \in DOMAIN FromTab /\ c[p] = FromTab[p]
             \/ p \in DOMAIN FromCli /\ c[p] = FromCli[p]
             \/ p \in DOMAIN FromCards /\ c[p] = FromCards[p]
             \/ p \in DOMAIN FromBasic /\ c[p] = FromBasic[p]
  OBVIOUS
<1> HIDE DEF c
<1>4. \A p \in DOMAIN c : \/ p \in DOMAIN tab /\ c[p] = tab[p]
                          \/ p \in DOMAIN cli /\ c[p] = cli[p]
                          \/ p \in DOMAIN cards /\ c[p] = cards[p]
                          \/ p \in DOMAIN basic /\ c[p] = basic[p]
  BY <1>2, <1>3
<1>5. /\ \A p \in DOMAIN tab : p \in Settings /\ tab[p] \in Values
      /\ \A p \in DOMAIN cli : p \in Settings /\ cli[p] \in Values
      /\ \A p \in DOMAIN cards : p \in Settings /\ cards[p] \in Values
      /\ \A p \in DOMAIN basic : p \in Settings /\ basic[p] \in Values
  BY PartsLemma, NothingLemma DEF FormTypeOK
<1> QED BY <1>1, <1>4, <1>5

-----------------------------------------------------------------------------
(* Types.                                                                  *)

LEMMA FormInitType == FormInit => FormTypeOK
<1> SUFFICES ASSUME FormInit PROVE FormTypeOK
  OBVIOUS
<1>1. First \in Configs /\ Bad \in Values /\ NoChip \in Names
  BY DEF FormAssumption, Configs, Values, Names
<1>2. loads \in Seq(Configs \cup {Nothing})
  BY Alone DEF FormInit
<1>3. metas \in Seq(Configs)
  BY DEF FormInit
<1>4. DOMAIN sent = {} /\ shown = Nothing /\ tab = Nothing
  BY NothingLemma DEF FormInit
<1>5. cli \in [Cli -> Values] /\ fieldChip \in [Basic -> Names] /\ chip \in Names
  BY <1>1 DEF FormInit
<1> QED BY <1>1, <1>2, <1>3, <1>4, <1>5 DEF FormTypeOK, FormInit

LEMMA NoMarks ==
  /\ NoChip \notin DOMAIN Presets
  /\ [p \in Basic |-> NoChip] \in [Basic -> Names]
  BY FormAssumption DEF Names

\* The answers of the daemon.
LEMMA LoadingTypes ==
  ASSUME FormTypeOK,
         \/ LoadSettings
         \/ \E i \in DOMAIN loads : Served(i) \/ RenderSettingsView(i)
         \/ \E i \in DOMAIN metas : RenderBasicTab(i)
         \/ PresetsLoaded \/ RequestFails
  PROVE  FormTypeOK'
<1> USE DEF FormTypeOK
<1>1. CASE LoadSettings
  <2>1. loads' \in Seq(Configs \cup {Nothing})
    BY <1>1 DEF LoadSettings
  <2> QED BY <1>1, <2>1 DEF LoadSettings, forms, presetVars
<1>2. ASSUME NEW i \in DOMAIN loads, Served(i) PROVE FormTypeOK'
  <2>1. loads' \in Seq(Configs \cup {Nothing})
    BY <1>2 DEF Served
  <2> QED BY <1>2, <2>1 DEF Served, forms, presetVars
<1>3. ASSUME NEW i \in DOMAIN loads, RenderSettingsView(i) PROVE FormTypeOK'
  <2>1. loads' \in Seq(Configs \cup {Nothing})
    BY <1>3, RemoveAtLemma DEF RenderSettingsView
  <2>2. loads[i] \in Configs /\ current' = loads[i] /\ shown' = loads[i]
    BY <1>3 DEF RenderSettingsView
  <2>3. metas' \in Seq(Configs)
    BY <1>3, <2>2 DEF RenderSettingsView
  <2>4. tab' \in [Tab -> Values] /\ cli' \in [Cli -> Values] /\ cards' \in [Cards -> Values]
    BY <1>3, <2>2, ShowLemma, PartsLemma DEF RenderSettingsView
  <2>5. current' \in [Settings -> Values]
    BY <2>2 DEF Configs
  <2>6. chip' = chip /\ fieldChip' \in [Basic -> Names] /\ armed' = {} /\ watched' = {}
    BY <1>3, NoMarks DEF RenderSettingsView, Unmarked
  <2> QED BY <1>3, <2>1, <2>2, <2>3, <2>4, <2>5, <2>6 DEF RenderSettingsView
<1>4. ASSUME NEW i \in DOMAIN metas, RenderBasicTab(i) PROVE FormTypeOK'
  <2>1. metas' \in Seq(Configs)
    BY <1>4, RemoveAtLemma DEF RenderBasicTab
  <2>2. basic' \in [Basic -> Values]
    <3>1. metas[i] \in Configs
      OBVIOUS
    <3> QED BY <1>4, <3>1, ShowLemma, PartsLemma DEF RenderBasicTab
  <2>3. chip' = chip /\ fieldChip' \in [Basic -> Names] /\ armed' = {} /\ watched' = {}
    BY <1>4, NoMarks DEF RenderBasicTab, Unmarked
  <2> QED BY <1>4, <2>1, <2>2, <2>3 DEF RenderBasicTab, forms
<1>5. CASE PresetsLoaded
  BY <1>5 DEF PresetsLoaded, forms
<1>6. CASE RequestFails
  <2>1. /\ file' = file /\ event' = event /\ current' = current /\ shown' = shown /\ tab' = tab
        /\ cli' = cli /\ cards' = cards /\ popover' = popover /\ chip' = chip
        /\ save' = save /\ sent' = sent /\ touched' = touched
    BY <1>6 DEF RequestFails, forms, Unmarked
  <2>2. ASSUME NEW i \in DOMAIN loads, loads' = RemoveAt(loads, i),
               UNCHANGED <<metas, basic, presets, fieldChip, armed, watched>>
        PROVE  FormTypeOK'
    <3>1. loads' \in Seq(Configs \cup {Nothing})
      BY <2>2, RemoveAtLemma
    <3> QED BY <2>1, <2>2, <3>1
  <2>3. ASSUME NEW i \in DOMAIN metas, metas' = RemoveAt(metas, i), basic' = Nothing,
               fieldChip' = [p \in Basic |-> NoChip], armed' = {}, watched' = {},
               UNCHANGED <<loads, presets>>
        PROVE  FormTypeOK'
    <3>1. metas' \in Seq(Configs)
      BY <2>3, RemoveAtLemma
    <3>2. fieldChip' \in [Basic -> Names]
      BY <2>3, NoMarks
    <3> QED BY <2>1, <2>3, <3>1, <3>2
  <2>4. ASSUME presets' = "none", UNCHANGED <<loads, metas, basic, fieldChip, armed, watched>>
        PROVE  FormTypeOK'
    BY <2>1, <2>4
  <2> QED BY <1>6, <2>2, <2>3, <2>4 DEF RequestFails, Unmarked
<1> QED BY <1>1, <1>2, <1>3, <1>4, <1>5, <1>6

\* A form with a field changed.
LEMMA EditLemma ==
  ASSUME NEW F, NEW form \in [F -> Values] \cup {Nothing}, NEW p, NEW v \in Values
  PROVE  [form EXCEPT ![p] = v] \in [F -> Values] \cup {Nothing}
<1>1. CASE form = Nothing
  BY <1>1 DEF Nothing
<1>2. CASE form \in [F -> Values]
  BY <1>2
<1> QED BY <1>1, <1>2

LEMMA EditTypes ==
  ASSUME FormTypeOK, NEW v \in Values,
         \/ \E p \in Tab : EditTab(p, v)
         \/ \E p \in Cli : EditCli(p, v)
         \/ \E p \in Cards : EditCard(p, v)
         \/ \E p \in Basic : EditBasic(p, v) \/ AddOrRemoveBasicChip(p, v)
  PROVE  FormTypeOK'
<1> USE DEF FormTypeOK
<1>1. ASSUME NEW p \in Tab, EditTab(p, v) PROVE FormTypeOK'
  <2>1. tab' \in [Tab -> Values] \cup {Nothing} /\ touched' \subseteq Settings
    BY <1>1, EditLemma, PartsLemma DEF EditTab, Edits
  <2> QED BY <1>1, <2>1 DEF EditTab, presetVars
<1>2. ASSUME NEW p \in Cli, EditCli(p, v) PROVE FormTypeOK'
  <2>1. cli' \in [Cli -> Values] /\ touched' \subseteq Settings
    BY <1>2, PartsLemma DEF EditCli, Edits
  <2> QED BY <1>2, <2>1 DEF EditCli, presetVars
<1>3. ASSUME NEW p \in Cards, EditCard(p, v) PROVE FormTypeOK'
  <2>1. cards' \in [Cards -> Values] \cup {Nothing} /\ touched' \subseteq Settings
    BY <1>3, EditLemma, PartsLemma DEF EditCard, Edits
  <2> QED BY <1>3, <2>1 DEF EditCard, presetVars
<1>4. ASSUME NEW p \in Basic, EditBasic(p, v) PROVE FormTypeOK'
  <2>1. basic' \in [Basic -> Values] \cup {Nothing} /\ touched' \subseteq Settings
    BY <1>4, EditLemma, PartsLemma DEF EditBasic, Edits
  <2>2. "custom" \in Names
    BY DEF Names
  <2>3. chip' \in Names /\ fieldChip' \in [Basic -> Names]
    BY <1>4, <2>2 DEF EditBasic
  <2>4. armed' \subseteq Basic /\ watched' \subseteq Basic
    BY <1>4 DEF EditBasic
  <2> QED BY <1>4, <2>1, <2>3, <2>4 DEF EditBasic, forms
<1>5. ASSUME NEW p \in Basic, AddOrRemoveBasicChip(p, v) PROVE FormTypeOK'
  <2>1. basic' \in [Basic -> Values] \cup {Nothing} /\ touched' \subseteq Settings
    BY <1>5, EditLemma, PartsLemma DEF AddOrRemoveBasicChip, Edits
  <2> QED BY <1>5, <2>1 DEF AddOrRemoveBasicChip, forms, presetVars
<1> QED BY <1>1, <1>2, <1>3, <1>4, <1>5

\* What applying a preset does to the Basic form.
LEMMA AppliedLemma ==
  ASSUME FormTypeOK, NEW n \in DOMAIN Presets, ApplyPreset(n)
  PROVE  LET new == {p \in DOMAIN Presets[n] \cap DOMAIN basic : basic[p] # Presets[n][p]}
         IN  /\ basic' \in [Basic -> Values] \cup {Nothing}
             /\ basic' = Nothing <=> basic = Nothing
             /\ basic # Nothing => /\ DOMAIN basic = Basic
                                   /\ \A p \in DOMAIN Presets[n] : basic'[p] = Presets[n][p]
             /\ \A p \in DOMAIN basic \ new : basic'[p] = basic[p]
             /\ new \subseteq Basic /\ new \subseteq DOMAIN Presets[n]
             /\ fieldChip' = [p \in Basic |-> IF p \in new THEN n ELSE NoChip]
             /\ armed' = armed \cup new /\ touched' = touched \cup new
             /\ chip' = n /\ watched' = DOMAIN basic
<1> DEFINE fields == Presets[n]
           on == DOMAIN fields \cap DOMAIN basic
           new == {p \in on : basic[p] # fields[p]}
<1>1. /\ basic' = [p \in DOMAIN basic |-> IF p \in on THEN fields[p] ELSE basic[p]]
      /\ fieldChip' = [p \in Basic |-> IF p \in new THEN n ELSE NoChip]
      /\ armed' = armed \cup new /\ touched' = touched \cup new
      /\ chip' = n /\ watched' = DOMAIN basic
  BY DEF ApplyPreset
<1>2. DOMAIN fields \subseteq Basic /\ \A p \in DOMAIN fields : fields[p] \in Values
  BY DEF FormAssumption
<1>3. CASE basic = Nothing
  <2>1. DOMAIN basic = {} /\ basic' = Nothing
    BY <1>1, <1>3, NothingLemma DEF Nothing
  <2> QED BY <1>1, <1>3, <2>1
<1>4. CASE basic \in [Basic -> Values]
  <2>1. DOMAIN basic = Basic /\ basic # Nothing
    BY <1>4, NothingLemma
  <2>2. basic' \in [Basic -> Values]
    BY <1>1, <1>2, <1>4, <2>1
  <2>3. basic' # Nothing
    BY <2>2, NothingLemma
  <2> QED BY <1>1, <1>2, <2>1, <2>2, <2>3
<1> QED BY <1>3, <1>4 DEF FormTypeOK

LEMMA PresetTypes ==
  ASSUME FormTypeOK,
         PreviewPreset \/ CloseDiffPopover \/ \E n \in DOMAIN Presets : ApplyPreset(n)
  PROVE  FormTypeOK'
<1> USE DEF FormTypeOK
<1>1. CASE PreviewPreset
  BY <1>1 DEF PreviewPreset, forms
<1>2. CASE CloseDiffPopover
  BY <1>2 DEF CloseDiffPopover, forms
<1>3. ASSUME NEW n \in DOMAIN Presets, ApplyPreset(n) PROVE FormTypeOK'
  <2> DEFINE new == {p \in DOMAIN Presets[n] \cap DOMAIN basic : basic[p] # Presets[n][p]}
  <2>1. /\ basic' \in [Basic -> Values] \cup {Nothing}
        /\ new \subseteq Basic
        /\ fieldChip' = [p \in Basic |-> IF p \in new THEN n ELSE NoChip]
        /\ armed' = armed \cup new /\ touched' = touched \cup new
        /\ chip' = n /\ watched' = DOMAIN basic
    BY <1>3, AppliedLemma
  <2> HIDE DEF new
  <2>2. n \in Names /\ NoChip \in Names
    BY DEF Names
  <2>3. fieldChip' \in [Basic -> Names] /\ chip' \in Names
    BY <2>1, <2>2
  <2>4. touched' \subseteq Settings /\ armed' \subseteq Basic /\ watched' \subseteq Basic
    BY <2>1, PartsLemma, NothingLemma
  <2> QED BY <1>3, <2>1, <2>3, <2>4 DEF ApplyPreset, forms
<1> QED BY <1>1, <1>2, <1>3

LEMMA SavingTypes ==
  ASSUME FormTypeOK, SaveSettings \/ Stored \/ SaveLost \/ SaveAnswered \/ ButtonBack \/ OtherSaves
  PROVE  FormTypeOK'
<1> USE DEF FormTypeOK
<1>1. CASE SaveSettings
  <2>1. DOMAIN sent' \subseteq Settings /\ \A p \in DOMAIN sent' : sent'[p] \in Values
    BY <1>1, CollectLemma DEF SaveSettings
  <2> QED BY <1>1, <2>1 DEF SaveSettings, forms, presetVars
<1>2. CASE Stored
  <2>1. file' \in Configs
    <3>1. ASSUME Accepted(sent),
                 file' = [p \in Settings |-> IF p \in DOMAIN sent THEN sent[p] ELSE file[p]]
          PROVE  file' \in Configs
      BY <3>1 DEF Accepted, Configs
    <3> QED BY <1>2, <3>1 DEF Stored
  <2>2. event' \in BOOLEAN /\ save' \in {"stored", "failed"}
    BY <1>2 DEF Stored
  <2> QED BY <1>2, <2>1, <2>2 DEF Stored, forms, presetVars
<1>3. CASE SaveLost
  BY <1>3 DEF SaveLost, forms, presetVars
<1>4. CASE SaveAnswered
  <2>1. current' \in [Settings -> Values] \cup {Nothing}
    <3>1. CASE save = "failed"
      BY <1>4, <3>1 DEF SaveAnswered
    <3>2. CASE save # "failed"
      <4>1. current \in [Settings -> Values]
        BY <1>4 DEF SaveAnswered
      <4>2. current' = [p \in Settings |-> IF p \in DOMAIN CollectFormData THEN CollectFormData[p] ELSE current[p]]
        BY <1>4, <3>2 DEF SaveAnswered
      <4> HIDE DEF FormTypeOK
      <4> QED BY <4>1, <4>2, CollectLemma
    <3> QED BY <3>1, <3>2
  <2>2. current' # Nothing
    BY <1>4, NothingLemma DEF SaveAnswered
  <2> QED BY <1>4, <2>1, <2>2 DEF SaveAnswered, presetVars
<1>5. CASE ButtonBack
  <2>1. DOMAIN sent' = {}
    BY <1>5, NothingLemma DEF ButtonBack
  <2> QED BY <1>5, <2>1 DEF ButtonBack, forms, presetVars
<1>6. CASE OtherSaves
  <2>1. file' \in Configs
    <3>1. PICK p \in Others, v \in {1, 2} : file' = [file EXCEPT ![p] = v]
      BY <1>6 DEF OtherSaves
    <3>2. p \in Settings /\ v \in Values \ {Bad}
      BY DEF FormAssumption, Values, Bad
    <3> QED BY <3>1, <3>2 DEF Configs
  <2> QED BY <1>6, <2>1 DEF OtherSaves, forms, presetVars
<1> QED BY <1>1, <1>2, <1>3, <1>4, <1>5, <1>6

LEMMA FormTypeStep == FormTypeOK /\ [FormNext]_formVars => FormTypeOK'
<1> SUFFICES ASSUME FormTypeOK, [FormNext]_formVars PROVE FormTypeOK'
  OBVIOUS
<1>1. CASE UNCHANGED formVars
  BY <1>1 DEF FormTypeOK, formVars, forms, presetVars
<1>2. CASE FormNext
  BY <1>2, LoadingTypes, EditTypes, PresetTypes, SavingTypes DEF FormNext
<1> QED BY <1>1, <1>2

-----------------------------------------------------------------------------
(* Presets.                                                                *)

\* The steps that the presets have nothing to do with.
LEMMA ListeningKept ==
  ASSUME Listening, basic' = basic, fieldChip' = fieldChip, armed' = armed
  PROVE  Listening'
  BY DEF Listening

LEMMA ListeningStep ==
  ASSUME PresetInv, [FormNext]_formVars
  PROVE  Listening'
<1> USE DEF PresetInv
<1>1. CASE UNCHANGED formVars
  BY <1>1, ListeningKept DEF formVars, presetVars
<1>2. CASE LoadSettings \/ \E i \in DOMAIN loads : Served(i)
  BY <1>2, ListeningKept DEF LoadSettings, Served, presetVars
<1>3. CASE (\E i \in DOMAIN loads : RenderSettingsView(i)) \/ (\E i \in DOMAIN metas : RenderBasicTab(i))
  <2>1. fieldChip' = [p \in Basic |-> NoChip]
    BY <1>3 DEF RenderSettingsView, RenderBasicTab, Unmarked
  <2> QED BY <2>1, NoMarks DEF Listening
<1>4. CASE PresetsLoaded \/ PreviewPreset \/ CloseDiffPopover
  BY <1>4, ListeningKept DEF PresetsLoaded, PreviewPreset, CloseDiffPopover
<1>5. CASE RequestFails
  <2>1. CASE fieldChip' = [p \in Basic |-> NoChip]
    BY <2>1, NoMarks DEF Listening
  <2>2. CASE UNCHANGED <<basic, fieldChip, armed>>
    BY <2>2, ListeningKept
  <2> QED BY <1>5, <2>1, <2>2 DEF RequestFails, Unmarked
<1>6. ASSUME NEW v \in Values,
             \/ \E p \in Tab : EditTab(p, v)
             \/ \E p \in Cli : EditCli(p, v)
             \/ \E p \in Cards : EditCard(p, v)
      PROVE  Listening'
  BY <1>6, ListeningKept DEF EditTab, EditCli, EditCard, presetVars
<1>7. ASSUME NEW v \in Values, NEW p \in Basic, EditBasic(p, v) PROVE Listening'
  <2>1. /\ basic # Nothing /\ basic' = [basic EXCEPT ![p] = v]
        /\ fieldChip' = IF p \in armed THEN [fieldChip EXCEPT ![p] = "custom"] ELSE fieldChip
        /\ armed' = armed \ {p}
    BY <1>7 DEF EditBasic
  <2>2. basic \in [Basic -> Values] /\ fieldChip \in [Basic -> Names]
    BY <2>1 DEF FormTypeOK
  <2>3. basic' \in [Basic -> Values] /\ basic' # Nothing /\ \A q \in Basic \ {p} : basic'[q] = basic[q]
    BY <2>1, <2>2, NothingLemma
  <2>4. "custom" \notin DOMAIN Presets
    BY FormAssumption
  <2>5. ASSUME NEW q \in Basic, fieldChip'[q] \in DOMAIN Presets
        PROVE  /\ q \in armed' /\ q \in DOMAIN Presets[fieldChip'[q]]
               /\ basic'[q] = Presets[fieldChip'[q]][q]
    <3>1. q # p /\ fieldChip'[q] = fieldChip[q]
      <4>1. CASE p \in armed
        BY <4>1, <2>1, <2>2, <2>4, <2>5
      <4>2. CASE p \notin armed
        BY <4>2, <2>1, <2>5 DEF Listening
      <4> QED BY <4>1, <4>2
    <3> QED BY <3>1, <2>1, <2>3, <2>5 DEF Listening
  <2> QED BY <2>3, <2>5 DEF Listening
<1>8. ASSUME NEW v \in Values, NEW p \in Basic, AddOrRemoveBasicChip(p, v) PROVE Listening'
  <2>1. /\ basic # Nothing /\ p \in Chips /\ basic' = [basic EXCEPT ![p] = v]
        /\ fieldChip' = fieldChip /\ armed' = armed
    BY <1>8 DEF AddOrRemoveBasicChip, presetVars
  <2>2. basic \in [Basic -> Values]
    BY <2>1 DEF FormTypeOK
  <2>3. basic' # Nothing /\ \A q \in Basic \ {p} : basic'[q] = basic[q]
    BY <2>1, <2>2, NothingLemma
  <2>4. \A n \in DOMAIN Presets : \A q \in DOMAIN Presets[n] : q \in Basic \ {p}
    BY <2>1, FormAssumption DEF FormAssumption
  <2> QED BY <2>1, <2>3, <2>4 DEF Listening
<1>9. ASSUME NEW n \in DOMAIN Presets, ApplyPreset(n) PROVE Listening'
  <2> DEFINE new == {p \in DOMAIN Presets[n] \cap DOMAIN basic : basic[p] # Presets[n][p]}
  <2>1. /\ basic' = Nothing <=> basic = Nothing
        /\ basic # Nothing => /\ DOMAIN basic = Basic
                              /\ \A p \in DOMAIN Presets[n] : basic'[p] = Presets[n][p]
        /\ new \subseteq Basic /\ new \subseteq DOMAIN Presets[n]
        /\ fieldChip' = [p \in Basic |-> IF p \in new THEN n ELSE NoChip]
        /\ armed' = armed \cup new
    BY <1>9, AppliedLemma
  <2> HIDE DEF new
  <2>2. NoChip \notin DOMAIN Presets
    BY FormAssumption
  <2>3. ASSUME NEW q \in Basic, fieldChip'[q] \in DOMAIN Presets
        PROVE  q \in new /\ fieldChip'[q] = n
    BY <2>1, <2>2, <2>3
  <2>4. new # {} => basic # Nothing
    BY NothingLemma DEF new
  <2> QED BY <2>1, <2>3, <2>4 DEF Listening
<1>10. CASE SaveSettings \/ Stored \/ SaveLost \/ SaveAnswered \/ ButtonBack \/ OtherSaves
  BY <1>10, ListeningKept DEF SaveSettings, Stored, SaveLost, SaveAnswered, ButtonBack, OtherSaves, presetVars
<1> QED BY <1>1, <1>2, <1>3, <1>4, <1>5, <1>6, <1>7, <1>8, <1>9, <1>10 DEF FormNext

\* A field marked with a preset has that preset's value, whatever presets were
\* applied before and however often the form was made anew: one change is
\* heard, by a listener of the form that has the field.
THEOREM MarksTrue == FormSpec => []MarksAreTrue
<1>1. FormInit => PresetInv
  <2>1. FormInit => fieldChip = [p \in Basic |-> NoChip]
    BY DEF FormInit
  <2> QED BY <2>1, NoMarks, FormInitType DEF PresetInv, Listening
<1>2. PresetInv /\ [FormNext]_formVars => PresetInv'
  BY FormTypeStep, ListeningStep DEF PresetInv
<1>3. PresetInv => MarksAreTrue
  BY DEF PresetInv, Listening, MarksAreTrue
<1> QED BY <1>1, <1>2, <1>3, PTL DEF FormSpec

-----------------------------------------------------------------------------
(* Saves.                                                                  *)

\* The steps that leave the forms as they are.
LEMMA UntouchedKept ==
  ASSUME Untouched, UNCHANGED <<metas, shown, tab, cli, cards, basic, touched>>,
         current # Nothing <=> current' # Nothing
  PROVE  Untouched'
  BY DEF Untouched, AsShown

LEMMA UntouchedStep ==
  ASSUME ShownInv, ~Overtakes, [FormNext]_formVars
  PROVE  Untouched'
<1> USE DEF ShownInv
<1>1. CASE UNCHANGED formVars
  BY <1>1, UntouchedKept DEF formVars, forms
<1>2. CASE LoadSettings \/ \E i \in DOMAIN loads : Served(i)
  BY <1>2, UntouchedKept DEF LoadSettings, Served, forms
<1>3. ASSUME NEW i \in DOMAIN loads, RenderSettingsView(i) PROVE Untouched'
  <2>1. loads[i] \in Configs /\ current' = loads[i] /\ shown' = loads[i] /\ touched' = {}
    BY <1>3 DEF RenderSettingsView, FormTypeOK
  <2>2. /\ tab' = Show(loads[i], Tab) /\ cli' = Show(loads[i], Cli) /\ cards' = Show(loads[i], Cards)
        /\ metas' = Append(metas, loads[i])
    BY <1>3, <2>1 DEF RenderSettingsView
  <2>3. AsShown(tab)' /\ AsShown(cli)' /\ AsShown(cards)'
    BY <2>1, <2>2 DEF AsShown, Show
  <2>4. metas' # <<>> /\ metas'[Len(metas')] = shown'
    BY <2>1, <2>2 DEF FormTypeOK
  <2> QED BY <2>3, <2>4 DEF Untouched
<1>4. ASSUME NEW i \in DOMAIN metas, RenderBasicTab(i) PROVE Untouched'
  <2>1. i = 1
    BY <1>4 DEF RenderBasicTab, MayCome
  <2>2. /\ metas' = RemoveAt(metas, 1) /\ basic' = Show(metas[1], Basic)
        /\ touched' = touched \ (Basic \ (Tab \cup Cli))
        /\ UNCHANGED <<current, shown, tab, cli, cards>>
    BY <1>4, <2>1 DEF RenderBasicTab, forms
  <2>3. metas \in Seq(Configs) /\ 1 \in DOMAIN metas
    BY <2>1 DEF FormTypeOK
  <2>4. metas # <<>> /\ metas[Len(metas)] = shown
    BY <2>3 DEF Untouched
  <2>5. metas' # <<>> => metas'[Len(metas')] = shown'
    BY <2>2, <2>3, <2>4, FirstTaken
  <2>6. metas' = <<>> => metas[1] = shown
    <3>1. ASSUME metas' = <<>> PROVE Len(metas) = 1
      <4>1. Len(metas') = Len(metas) - 1 /\ Len(metas) \in Nat
        BY <2>2, <2>3, RemovedLemma
      <4>2. Len(metas') = 0
        BY <3>1
      <4> QED BY <4>1, <4>2
    <3> QED BY <3>1, <2>4
  <2>7. metas' = <<>> => AsShown(basic)'
    BY <2>2, <2>6 DEF AsShown, Show
  <2>8. \A p \in Tab \cup Cli \cup Cards : p \in touched' <=> p \in touched
    BY <2>2 DEF Tab, Cli, Cards, Basic
  <2>9. /\ \A p \in DOMAIN tab : p \in Tab
        /\ \A p \in DOMAIN cli : p \in Cli
        /\ \A p \in DOMAIN cards : p \in Cards
    BY NothingLemma DEF FormTypeOK
  <2>10. current' # Nothing => AsShown(tab)' /\ AsShown(cli)' /\ AsShown(cards)'
    BY <2>2, <2>8, <2>9 DEF Untouched, AsShown
  <2> QED BY <2>5, <2>7, <2>10 DEF Untouched
<1>5. CASE PresetsLoaded \/ PreviewPreset \/ CloseDiffPopover
  BY <1>5, UntouchedKept DEF PresetsLoaded, PreviewPreset, CloseDiffPopover, forms
<1>6. CASE RequestFails
  <2>1. UNCHANGED <<current, shown, tab, cli, cards, touched>>
    BY <1>6 DEF RequestFails, forms
  <2>2. CASE UNCHANGED <<metas, basic>>
    BY <2>1, <2>2, UntouchedKept
  <2>3. ASSUME NEW i \in DOMAIN metas, MayCome(metas, i), metas' = RemoveAt(metas, i), basic' = Nothing
        PROVE  Untouched'
    <3>1. i = 1 /\ metas \in Seq(Configs) /\ metas # <<>>
      BY <2>3 DEF MayCome, FormTypeOK
    <3>2. metas' # <<>> => metas'[Len(metas')] = shown'
      BY <2>1, <2>3, <3>1, FirstTaken DEF Untouched
    <3>3. AsShown(basic)'
      BY <2>3, NothingLemma DEF AsShown
    <3> QED BY <2>1, <3>2, <3>3 DEF Untouched, AsShown
  <2> QED BY <1>6, <2>2, <2>3 DEF RequestFails
<1>7. ASSUME NEW v \in Values, NEW p \in Tab, EditTab(p, v) PROVE Untouched'
  <2>1. /\ tab' = [tab EXCEPT ![p] = v] /\ touched' = touched \cup {p}
        /\ UNCHANGED <<metas, current, shown, cli, cards, basic>>
    BY <1>7 DEF EditTab, Edits
  <2> QED BY <2>1 DEF Untouched, AsShown
<1>8. ASSUME NEW v \in Values, NEW p \in Cli, EditCli(p, v) PROVE Untouched'
  <2>1. /\ cli' = [cli EXCEPT ![p] = v] /\ touched' = touched \cup {p}
        /\ UNCHANGED <<metas, current, shown, tab, cards, basic>>
    BY <1>8 DEF EditCli, Edits
  <2> QED BY <2>1 DEF Untouched, AsShown
<1>9. ASSUME NEW v \in Values, NEW p \in Cards, EditCard(p, v) PROVE Untouched'
  <2>1. /\ cards' = [cards EXCEPT ![p] = v] /\ touched' = touched \cup {p}
        /\ UNCHANGED <<metas, current, shown, tab, cli, basic>>
    BY <1>9 DEF EditCard, Edits
  <2> QED BY <2>1 DEF Untouched, AsShown
<1>10. ASSUME NEW v \in Values, NEW p \in Basic, EditBasic(p, v) \/ AddOrRemoveBasicChip(p, v)
       PROVE  Untouched'
  <2>1. /\ basic' = [basic EXCEPT ![p] = v] /\ touched' = touched \cup {p}
        /\ UNCHANGED <<metas, current, shown, tab, cli, cards>>
    BY <1>10 DEF EditBasic, AddOrRemoveBasicChip, Edits, forms
  <2> QED BY <2>1 DEF Untouched, AsShown
<1>11. ASSUME NEW n \in DOMAIN Presets, ApplyPreset(n) PROVE Untouched'
  <2> DEFINE new == {p \in DOMAIN Presets[n] \cap DOMAIN basic : basic[p] # Presets[n][p]}
  <2>1. /\ touched' = touched \cup new /\ \A p \in DOMAIN basic \ new : basic'[p] = basic[p]
        /\ DOMAIN basic' = DOMAIN basic
    BY <1>11, AppliedLemma DEF ApplyPreset
  <2>2. UNCHANGED <<metas, current, shown, tab, cli, cards>>
    BY <1>11 DEF ApplyPreset, forms
  <2> HIDE DEF new
  <2>3. AsShown(basic) => AsShown(basic)'
    BY <2>1, <2>2 DEF AsShown
  <2>4. /\ AsShown(tab) => AsShown(tab)'
        /\ AsShown(cli) => AsShown(cli)'
        /\ AsShown(cards) => AsShown(cards)'
    BY <2>1, <2>2 DEF AsShown
  <2> QED BY <2>2, <2>3, <2>4 DEF Untouched
<1>12. CASE SaveSettings \/ Stored \/ SaveLost \/ ButtonBack \/ OtherSaves
  BY <1>12, UntouchedKept DEF SaveSettings, Stored, SaveLost, ButtonBack, OtherSaves, forms
<1>13. CASE SaveAnswered
  <2>1. /\ UNCHANGED <<metas, shown, tab, cli, cards, basic, touched>> /\ save # "idle"
        /\ current' = IF save = "failed" THEN current
             ELSE [p \in Settings |-> IF p \in DOMAIN CollectFormData THEN CollectFormData[p] ELSE current[p]]
    BY <1>13 DEF SaveAnswered
  <2>2. current # Nothing
    BY <2>1 DEF FormTypeOK
  <2>3. current' # Nothing
    <3>1. FormTypeOK'
      BY <1>13, SavingTypes
    <3>2. save' # "idle"
      BY <1>13 DEF SaveAnswered
    <3> QED BY <3>1, <3>2 DEF FormTypeOK
  <2> QED BY <2>1, <2>2, <2>3, UntouchedKept
<1> QED BY <1>1, <1>2, <1>3, <1>4, <1>5, <1>6, <1>7, <1>8, <1>9, <1>10, <1>11, <1>12, <1>13 DEF FormNext

\* A save of a page that has its forms sends of every setting whose fields the
\* user has not changed what the page was made from, whichever of its forms
\* have the last word, as long as no answer overtakes an earlier one.
THEOREM SaveKeepsOthers == ASSUME ~Overtakes PROVE FormSpec => UntouchedStays
<1>1. FormInit => ShownInv
  <2>1. FormInit => Untouched
    BY NothingLemma DEF FormInit, Untouched, AsShown
  <2> QED BY <2>1, FormInitType DEF ShownInv
<1>2. ShownInv /\ [FormNext]_formVars => ShownInv'
  BY FormTypeStep, UntouchedStep DEF ShownInv
<1>3. ShownInv /\ [FormNext]_formVars
        => [save = "idle" /\ save' = "sent" /\ metas = <<>> =>
              \A p \in DOMAIN sent' \ touched : sent'[p] = shown[p]]_formVars
  <2> SUFFICES ASSUME ShownInv, [FormNext]_formVars, save = "idle", save' = "sent", metas = <<>>,
                      NEW p \in DOMAIN sent' \ touched
               PROVE  sent'[p] = shown[p]
    OBVIOUS
  <2>1. SaveSettings
    BY DEF FormNext, formVars, forms, presetVars, LoadSettings, Served, RenderSettingsView,
           RenderBasicTab, PresetsLoaded, RequestFails, EditTab, EditCli, EditCard, EditBasic,
           AddOrRemoveBasicChip, PreviewPreset, CloseDiffPopover, ApplyPreset, Stored, SaveLost,
           SaveAnswered, ButtonBack, OtherSaves
  <2>2. current # Nothing /\ sent' = CollectFormData
    BY <2>1 DEF SaveSettings
  <2>3. AsShown(tab) /\ AsShown(cli) /\ AsShown(cards) /\ AsShown(basic)
    BY <2>2 DEF ShownInv, Untouched
  <2> QED BY <2>2, <2>3, CollectLemma DEF ShownInv, AsShown
<1> QED BY <1>1, <1>2, <1>3, PTL DEF FormSpec, UntouchedStays
=============================================================================
