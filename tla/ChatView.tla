------------------------------ MODULE ChatView ------------------------------
(***************************************************************************)
(* The page in the browser (javascript.js) and the part of the program     *)
(* (client/main.cpp) it shows: who is selected, the histories, the counts  *)
(* of unread texts.  The page and the program each keep their own idea of  *)
(* which friend is selected, friend_uuid and selected_user.                *)
(*                                                                         *)
(* The page is one thread, but its async functions wait for an answer      *)
(* between their steps, so calls overlap: each is asked, served by one     *)
(* handler of the program, and finished on the page by a later step.       *)
(* The list of friends is refreshed in one step: two of its answers never  *)
(* overtake each other here.  Every call of loadFriendList is that step.   *)
(***************************************************************************)
EXTENDS Search, FiniteSets

CONSTANTS
  Friends,     \* the uuids of friends
  None,        \* '' on the page, in the program '' or what no friend has
  Texts,       \* bound: Texts[f], what is said in the chat with f, in order
  Held,        \* Held[f]: how much of it the history held at the start
  Letters,     \* the letters of words
  Queries,     \* what may be typed in the search field, trimmed
  MaxReads,    \* bound: reads of the history under way when the poll asks
  MaxEvents    \* bound: clicks, keys and texts

NoQuery == << >>

ASSUME FriendsAssumption == None \notin Friends
ASSUME TextsAssumption ==
  /\ Texts \in [Friends -> Seq(Seq(Seq(Letters)))]
  /\ Held \in [Friends -> Nat]
  /\ \A f \in Friends : Held[f] <= Len(Texts[f])
ASSUME QueriesAssumption == Queries \subseteq Seq(Letters)
ASSUME BoundsAssumption == MaxReads \in Nat \ {0} /\ MaxEvents \in Nat

VARIABLES
  dirs,      \* the friends with a directory
  hist,      \* hist[f]: the texts in messages.txt
  unread,    \* notifications_count
  selected,  \* selected_user
  shown,     \* friend_uuid of the page, None after a removal
  area,      \* the message rows: whose chat, how many, and those hidden
  list,      \* the rows of the list of friends
  query,     \* aktywneWyszukiwanie
  reads,     \* the calls of readAllMessages under way
  selects,   \* the calls of select_user under way
  removal,   \* the call of removeCurrentFriend under way
  sends,     \* the friends a text is being sent to
  timers,    \* the delayed select_user calls of exchange_keys
  crossed,   \* a note: two calls that select have overlapped
  events     \* the clicks, keys and texts so far

program == <<dirs, hist, unread, selected>>
page == <<shown, area, list, query>>
calls == <<reads, selects, removal, sends, timers>>
vars == <<program, page, calls, crossed, events>>

Somebody == Friends \cup {None}

(* GET /messages answers with no rows for a friend without a directory.    *)
RowsOf(f) == IF f = None THEN 0 ELSE hist[f]

Asked(f) == [of |-> f, stage |-> "asked", rows |-> 0]
Idle == [of |-> None, stage |-> "idle"]

(* Bug: a new rendering is not filtered.                                   *)
FilteredOnEnter(of, rows, q) == {}

(* The rows zastosujFiltr hides.                                           *)
Filtered(of, rows, q) ==
  IF q = NoQuery THEN {} ELSE {i \in 1 .. rows : ~Matches(q, Texts[of][i])}

Cleared == [of |-> None, rows |-> 0, hidden |-> {}]

(* Bug: it renders only when rows have been added.                         *)
RenderedMore(r) ==
  IF area.rows >= r.rows THEN area
  ELSE [of |-> r.of, rows |-> r.rows, hidden |-> Filtered(r.of, r.rows, query)]

(* Bug: the rows of a new rendering are hidden as those before them were.  *)
RenderedAsBefore(r) ==
  IF area.rows = r.rows THEN area
  ELSE [of |-> r.of, rows |-> r.rows, hidden |-> area.hidden]

(* readAllMessages renders only when the number of rows differs.           *)
Rendered(r) ==
  IF area.rows = r.rows THEN area
  ELSE [of |-> r.of, rows |-> r.rows, hidden |-> Filtered(r.of, r.rows, query)]

(* What make_json_friends answers.                                         *)
Listed ==
  [f \in dirs |-> [rows |-> hist[f], badge |-> unread[f], active |-> f = selected]]

Selecting == selects # {} \/ removal # Idle

Event == events < MaxEvents /\ events' = events + 1

(* The page as prepare_html made it, with the calls it starts by itself.   *)
Init ==
  /\ dirs = Friends /\ hist = Held /\ unread = [f \in Friends |-> 0]
  /\ selected \in Friends /\ shown = selected
  /\ area = Cleared /\ list = << >> /\ query = NoQuery
  /\ reads = {Asked(shown)} /\ selects = {[of |-> shown, stage |-> "asked"]}
  /\ removal = Idle /\ sends = {} /\ timers = 0
  /\ crossed = FALSE /\ events = 0

(***************************************************************************)
(* Reading the history and the list of friends.                            *)
(***************************************************************************)

(* setInterval, every 300 ms.                                              *)
Poll ==
  /\ Cardinality(reads) < MaxReads
  /\ reads' = reads \cup {Asked(shown)}
  /\ UNCHANGED <<program, page, selects, removal, sends, timers, crossed, events>>

ServeRead ==
  /\ \E r \in reads :
       /\ r.stage = "asked"
       /\ reads' = (reads \ {r})
                    \cup {[of |-> r.of, stage |-> "served", rows |-> RowsOf(r.of)]}
  /\ UNCHANGED <<program, page, selects, removal, sends, timers, crossed, events>>

FinishRead ==
  /\ \E r \in reads :
       /\ r.stage = "served"
       /\ reads' = reads \ {r}
       /\ area' = Rendered(r)
  /\ UNCHANGED <<program, shown, list, query, selects, removal, sends, timers,
                 crossed, events>>

RefreshList ==
  /\ list' = Listed
  /\ UNCHANGED <<program, shown, area, query, calls, crossed, events>>

(***************************************************************************)
(* Selecting a friend: a click on a row of the list, which may be older    *)
(* than the friend's removal, or a timer of exchange_keys.                 *)
(***************************************************************************)

SelectAsked(f) ==
  /\ selects' = selects \cup {[of |-> f, stage |-> "asked"]}
  /\ crossed' = (crossed \/ Selecting)

Click(f) ==
  /\ Event
  /\ f \in DOMAIN list
  /\ SelectAsked(f)
  /\ UNCHANGED <<program, page, reads, removal, sends, timers>>

(* Bug: the count of the friend is left as it was.                         *)
ServeSelectOnly(f) ==
  LET asked == [of |-> f, stage |-> "asked"] IN
  /\ asked \in selects
  /\ selects' = (selects \ {asked}) \cup {[of |-> f, stage |-> "served"]}
  /\ selected' = f
  /\ UNCHANGED <<dirs, hist, unread, page, reads, removal, sends, timers, crossed,
                 events>>

(* GET /select_user, with 36 bytes that are no uuid when f is None.        *)
ServeSelect(f) ==
  LET asked == [of |-> f, stage |-> "asked"] IN
  /\ asked \in selects
  /\ selects' = (selects \ {asked}) \cup {[of |-> f, stage |-> "served"]}
  /\ selected' = f
  /\ unread' = [g \in Friends |-> IF g = f THEN 0 ELSE unread[g]]
  /\ UNCHANGED <<dirs, hist, page, reads, removal, sends, timers, crossed, events>>

FinishSelect(f) ==
  LET served == [of |-> f, stage |-> "served"] IN
  /\ served \in selects
  /\ selects' = selects \ {served}
  /\ shown' = f
  /\ reads' = reads \cup {Asked(f)}
  /\ UNCHANGED <<program, area, list, query, removal, sends, timers, crossed, events>>

(* exchange_keys of the page: two calls of select_user come 100 and 500 ms *)
(* later.  Without a session for the friend the program ends instead.      *)
(* Bound: one exchange at a time.                                          *)
ExchangeKeys ==
  /\ Event
  /\ shown \in dirs /\ timers = 0
  /\ timers' = 2
  /\ UNCHANGED <<program, page, reads, selects, removal, sends, crossed>>

TimerFires ==
  /\ timers > 0
  /\ timers' = timers - 1
  /\ SelectAsked(shown)
  /\ UNCHANGED <<program, page, reads, removal, sends, events>>

(***************************************************************************)
(* Removing and adding a friend.  Bound: one removal at a time.            *)
(***************************************************************************)

RemoveClicked ==
  /\ Event
  /\ shown # None /\ removal = Idle
  /\ removal' = [of |-> shown, stage |-> "asked"]
  /\ crossed' = (crossed \/ Selecting)
  /\ UNCHANGED <<program, page, reads, selects, sends, timers>>

(* user_selection: the friend of the latest text, else the first one; with *)
(* no directory left nobody.                                               *)
UserSelection(left, sel) ==
  LET written == {g \in left : hist[g] > 0} IN
  IF left = {} THEN sel = None
  ELSE sel \in (IF written # {} THEN written ELSE left)

(* POST /remove_friend: the count of unread texts stays.                   *)
ServeRemoval ==
  LET f == removal.of IN
  /\ removal.stage = "asked"
  /\ removal' = [removal EXCEPT !.stage = "served"]
  /\ dirs' = dirs \ {f}
  /\ hist' = [hist EXCEPT ![f] = 0]
  /\ IF selected = f
     THEN \E sel \in Somebody : UserSelection(dirs', sel) /\ selected' = sel
     ELSE UNCHANGED selected
  /\ UNCHANGED <<unread, page, reads, selects, sends, timers, crossed, events>>

(* Bug: the friend stays on the page.                                      *)
FinishRemovalKept ==
  /\ removal.stage = "served"
  /\ removal' = Idle
  /\ area' = Cleared
  /\ UNCHANGED <<program, shown, list, query, reads, selects, sends, timers, crossed,
                 events>>

(* It clears the page of whoever is shown by now.                          *)
FinishRemoval ==
  /\ removal.stage = "served"
  /\ removal' = Idle
  /\ shown' = None
  /\ area' = Cleared
  /\ UNCHANGED <<program, list, query, reads, selects, sends, timers, crossed, events>>

(* POST /add_friend makes what is missing of the directory.                *)
AddFriend(f) ==
  /\ Event
  /\ f \notin dirs
  /\ dirs' = dirs \cup {f}
  /\ UNCHANGED <<hist, unread, selected, page, calls, crossed>>

(***************************************************************************)
(* Texts.                                                                  *)
(***************************************************************************)

(* A text from f: handle_receive saves it and counts it unless f is the    *)
(* selected one.                                                           *)
Arrive(f) ==
  /\ Event
  /\ f \in dirs /\ hist[f] < Len(Texts[f])
  /\ hist' = [hist EXCEPT ![f] = @ + 1]
  /\ unread' = IF f = selected THEN unread ELSE [unread EXCEPT ![f] = @ + 1]
  /\ UNCHANGED <<dirs, selected, page, calls, crossed>>

(* Enter in the input bar: the text goes to whoever is shown.  Bound: one  *)
(* text on its way to the program at a time.                               *)
Send ==
  /\ Event
  /\ sends = {}
  /\ sends' = {shown}
  /\ reads' = reads \cup {Asked(shown)}
  /\ UNCHANGED <<program, page, selects, removal, timers, crossed>>

(* POST /send: without a directory the text is lost.                       *)
ServeSend(f) ==
  /\ f \in sends
  /\ sends' = sends \ {f}
  /\ hist' = IF f \in dirs /\ hist[f] < Len(Texts[f])
              THEN [hist EXCEPT ![f] = @ + 1] ELSE hist
  /\ UNCHANGED <<dirs, unread, selected, page, reads, selects, removal, timers,
                 crossed, events>>

(***************************************************************************)
(* The search field.  Enter on a query of blanks alone leaves the rows as  *)
(* they were hidden.                                                       *)
(***************************************************************************)
Enter(q) ==
  /\ Event
  /\ query' = q
  /\ area' = IF q = NoQuery THEN area
              ELSE [area EXCEPT !.hidden = Filtered(area.of, area.rows, q)]
  /\ UNCHANGED <<program, shown, list, calls, crossed>>

ClearQuery ==
  /\ query # NoQuery
  /\ query' = NoQuery
  /\ area' = [area EXCEPT !.hidden = {}]
  /\ UNCHANGED <<program, shown, list, calls, crossed, events>>

Next ==
  \/ Poll \/ ServeRead \/ FinishRead \/ RefreshList
  \/ \E f \in Friends : Click(f) \/ AddFriend(f) \/ Arrive(f)
  \/ \E f \in Somebody : ServeSelect(f) \/ FinishSelect(f) \/ ServeSend(f)
  \/ ExchangeKeys \/ TimerFires
  \/ RemoveClicked \/ ServeRemoval \/ FinishRemoval
  \/ Send
  \/ \E q \in Queries : Enter(q)
  \/ ClearQuery

Spec == Init /\ [][Next]_vars

(* The poll never stops, and a request that is made is answered and its    *)
(* answer handled; clicks, keys and texts need not come.                   *)
FairSpec ==
  /\ Spec
  /\ WF_vars(Poll) /\ WF_vars(ServeRead) /\ WF_vars(FinishRead)
  /\ WF_vars(RefreshList)
  /\ \A f \in Somebody : WF_vars(ServeSelect(f)) /\ WF_vars(FinishSelect(f))
                          /\ WF_vars(ServeSend(f))
  /\ WF_vars(TimerFires) /\ WF_vars(ServeRemoval) /\ WF_vars(FinishRemoval)

-----------------------------------------------------------------------------
(* Everything has its type, the hidden rows are rows, and the rows shown   *)
(* are texts that were said.                                               *)
TypeOK ==
  /\ dirs \subseteq Friends
  /\ hist \in [Friends -> Nat] /\ \A f \in Friends : hist[f] <= Len(Texts[f])
  /\ unread \in [Friends -> Nat]
  /\ selected \in Somebody /\ shown \in Somebody
  /\ area \in [of : Somebody, rows : Nat, hidden : SUBSET Nat]
  /\ area.hidden \subseteq 1 .. area.rows
  /\ area.of = None => area.rows = 0
  /\ area.of # None => area.rows <= Len(Texts[area.of])
  /\ query \in Queries \cup {NoQuery}
  /\ reads \subseteq [of : Somebody, stage : {"asked", "served"}, rows : Nat]
  /\ selects \subseteq [of : Somebody, stage : {"asked", "served"}]
  /\ removal \in [of : Somebody, stage : {"idle", "asked", "served"}]
  /\ sends \subseteq Somebody
  /\ timers \in 0 .. 2 /\ crossed \in BOOLEAN /\ events \in 0 .. MaxEvents

(* The program counts no text of the friend it holds selected, so the page *)
(* must show that friend: it does, or shows nobody after a removal, once   *)
(* its selecting calls are over and as long as no two of them overlapped   *)
(* (select_user, removeCurrentFriend and GET /select_user).                *)
SelectedIsShown == ~crossed /\ ~Selecting => shown \in {None, selected}

(* A badge stands for texts the history holds, also after a friend is      *)
(* removed and added again, though /remove_friend keeps the count: the     *)
(* chat that is removed is the one selected.                               *)
BadgeHasTexts == ~crossed => \A f \in Friends : unread[f] <= hist[f]

(* With a query, what is visible is what has a word within two edits of    *)
(* it, whatever has been rendered since Enter (zastosujFiltr, and          *)
(* liczLevenshteina against the words those edits make).                   *)
VisibleIsNear ==
  query # NoQuery =>
    \A i \in 1 .. area.rows :
      LET text == Texts[area.of][i]
      IN i \in area.hidden <=> \A j \in DOMAIN text : text[j] \notin Near(query, Letters)

(* However the calls overlapped, in the end the page shows as many rows as *)
(* the history of its friend has and a list of friends that is up to date: *)
(* the poll of javascript.js:667 mends what an answer that came late left. *)
(* Whose rows they are is not claimed: readAllMessages compares only their *)
(* number, and leaves another chat of the same length where it is.         *)
CatchesUp == <>[](area.rows = RowsOf(shown) /\ list = Listed)
=============================================================================
