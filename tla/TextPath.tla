------------------------------ MODULE TextPath ------------------------------
(***************************************************************************)
(* The way of a text from the input field of one client to the histories   *)
(* of both (client/main.cpp, client/QLib.hpp, frontend/modules/            *)
(* javascript.js): JSON.stringify, a request in pieces, the choice of the  *)
(* route, the scan of the body, the append to messages.txt, the packet of  *)
(* 512 bytes, the friend's append, and the two readers of messages.txt.    *)
(*                                                                         *)
(* A text is a few characters and a size in bytes, of which the characters *)
(* are a sample.  The two clients have one AES key (see PeerSession).  A   *)
(* client may end within an append and is then started again.              *)
(***************************************************************************)
EXTENDS Naturals, Sequences, SequencesExt

CONSTANTS
  Clients,      \* the two clients
  Texts,        \* what a user may type: [chars, size, mentions]
  Later,        \* bound: the ones of them typed after the first
  MaxTexts,     \* bound: texts typed
  MaxTears      \* bound: ends of a client within an append

ASSUME ClientsAssumption == \E c, d \in Clients : c # d /\ Clients = {c, d}
ASSUME TextsAssumption ==
  /\ Later \subseteq Texts
  /\ \A t \in Texts : t.chars \in Seq(Range(t.chars)) /\ t.size \in Nat
ASSUME BoundsAssumption == MaxTexts \in Nat /\ MaxTears \in Nat

VARIABLES
  requests,   \* the POST /send requests in the order they were typed
  files,      \* files[c]: the lines of messages.txt of c
  log,        \* log[c]: the appends to it, for the properties
  net,        \* the packets on their way
  refused,    \* the texts whose packet was refused, for the properties
  tears       \* the ends of a client so far

vars == <<requests, files, log, net, refused, tears>>

Friend(c) == CHOOSE d \in Clients : d # c

Quote == "quote"
Backslash == "backslash"
Brace == "brace"

Init ==
  /\ requests = <<>>
  /\ files = [c \in Clients |-> <<>>]
  /\ log = [c \in Clients |-> <<>>]
  /\ net = {}
  /\ refused = {}
  /\ tears = 0

----------------------------------------------------------------------------
(* The request.                                                            *)

(* JSON.stringify in the browser, json_escape in the program.              *)
Escaped(s) ==
  FlattenSeq([i \in 1..Len(s) |-> IF s[i] \in {Quote, Backslash}
                                    THEN <<Backslash, s[i]>> ELSE <<s[i]>>])

(* A request comes in up to two pieces: the header, the body.  A part of   *)
(* either counts as nothing of it.                                         *)
Pieces == 2

(* The body from where the text begins, as far as it has come.             *)
Body(s, got) == IF got = Pieces THEN Escaped(s) \o <<Quote, Brace>> ELSE <<>>

(* A bug to compare with: the scan ends at the first quote.                *)
ReadToQuote(body) ==
  IF Contains(body, Quote) THEN SubSeq(body, 1, SelectInSeq(body, LAMBDA x : x = Quote) - 1)
                           ELSE body
(* The scan of the body: a backslash is left out before a quote and kept   *)
(* before anything else; a quote of its own ends the text.                 *)
ReadText(body) ==
  LET n == Len(body)
      from[i \in 1..(n + 2)] ==
        IF i > n THEN <<>>
        ELSE IF body[i] = Backslash /\ i < n /\ body[i + 1] = Quote
          THEN <<Quote>> \o from[i + 2]
        ELSE IF body[i] = Quote THEN <<>>
        ELSE <<body[i]>> \o from[i + 1]
  IN  from[1]

(* The text as POST /send saves and sends it.                              *)
Scanned(t, got) ==
  LET r == ReadText(Body(t.chars, got))
  IN  [t EXCEPT !.chars = r, !.size = (@ + Len(r)) - Len(t.chars)]

(* The routes in the order in which handle_read looks for them: those that *)
(* only read, files and pictures first, and those about a friend.          *)
FileRoutes ==
  <<"GET /time", "GET /style.css", "GET /icon.ico", "GET /logo.jpg",
    "GET /notification", "GET /profile_picture.jpg", "GET /pfps/", "GET /my_info",
    "GET /found_peers", "GET /imgs/", "GET /img_exists/", "HEAD /">>
FriendRoutes ==
  <<"GET /key_status/", "GET /select_user/", "GET /messages/", "GET /find_ip",
    "GET /exchange_keys/", "POST /add_friend/", "POST /remove_friend/",
    "GET /check_activity/", "GET /ip_data/", "GET /friend_list", "POST /send/",
    "POST /upload/pfp", "POST /upload/file/", "POST /upload/name",
    "POST /connection", "POST /update_ip_data/">>
Routes == FileRoutes \o FriendRoutes

(* A bug to compare with: the last route of the list found in the request. *)
LastRoute(found) == SelectLastInSubSeq(Routes, 1, Len(Routes), LAMBDA r : r \in found)
(* The first route found anywhere in the request, its text included.       *)
Route(found) == SelectInSeq(Routes, LAMBDA r : r \in found)

IsSend(t) == Routes[Route({"POST /send/"} \cup t.mentions)] = "POST /send/"

----------------------------------------------------------------------------
(* messages.txt.                                                           *)

NoText == [n |-> 0, chars |-> <<>>, size |-> 0, mentions |-> {}]
Line(tag) == [tag |-> tag, text |-> NoText]

(* save_message.  A new append starts with a line break, so a line that    *)
(* was cut stays a line of its own.  Empty lines are left out.             *)
Entry(who, t) ==
  <<Line(who), [tag |-> "message", text |-> t], Line("stamp"), Line("end")>>

(* What is left of an append when the program ends within it: some of the  *)
(* lines, and perhaps a part of the next or of the text.                   *)
Torn(who, t) ==
  {SubSeq(Entry(who, t), 1, k) \o rest : k \in 0..3, rest \in {<<>>, <<Line("part")>>}}
    \cup {<<Line(who), [tag |-> "message", text |-> [t EXCEPT !.chars = <<>>]]>>}

Shut == [within |-> FALSE, sender |-> "none", text |-> NoText, rows |-> <<>>]
Row(a) == [sender |-> a.sender, text |-> a.text]

(* A bug to compare with: the end of an entry is not looked for.           *)
ReadOn(a, line) ==
  CASE ~a.within /\ line.tag \in {"you", "friend"} ->
         [a EXCEPT !.within = TRUE, !.sender = line.tag, !.text = NoText]
    [] a.within /\ line.tag = "message" -> [a EXCEPT !.text = line.text]
    [] OTHER -> a
(* make_json_messages, one line: outside an entry a sender opens one,      *)
(* inside nothing but the end closes it, and the last text counts.         *)
ReadLine(a, line) ==
  CASE ~a.within /\ line.tag \in {"you", "friend"} ->
         [a EXCEPT !.within = TRUE, !.sender = line.tag, !.text = NoText]
    [] a.within /\ line.tag = "end" ->
         [a EXCEPT !.within = FALSE, !.rows = Append(@, Row(a))]
    [] a.within /\ line.tag = "message" -> [a EXCEPT !.text = line.text]
    [] OTHER -> a

(* make_json_messages: an entry open at the end of the file is a row too.  *)
Rows(file) ==
  LET a == FoldLeft(ReadLine, Shut, file)
  IN  IF a.within THEN Append(a.rows, Row(a)) ELSE a.rows

(* A bug to compare with: the first text of the file.                      *)
FirstText(file) ==
  LET m == SelectSeq(file, LAMBDA line : line.tag = "message")
  IN  IF m = <<>> THEN NoText ELSE Head(m).text
(* make_json_friends: the last text of the file, whoever's.                *)
Preview(file) ==
  LET k == SelectLastInSeq(file, LAMBDA line : line.tag = "message")
  IN  IF k = 0 THEN NoText ELSE file[k].text

(* save_message to its end.  The directory of the friend exists: where it  *)
(* is gone nothing is saved and the answer is still ok (see ChatView).     *)
Saved(c, who, t) ==
  /\ files' = [files EXCEPT ![c] = @ \o Entry(who, t)]
  /\ log' = [log EXCEPT ![c] = Append(@, [who |-> who, text |-> t, torn |-> FALSE])]

(* save_message in which the program ends.  The requests of its browser    *)
(* end with it, and it is started again.                                   *)
SavedInPart(c, who, t) ==
  /\ tears < MaxTears
  /\ tears' = tears + 1
  /\ \E lines \in Torn(who, t) : files' = [files EXCEPT ![c] = @ \o lines]
  /\ log' = [log EXCEPT ![c] = Append(@, [who |-> who, text |-> t, torn |-> TRUE])]
  /\ requests' = [i \in DOMAIN requests |->
                    IF requests[i].from = c /\ requests[i].state = "reading"
                      THEN [requests[i] EXCEPT !.state = "broken"] ELSE requests[i]]

----------------------------------------------------------------------------
(* The packet.                                                             *)

MaxText == 477      \* where send_text cuts
MaxSealed == 493    \* what handle_receive accepts

(* aes_encrypt: the IV, and the text padded to whole blocks of 16 bytes.   *)
SealedSize(size) == 16 + 16 * (size \div 16 + 1)

(* send_text.                                                              *)
Cut(t) == [t EXCEPT !.size = IF @ > MaxText THEN MaxText ELSE @]

(* CRC32: a number that differs whenever the data do, which is always so   *)
(* for errors within 32 bits and all but always for others.                *)
CRC32(t) == [crc |-> t]

(* send_text when there is a session; get_bytes adds the checksum.         *)
Sent(c, t) == net \cup {[to |-> Friend(c), text |-> Cut(t), sum |-> CRC32(Cut(t))]}

(* The data as they may arrive, whole or damaged.                          *)
Arriving(p) == {p.text, [p.text EXCEPT !.chars = Append(@, Brace)]}

(* A bug to compare with: the text is sent before it is saved.             *)
SentFirst(c, t) == Sent(c, t)
(* Nothing has been sent when the program ends within save_message.        *)
SentOnTear(c, t) == net

(* A bug to compare with: the limit of the text is taken for its packet's. *)
FitsAsText(t) == SealedSize(t.size) <= MaxText
(* handle_receive: the length in the first two bytes of the packet.        *)
Fits(t) == SealedSize(t.size) <= MaxSealed

----------------------------------------------------------------------------
(* The actions.                                                            *)

(* The user sends a text: a request of its own, on its own connection.     *)
Type(c, t) ==
  /\ Len(requests) < MaxTexts /\ (requests # <<>> => t \in Later)
  /\ requests' = Append(requests,
       [from |-> c, got |-> 0, state |-> "reading",
        text |-> [n |-> Len(requests) + 1, chars |-> t.chars, size |-> t.size,
                  mentions |-> t.mentions]])
  /\ UNCHANGED <<files, log, net, refused, tears>>

(* A bug to compare with: the request is handled when its header is there. *)
HeaderIsThere(got) == got >= Pieces - 1
(* handle_read: the header has ended, and Content-Length bytes followed.   *)
IsWhole(got) == got = Pieces

(* handle_read with more of the request, and still not all of it.          *)
ReadMore(i) ==
  /\ requests[i].state = "reading"
  /\ \E got \in (requests[i].got + 1)..Pieces :
       /\ ~IsWhole(got)
       /\ requests' = [requests EXCEPT ![i].got = got]
  /\ UNCHANGED <<files, log, net, refused, tears>>

(* handle_read with the whole request: the text is saved, then sent if     *)
(* there is a session.  The handler of another route leaves it alone.      *)
Handle(i) ==
  LET r == requests[i]
  IN  /\ r.state = "reading"
      /\ \E got \in (r.got + 1)..Pieces :
           LET t == Scanned(r.text, got)
           IN  /\ IsWhole(got)
               /\ \/ /\ IsSend(r.text)
                     /\ Saved(r.from, "you", t)
                     /\ requests' = [requests EXCEPT ![i].state = "answered", ![i].got = got]
                     /\ net' = net \/ net' = Sent(r.from, t)
                     /\ UNCHANGED tears
                  \/ /\ IsSend(r.text)
                     /\ SavedInPart(r.from, "you", t)
                     /\ net' = SentOnTear(r.from, t)
                  \/ /\ ~IsSend(r.text)
                     /\ requests' = [requests EXCEPT ![i].state = "answered", ![i].got = got]
                     /\ UNCHANGED <<files, log, net, tears>>
      /\ UNCHANGED refused

(* The connection ends early.                                              *)
Break(i) ==
  /\ requests[i].state = "reading"
  /\ requests' = [requests EXCEPT ![i].state = "broken"]
  /\ UNCHANGED <<files, log, net, refused, tears>>

(* UDP loses packets.                                                      *)
Lose(p) ==
  /\ net' = net \ {p}
  /\ UNCHANGED <<requests, files, log, refused, tears>>

(* A bug to compare with: the checksum is not looked at.                   *)
IntactAlways(p, t) == TRUE
(* handle_receive compares the checksum with that of what has come.        *)
Intact(p, t) == CRC32(t) = p.sum

(* handle_receive: the checksum, the length, the decryption, the append.   *)
Receive(p) ==
  \E t \in Arriving(p) :
    /\ net' = net \ {p}
    /\ \/ /\ ~Intact(p, t)
          /\ UNCHANGED <<requests, files, log, refused, tears>>
       \/ /\ Intact(p, t) /\ ~Fits(t)
          /\ refused' = refused \cup {t}
          /\ UNCHANGED <<requests, files, log, tears>>
       \/ /\ Intact(p, t) /\ Fits(t)
          /\ \/ Saved(p.to, "friend", t) /\ UNCHANGED <<requests, tears>>
             \/ SavedInPart(p.to, "friend", t)
          /\ UNCHANGED refused

Next ==
  \/ \E c \in Clients, t \in Texts : Type(c, t)
  \/ \E i \in DOMAIN requests : ReadMore(i) \/ Handle(i) \/ Break(i)
  \/ \E p \in net : Lose(p) \/ Receive(p)

Spec == Init /\ [][Next]_vars

----------------------------------------------------------------------------
(* Properties.                                                             *)

(* What is to be expected of a text: every backslash twice, and when the   *)
(* last character is one, its second is lost and a quote and a brace that  *)
(* belong to the request follow.                                           *)
Expected(s) ==
  LET twice == FlattenSeq([i \in 1..Len(s) |-> IF s[i] = Backslash
                                 THEN <<Backslash, Backslash>> ELSE <<s[i]>>])
  IN  IF s # <<>> /\ Last(s) = Backslash THEN Front(twice) \o <<Quote, Brace>>
      ELSE twice

(* A text is kept and sent exactly as it was typed, quotes included,       *)
(* unless it has a backslash, and then changed in no other way than that.  *)
KeptAsTyped ==
  \A c \in Clients : \A i \in DOMAIN log[c] :
    LET t == log[c][i].text
    IN  t.chars = Expected(requests[t.n].text.chars)

(* Whenever a client ended within an append, the chat shows every other    *)
(* append with its own sender, in order: the tear costs the entry that was *)
(* torn and at most the one after it.  Unless it is the last append that   *)
(* was torn, the list of friends shows the text of the chat's last row.    *)
TearCostsOne ==
  \A c \in Clients :
    LET rows == Rows(files[c])
        clean == {i \in DOMAIN log[c] : ~log[c][i].torn /\ (i > 1 => ~log[c][i - 1].torn)}
        Shows(j, i) == /\ rows[j].text = log[c][i].text
                       /\ rows[j].sender = log[c][i].who
    IN  /\ Len(rows) <= Len(log[c])
        /\ \A i \in clean : \E j \in 1..i :
             /\ j \in DOMAIN rows /\ Shows(j, i)
             /\ \A k \in clean : k < i => \E l \in 1..(j - 1) : Shows(l, k)
        /\ log[c] # <<>> /\ ~Last(log[c]).torn => Preview(files[c]) = Last(rows).text

(* Nothing reaches the friend that the sender's own history does not have, *)
(* whenever either program ends.                                           *)
FriendKnowsNoMore ==
  \A c \in Clients : \A i \in DOMAIN log[c] :
    log[c][i].who = "friend" =>
      \E e \in DOMAIN log[Friend(c)] :
        log[Friend(c)][e] = [log[c][i] EXCEPT !.who = "you", !.torn = FALSE]

(* A text is refused by the friend only if it has 464 bytes or more, and   *)
(* then always, the ones that send_text has cut included.                  *)
RefusedAreLong ==
  /\ \A t \in refused : t.size >= 464
  /\ \A c \in Clients : \A i \in DOMAIN log[c] :
       log[c][i].who = "friend" => log[c][i].text.size < 464

(* For a friend who was not removed, an answer means that the text was     *)
(* saved once, unless the text mentions a route that is looked for before  *)
(* POST /send: then it was not.                                            *)
AnswerMeansSaved ==
  \A i \in DOMAIN requests :
    LET saves == {e \in DOMAIN log[requests[i].from] :
                    /\ log[requests[i].from][e].who = "you"
                    /\ ~log[requests[i].from][e].torn
                    /\ log[requests[i].from][e].text.n = i}
        sends == \A m \in requests[i].text.mentions :
                   m \notin {Routes[k] : k \in 1..(Route({"POST /send/"}) - 1)}
    IN  IF requests[i].state = "answered" /\ sends
          THEN \E e \in saves : saves = {e}
          ELSE saves = {}
=============================================================================
