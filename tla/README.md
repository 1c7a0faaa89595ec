# QChat in TLA+

Specifications of QChat, the peer-to-peer chat of this repository: a C++ client
(`src/app_final/client/main.cpp`) with a browser front end
(`client/frontend/modules/javascript.js`) and a coordinating server
(`src/app_final/server/main.cpp`). TLC checks each module on small instances; TLAPS
proves the safety properties for every value of the constants, that the peers implement a
channel of texts, and that uploads are offered and arrive as a file transfer should.

In this file `C:n` is line n of the client's main.cpp, `S:n` of the server's, `J:n` of
javascript.js.

## 1. The system

Client and server are single-threaded: each runs one asio `io_context`, and every step
is one handler that runs to its end. What makes the system hard is what happens between
handlers, in other processes, on the network, and between two writes of one handler
when the process ends.

| Component | State it keeps | Operations | Talks to |
|---|---|---|---|
| Peer session (`udp_server`, C:795-1251) | key file and history of the friend, unread count, the selected friend, the time of the last packet | text out and in, public key out, wrapped key in and out, name packets, punches | the friend's `udp_server` by UDP; the HTTP handlers call it |
| File transfer (C:1014-1141, 1267-1388) | one timer per connection, `incoming_files`, the directory `received/` | header, chunks, reassembly | the friend's `udp_server` |
| Rendezvous (S:170-290, 395-409; C:1397-1412, 1941-1986, 2150-2274) | the server's `active_sessions`; the client's `user_connections` and `ip_io` files | check in, match, give out ports, open or move a connection, forget | server and all clients |
| Server connection (`tcp_c_client` C:2020-2355, `Session` S:292-380) | socket, timer, flag, uuid and key in memory and on both disks | register, check in, switch on and off, reconnect | HTTP switch; the rendezvous |
| Session lifecycle (C:814-871, 1186-1191) | socket, outstanding receive, punch timer | construct, move, stop and delete | rendezvous, friend management |
| Friends and HTTP (C:1440-1893) | `friends/`, `selected_user` | add, remove, select, upload, edit ports | every other part of the client |
| Chat view (J) | friend shown, list, pictures | poll, select, send, redraw | HTTP |
| Search (J:686-807) | none | Levenshtein distance, filter | chat view |
| Messages, packets and ciphers (C:358-791, S:79-168) | `messages.txt` | append, two readers, CRC32, AES-256-CBC, X25519 wrapping | peer session, HTTP |

What is hard in each, and what makes it correct:

- **Peer session.** UDP loses, repeats and reorders; texts and keys cross; a key can
  change under texts on their way; the key file is emptied before it is written.
  Correct means: nothing is attributed to a friend who did not write it, texts are in
  order as far as the network allows, an exchange leaves both with the same key.
- **File transfer.** One timer for all uploads of a connection; a file's name is chosen
  when it starts and used when it ends. Correct means: what is written is the whole of
  one upload, and uploads arrive.
- **Rendezvous.** Ports are chosen from old reports, answers travel while others are
  served, clients stop with their sessions still listed. Correct means: friends end up
  with ports that face each other, and a connection that works is left alone.
- **Server connection.** Errors, switches and restarts between and inside operations.
  Correct means: the server understands every check-in, the identity stays, the chain of
  operations never stops.
- **Session lifecycle, friends.** Queued handlers outlive the object they point to;
  constructing, moving and stopping can each fail half way. Correct means: every session
  is reachable and the other way round, none is deaf without a failure, its file is as
  new as its socket, ports do not collide.
- **Chat view, search.** Awaits outlive a selection; page and program each remember who
  is selected. Correct means: they agree, the page catches up, the search shows what is
  near the query.
- **Texts.** A text crosses JSON, a scanner, a file without a length, a packet with one.
  Correct means: it is kept and sent as typed, once, and a torn append costs little.

The exposed lines are listed as hazards in PROJECT.json, each with the properties that
cover it or the reason why none does.

## 2. The modules

| Module | What it is |
|---|---|
| `PeerSession` | texts and key exchange between two clients |
| `FriendChannel` | what two friends may rely on: the abstract specification of `PeerSession` |
| `MCPeerSession` | small instances and the refinement mapping |
| `PeerSessionProofs` | its theorems |
| `QueueLemmas` | lemmas for several of the proofs: sequences and what removing, dropping and flattening do to them; induction over the naturals |
| `FileTransfer`, `FileTransferProofs` | uploads over one connection, and its theorems |
| `FriendFiles` | what a user may rely on when they send files: the abstract specification of `FileTransfer` |
| `MCFileTransfer` | small instances and the refinement mapping: a file is offered by its upload and received when the receiver writes it |
| `Rendezvous`, `MCRendezvous` | sessions, ports, presence in any timing |
| `TimedRendezvous`, `MCTimedRendezvous` | the same with the timing the code's constants make usual |
| `RendezvousProofs` | the theorems of both |
| `CoordClient`, `CoordClientProofs` | the connection to the server and the identity |
| `ClientSessions`, `ClientSessionsProofs` | all `udp_server` objects of one client, with its friends and its files |
| `KeyWrap` | how a session key is wrapped for a friend; used by `ClientSessions` |
| `TextPath`, `MCTextPath`, `TextPathProofs` | a text from the input field to both histories |
| `ChatView`, `MCChatView`, `ChatViewProofs` | the page and what it shows of the program |
| `Search` | edit distance and filter; `ChatView` extends it, `ChatViewProofs` has its theorem |

They overlap on purpose, each leaving open what another one settles: `PeerSession` and
`FileTransfer` have connections that exist, `ClientSessions` has their making and
unmaking for one client and any answer of the server, `Rendezvous` has the answers for all
clients; `ChatView` has the handlers of `PeerSession` that select and count, seen from the
page, and `TextPath` the texts of `SendText` and `RecvText` with their characters.

### PeerSession

`net[p]` is the queue of packets towards p, `key[p]` the file `friends/<uuid>/AES`
(0: no usable key, so a crash that leaves it empty is a value, not an error), `log[p]`
the file `messages.txt`, `unread` and `selected` the two globals. `up` holds the clients
that have a `udp_server` for the other one. Keys are numbered as they are generated.

| Code | Action |
|---|---|
| GET /exchange_keys (C:1644) | `ExchangeKeys` |
| POST /send (C:1696): history first, then `send_text` (C:1210) | `SendText` |
| GET /select_user (C:1617), the selection by remove_friend (C:1674) | `SelectPeer`, `SelectAnother`, `SelectByDefault` |
| `handle_receive`: T (C:910), P (C:964), A (C:990) | `RecvText`, `RecvPublicKey`, `RecvWrappedKey` |
| a new `udp_server` | `Connect` |
| the process ends, also between the steps of one handler | `Crash`, `CrashWritingKey` |
| UDP | `Lose`, `Duplicate`, reordering in `Deliverable` |

CBC without a MAC lets a wrong key pass now and then with a garbled text: `Readings`
allows it. A text sent without a key goes bare; the receiver takes its first two bytes
for a length, which is always too large. Lengths count where the code tests them, and so
`EncLen` is computed as the cipher does.

### FileTransfer

`wait` is the pending wait on `t_file_transmit`, `ready` the handlers of expired waits
that asio has queued and that a new expiry no longer cancels. `incoming` is
`incoming_files`, `disk` the directory `received/<uuid>`, paths being a name with its
suffix number. `Upload` is POST /upload/file or /upload/pfp with `send_file`;
`TimerExpires` and `SendChunk` are the timer and `send_file_packet`; `RecvHeader` and
`RecvChunk` are the F branch. `Rekey` changes either key file, as an exchange on the same
connection does.

### Rendezvous and TimedRendezvous

A connection is its two ports. `conn[c][d]` is the `udp_server` of client c for friend d,
`ip_io` the file with its last ports, `active[c]` the friends for which `check_activity`
holds, `session` the server's table, `tcp[c]` what is between c and the server.

| Code | Action |
|---|---|
| `do_routine` (C:2150) | `CheckIn` |
| `process_routine_request`, `build_routine_response` (S:223, S:181) | `Serve` |
| `handle_routine_response` (C:2208), one connection after another | `Apply` with `Opened` |
| the cleanup timer (S:395) | `Expire` |
| a packet arrives at a port (C:884); two seconds without one | `Hear`, `FallSilent` |
| the program ends, `load_connections` (C:1941) | `Stop`, `Start` |

`handle_receive` never looks at the sender, so a punch counts for whichever connection
listens at the port: `Reaches` follows ports only. `Opened` keeps the difference between
a connection that does not exist (a bind error is caught and the friend stays without
one) and one that does (`change_target` throws, nothing catches it, the program ends).

`TimedRendezvous` adds what the constants of the code give on an idle machine: check-ins every
two seconds for every client, so between two of one client there is one of each other, up to
order; an exchange with the server is done before the next check-in; a punch, sent every 333
ms, is heard before the next check-in. It removes behaviours of `Rendezvous` and adds none
(`TimedIsRendezvous`), so what is proved of `Rendezvous` holds there, and a safety violation
found there is one of `Rendezvous`. It exists to show that the violations are not the fruit of
an odd schedule, and that two friends do meet.

### CoordClient

`me` is the program with its `tcp_c_client`, the TCP connection and the frame on its way;
`disk` the two files of the identity; `flag` is `connection_to_server_active`. The
operators `Retried`, `Reconnected`, `Routine` and `Sent` are `schedule_retry`,
`reconnect`, `do_routine` and `send_frame` with `read_header_then` as functions on the
program's state, so that a handler is a composition of them as in the code. `Tear` is the
end of the program between the writes of C:2137-2142, `Vanish` the end of the server's
host with a request it has acknowledged.

### ClientSessions and KeyWrap

`entry[f]` is `user_connections[f]`: `Absent`, `Null` (the constructor threw) or a place in
memory; `block[s]` is the `udp_server` at a place, or what is left of it with the handlers
that still point there. `book`, `ip_io` and `identity` are the files `username.txt`,
`ip_io` and `user_settings/ECC`. An address is the port a session is to bind, `Closed` for a
number that is no port, and an ip that is `"good"` as the server gives it or `"doubtful"`:
it and the friend's port come from a user or from memory nobody wrote, and may fail to
resolve. The empty file of a new friend is `NoAddress`. POST /update_ip_data (C:1797) reads
it into an empty string and two uninitialised numbers and replaces one: when a port comes
first, the session is made for an empty ip, which resolves to this computer, and the file
lacks its first word (`Headless`). The next edit reads its words one place too early, the
next start finds too few of them. `checkin` is the check-in under way with the ports it
listed.

| Code | Action |
|---|---|
| `generate_or_load_ecc_keys` (C:540-588) at the start of main | `Start`, `TornStart` |
| `load_connections` (C:1941), one directory | `Load`, then `Run` |
| the constructor (C:814), its failures in any of its steps, the memory it is given | `NewSession`, `BuiltOver` |
| `change_target` (C:831) | `Moved`, `MoveSession` |
| `stop` (C:1186) and delete | `Deleted`, in `RemoveFriend` |
| POST /add_friend, /remove_friend, GET /exchange_keys | `AddFriend`, `RemoveFriend`, `ExchangeKeys` |
| POST /update_ip_data: what it reads, what it writes, what it makes of it | `EditAddress`: `Edited`, `Written`, `Targets` |
| a receive completes, with or without an error; `handle_receive` (C:873) | `PacketArrives`, `HandlePacket` |
| a handler queued for a deleted session | `FreedHandler`, `FreedFault` |
| `do_routine`, its answer, `handle_routine_response` match by match | `CheckIn`, `Answer`, `FollowMatch` |
| the program ends, also between removing and writing `username.txt` | `Crash` |

A handler of a deleted object reads freed memory. That is undefined: it finds the memory as
it was, where `stopped` makes it return, or a new `udp_server` in its place, for which a
receive that held a packet starts a second one, or the program ends. A wrapped key
is a record that says whose secret seals it; it opens with the private half that belongs
to the public half it was made for (`OwnerUnwraps`, `OthersDoNot`).

### TextPath

`requests` are the POST /send requests, which arrive in up to two pieces, `files[c]` the
lines of `messages.txt`, `net` the packets with their checksums; `log` records the appends
for the properties.

| Code | Definition |
|---|---|
| `send_message` of the page: JSON.stringify | `Type`, `Escaped` |
| `handle_read` (C:1440): the end of the header, Content-Length, routes by `find` in order | `ReadMore`, `Handle`, `IsWhole`, `Route` |
| the scan of the body (C:1696) | `ReadText` |
| `save_message`, and its end at any line | `Saved`, `SavedInPart` |
| `send_text` (C:1210), `aes_encrypt`, `get_bytes` | `Cut`, `SealedSize`, `Sent` |
| `handle_receive` for a T packet (C:873-962) | `Receive`, `Intact`, `Fits` |
| `make_json_messages`, `make_json_friends` | `Rows`, `Preview` |

### ChatView and Search

The page's functions wait for answers, so each call is asked, served by one handler of the
program and finished by a later step of the page. `shown` is the page's `friend_uuid`,
`selected` the program's `selected_user`, `area` the message rows with those the search
hides, `list` the rows of the list of friends. `crossed` records that two calls that select
(select_user, removeCurrentFriend) have overlapped. `Search` is `liczLevenshteina` as a
recursive function on the cells of the table, and `zastosujFiltr`'s test; `Near` says what
it should find, the words that two edits of one letter make.

| Code | Action |
|---|---|
| the timer of J:667, `readAllMessages`, GET /messages | `Poll`, `ServeRead`, `FinishRead` |
| `loadFriendList`, GET /friend_list | `RefreshList` |
| `select_user`, GET /select_user (C:1617) | `Click`, `ServeSelect`, `FinishSelect` |
| `exchange_keys` and its two delayed calls | `ExchangeKeys`, `TimerFires` |
| `removeCurrentFriend`, POST /remove_friend (C:1674) | `RemoveClicked`, `ServeRemoval`, `FinishRemoval` |
| Enter in the input bar, POST /send | `Send`, `ServeSend` |
| the search field | `Enter`, `ClearQuery` |
| a text arrives (C:910), POST /add_friend | `Arrive`, `AddFriend` |

## 3. What is checked

| Run | Instance | Shows |
|---|---|---|
| `peer_any` | both users start one exchange, a text each, every fault, one duplicate, with and without a prior key | `TypeOK`, `HistoryGenuine` |
| `peer_fifo` | two texts each, losses and crashes | `InOrder`, and that `PeerSession` implements `FriendChannel` |
| `peer_exchange` | one initiator, two exchanges, two texts each of the sizes 463 and 464, no faults, fairness | `KeysAgreeWhenQuiet`, `TextsToInitiatorReadable`, `NoGapForInitiator`, `ExchangeCompletes` |
| `file_any` | two uploads of one name that overlap, two chunks and one, all faults, new keys, two duplicates | `TypeOK`, `PiecesInPlace` |
| `file_turns` | four uploads of one name in turn, one of them empty, no faults, fairness | `SavedWhenQuiet`, `UploadsArrive`, and that `FileTransfer` implements `FriendFiles` |
| `meet_any` | two clients, stops, any timing | `TypeOK`, `AnswerPortsFree` |
| `meet_timed` | three mutual friends, any of them online from the start, usual timing, fairness | `FriendsMeet` (two online), `SettledStays` (three) |
| `coord_any` | every fault, each of them twice, fairness | `TypeOK`, `CheckInsUnderstood`, `IdentityKept`, `OffMeansOff`, `RoutineGoesOn` |
| `sessions_any` | two friends, one of them added and removed, three ports, one edit or crash, fairness | `TypeOK`, `NoOrphan`, `HearsUnlessCut`, `FileFitsSession`, `AnswerFits`, `AnswersOpen`, `EveryFriendHeard`, `RemovedRunsOut` |
| `text_any` | three texts either way, one torn append, lost and damaged packets | `KeptAsTyped`, `TearCostsOne`, `FriendKnowsNoMore`, `RefusedAreLong`, `AnswerMeansSaved` |
| `view_any` | two friends, three clicks, keys or texts, any overlap of calls, fairness | `TypeOK`, `SelectedIsShown`, `BadgeHasTexts`, `VisibleIsNear`, `CatchesUp`; and the distance on short words (`DistanceAssumption`) |

Where the code does not do what the documentation says: `peer_crossing`. The README
(src/README.md:24) has keys exchanged per friend; two exchanges started by both users
cross, and each client adopts the key the other dropped.

The properties of `coord_any` say how far they go: `CheckInsUnderstood` and
`RoutineGoesOn` until the program ends between the writes of C:2137-2142 (with an older
key on disk it then keeps a new uuid with the old key, the server refuses every check-in,
and it never registers again), `RoutineGoesOn` and `OffMeansOff` while every read
returns (the read of C:2296 has no time limit; if the server's host goes down with a
request it has acknowledged, the client waits for ever), `IdentityKept` until the user
switches. Without these conditions TLC refutes each of them.

The properties of the other modules have limits of the same kind. `SelectedIsShown` and
`BadgeHasTexts` hold until two selecting calls overlap: the answers may then be finished in
another order than they were served, and page and program go on with different friends.
`AnswerFits` holds until the user edits a port during a check-in. `FileFitsSession` promises
that the file names no other port than the session has; where an edit has left the file a
word short, or its number is no port, it names none and the next start makes no session or
lets the system choose. `EveryFriendHeard` holds while the program runs and no removal has
failed half way, and for a friend whom the answers go on naming alone. That is a condition
and not a fairness assumption, since the server names him only if he asks as well (S:192):
a friend who still hears the punches of a deaf session counts it as active (C:1397-1412),
does not ask, and nothing mends the session until the program is started again or the
address edited. `KeptAsTyped` allows a backslash
to be doubled (the scan of C:1696 undoes the escape of a quote only), and one at the end of
a text to swallow the quote after it. `AnswerMeansSaved` excepts a text that mentions a
route the program looks for before POST /send: it is answered and lost; and it is about
friends who have not been removed (C:345 does not look whether the file could be opened:
`ServeSend` of `ChatView` answers such a text and loses it).

### Behaviours no property claims away

The models have these behaviours, which the documents do not suggest; PROJECT.json lists
their lines as hazards.

- A text of 464 to 477 bytes encrypts to 496 bytes, though C:1216 says 493 at most, and
  every receiver refuses it; so it does the longer ones that are cut to 477
  (`RefusedAreLong`).
- A torn append costs itself and the entry after it, whose first line the reader takes for
  one of the torn entry (`TearCostsOne`).
- An empty file announces no chunks, sends one and never completes (`More`, `Complete`):
  `FriendFiles` says that it does not arrive, and `SavedWhenQuiet` and `UploadsArrive` leave it out. A second upload to the same friend takes the timer, and with it the first one stops
  (`Upload`). A file whose name is taken gets a suffix (C:1057) only if the earlier one is
  complete; of two under way the later replaces the earlier. A second profile picture does
  get a suffix, and the first goes on being served (`FreePath`).
- The check-ins of two clients that overlap, and two friends matched with one client, may
  give ports that do not face each other, or one port to two friends (`Assigned`); in the
  second case `change_target` throws out of io.run and the program ends (`Opened`).
- A pair of friends may stay half open for ever, as described below.
- `stop` throws on a socket that a failed `change_target` left closed (C:1189), so that such a
  friend cannot be removed (`RemoveFriend`). A key file torn while it is first written keeps
  the program from starting ever again (C:575, `TornStart`). GET /exchange_keys without a
  session ends the program (C:1647).
- A receive that ends with an error is not followed by another (C:878); the session is deaf
  until an answer or an edit moves it (`PacketArrives`). No answer does while its friend
  still hears its punches, which go on: that friend never asks for it.
- An address filled in field by field for a new friend, a port before the ip, makes a session
  at once and leaves a file that is read wrongly by the next edit and by the next start
  (C:1797-1806, `Edited`, `Written`).
- A chat of another friend with as many rows as the one shown is not rendered
  (`CatchesUp`); a count of unread texts survives the removal of the friend; Enter on a
  query of blanks leaves rows hidden (`Enter`).

A client starts while two friends are online. They checked in before it
did and list no ports in use, so the server gives the same two ports for both matches;
the client opens the first and fails to bind the second. The later answers move one side
at a time, each time to ports computed from what the other used before. Once a side hears
any packet at its port it counts the friend as active, no longer asks for it, and there
is no match any more to mend the other side.

### Bounds

- Two peers are the whole of a session. One exchange of each user is enough to cross, two
  of one user to have an older answer overtaken by a newer question. One duplicate
  reaches each kind of packet. The texts' sizes are the two around the largest that fits.
- Two uploads are what one timer and one name can be shared by; two chunks are the
  least with an order and a last one; two duplicates let a header and a chunk, or both
  chunks, be repeated. Four uploads in `file_turns` reach
  suffix 2 with an empty file among them, which leaves a record with a name that the next
  upload finds free again; so does an upload that loses a packet, and `RefinesFriendFiles`
  covers any number of those.
- Three clients are the least in which two matches meet at one; eight ports are more than
  they can use at once, so the answer 0 for "none free" does not occur. `PortsAssumption`
  says how many suffice, two more than any two clients have friends, where the code hands out
  21113; `TwoPorts` proves that they do. In any timing three clients are beyond TLC (more than
  15 million states), so `meet_any` has two and `meet_timed` three; the theorems
  `AnswersSparePorts`, `ConnectionsStay` and `TypeCorrect` of `RendezvousProofs` cover any
  number.
- In `sessions_any` one friend (`Watched`) is added, removed and heard while the other's
  session comes and moves; three ports are one more than two sessions use; `Spare` is the
  one place in memory that is no friend's own, enough for a session made while a deleted one
  still has handlers queued. `MaxReceives` bounds the receives of a session that moves,
  `BuiltOver` those a new session has from the old one in its place, and `MaxUpsets` allows
  one edit, or one end of the program from outside. The first state of a session's file is any that
  edits and answers can have left, a word short or with a number that is no port, so that one
  edit covers an edit after others.
- `text_any` has every text of one or two characters over a letter, a quote and a
  backslash, sizes around the limit (463, 464, 500) and mentions of a route before and one
  after POST /send. Texts after the first are plain, which is enough for a torn entry to
  meet the next one and for that to meet one more.
- `view_any` has chats of one and two texts that can become as long as each other, and the
  poll asks when no other read is under way (`MaxReads`); three events are enough for two
  selecting calls and a text, or for a removal, an addition and a text.
- Each fault of `coord_any` twice lets a registration be lost, made anew, switched off and
  on, made anew once more and followed by a restart of either program.

`MaxDups`, `MaxTexts`, `MaxExchanges`, `LastPort`, `MaxFaults`, `MaxUpsets`, `MaxReceives`,
`MaxTears`, `MaxReads` and `MaxEvents` are bounds of the model; all but `LastPort` cap a
counter in a guard. CHECK_DEADLOCK is off where the system may stop: files may all have
been sent, all texts have arrived, all clients be connected and idle, a torn key file keeps
the program from starting, and a client waiting for a vanished server does wait for ever.

### Fairness

Weak fairness of a handler means that the `io_context` runs what is ready; nothing else is
assumed. `PeerSession!FairSpec`: a packet that has arrived is handled. `FileTransfer`: the
timer expires, queued handlers run, packets are received. `Rendezvous`: the routine of every
client, the server's handlers and punches go on, and a client that ended is started again;
`TimedRendezvous` has no starts and takes the rest for its own steps. `CoordClient`: what
client and server can do next they do, connections come to a result. `ClientSessions`: the
loop over the matches of an answer goes on; strong fairness has its one use there: a queued
handler runs, though not while that loop is under way (`FreedHandler`). That check-ins are
answered, and whom an answer names, is not assumed but a condition within `EveryFriendHeard`. `ChatView`: the poll goes on, what is asked is served and finished, timers
fire, the list is refreshed. No fairness is given to users, losses or restarts, and
`RoutineGoesOn` and `FriendsMeet` only speak of behaviours in which these end in a running
system. `FriendsMeet` asks that the two be alone from the start: two who are left after a third
client's program has ended may be half open for ever.

## 4. What is proved

Every invariant and every safety property that a run checks is a theorem, from the named
assumptions on the constants and for any bounds. What is left to TLC alone is liveness. The
theorems reach further than the runs: `ConnectionsStay` has restarts and any timing where
`meet_timed` has neither, and `RefinesFriendFiles` has losses and restarts where `file_turns`,
which checks liveness too, has none.

| Theorem | Property | Argument |
|---|---|---|
| **PeerSessionProofs** | | |
| `TypeCorrect` | `TypeOK` | inductive by itself |
| `HistoryIsGenuine` | `HistoryGenuine`, all faults | `GenuineInv` adds that every text on its way is in its writer's history; histories only grow |
| `KeysAgree` | `KeysAgreeWhenQuiet`, one initiator, no faults | `ExchangeInv(i)`: public keys travel one way and answers the other, the answerer holds the newest key, and so does the initiator unless the last answer on its way brings it |
| `TextsReadable` | `TextsToInitiatorReadable`, one initiator, no faults | `StreamInv(i)` with `ExchangeInv(i)`: what is on its way to the initiator falls into stretches, each written under the key that the answer before it brings |
| `NoGaps` | `NoGapForInitiator`, one initiator, no faults | `GapInv(i)`: what is read and on its way has, after its first text, all that the friend wrote and that fits; a text is lost to a wrong key only before the first one is read, by `StreamInv(i)` |
| `TextsInOrder` | `InOrder`, losses and crashes | `OrderInv`: some number separates what has been read from what is on its way, which is ascending |
| `RefinesFriendChannel` | `ImplementsFriendChannel`, losses and crashes | `ChannelInv` and `OrderInv`: every text on its way is one its writer said, at the place of its number; so each step says a text, hears a later one than any before, hears something garbled, or changes nothing of the channel |
| **FileTransferProofs** | | |
| `TypeCorrect` | `TypeOK`, all faults | `FileInv`; what is assembled is a sequence because some chunk is the first one missing |
| `FilesInPlace`, `FilesSavedWhole` | `PiecesInPlace`, all faults and new keys, identifiers drawn once; `SavedWhole`, without new keys | `SavedInv`: what is armed, queued, sent and collected is a part of the file whose identifier it bears; a record with as many chunks as announced has exactly the places 0..n-1, by cardinality |
| `FilesNotReplaced` | `NothingOverwritten`, which `ImplementsFriendFiles` implies in the run, here with new keys too; uploads in turn, nothing repeated or reordered, identifiers drawn once; losses and restarts allowed | `FreshInv`: a header reserves nothing on the path it found free, so between it and the last chunk of its upload no packet of another upload may come (`InTurn`); a record whose path has been taken meanwhile gets no chunk any more (`TakenIsOver`) |
| `RefinesFriendFiles` | `ImplementsFriendFiles`; uploads in turn, losses and restarts, identifiers drawn once | `PromiseInv`: to `FreshInv` and `SavedInv` it adds that a file on the disk is finished, so that nothing of it is left to complete it a second time (`Once`), and that a record has the first number its name had left and keeps it, as no path becomes free (`NoGap`); so the last chunk, the only step that writes, is an arrival |
| `QuietIsSaved` | `SavedWhenQuiet`; uploads in turn, no faults, identifiers drawn once | `QuietInv`: no record is full, for it would have been written (`Unfinished`); of an upload that is not on the disk every chunk is in its record, on its way or still in the hands of the timer, with its header ahead (`Travelling`); so when timer and network are empty its record is full, and there is none |
| **RendezvousProofs** | | |
| `TypeCorrect` | `TypeOK`, any clients and timing | `TableInv`, client by client; what `AllOpened` makes of a list of answers by induction over the list |
| `PortsCross` | | two answers from the same lists give ports that face each other: the violations come from the lists, not from the assignment |
| `TwoPorts` | | the lists are no longer than there are friends, so two of the ports are free, and a match gets two different ones |
| `AnswersSparePorts` | `AnswerPortsFree`, any clients and timing | `PortsInv`: the ports a question lists still cover those in use, as only its answer or a stop changes them |
| `ConnectionsStay` | `SettledStays`, any clients and timing, nobody falls silent | `EndStays`, for one end of the connection and step by step: a friend who is active is not asked for, an answer names only friends who were, and a friend whose punches reach the port does not fall silent |
| `TimedIsRendezvous`, `TimedConnectionsStay` | `SettledStays` in the usual timing | every timed step is a step of `Rendezvous` |
| **CoordClientProofs** | | |
| `CheckInsAreUnderstood` | `CheckInsUnderstood`, all faults | `MatchedInv`: uuid and key belong together in memory, on disk and in the frame on its way, as long as no registration has been torn; faults are counted and never forgotten |
| `IdentityIsKept` | `IdentityKept`, all faults | `KeptInv`: a client with an identity on disk counts as registered and has no registration under way |
| `ChainGoesOn` | `TypeOK`, all faults | inductive by itself; `HelpersRun`: whatever state a helper is given, an operation is under way after it, with an open socket if it reads |
| **ClientSessionsProofs** | | |
| `Typed`, `NoOrphans`, `ChainUnbroken`, `FileIsCurrent`, `PortsReported`, `KeysOpen` | the six invariants, any friends, ports and upsets | one invariant `Inv` for all of them: `Memory` (entries and objects correspond, a file names its session's port or none), `Phases` (what may exist while the program is down or loading), `AnswerFits` and `Answers` (the key file does not change while a wrapped key is on its way, by `OwnerUnwraps`) |
| **TextPathProofs** | | |
| `ReadBack` | | for any text, the scan of C:1696 run over what the page sends gives the text back, backslashes doubled, and swallows the end of the body only after a backslash at the end: by induction over the characters |
| `KeepsAsTyped`, `TearsCostOne`, `FriendNeverKnowsMore`, `OnlyLongRefused`, `AnswersMeanSaved` | the five invariants, any number of texts, any number of torn appends | one invariant `IInv`: it adds what requests, packets and appends carry (`KnownTexts`, `NetFrom`), that an append belongs to one request (`SavedOnce`), and what the reader makes of a file after each append (`AllShown`): it is between two entries, or the last one was torn and the next is lost to it |
| **ChatViewProofs** | | |
| `DistanceCountsEdits` | | for all words over any letters, `liczLevenshteina` is at most 2 exactly when two edits lead from one word to the other. Neighbouring cells of the table differ by at most one (`GridSmooth`), so an edit changes the distance by at most one; the other way, a path back through the table spells the edits out |
| `Typed`, `ShownIsSelected`, `BadgesHaveTexts` | `TypeOK`, `SelectedIsShown`, `BadgeHasTexts`, any friends, texts and calls | until two selecting calls overlap there is at most one (`OneCall`), a served one is what the program holds selected (`ServedIsSelected`), and at rest the page shows it or nobody (`AtRest`); so a friend removed is the one selected, whose count is 0 |
| `VisibleRows` | `VisibleIsNear`, any texts, queries and calls | `HiddenByQuery`: the rows hidden are those the filter hides for the query; with `DistanceCountsEdits` they are the rows without a near word |

The assumptions are what the code gives: two peers; finitely many clients, ordered by their
uuids; enough ports (section 3); texts and queries that are sequences of characters; bounds
that are naturals. The faults a theorem excludes are needed. `peer_crossing` has two initiators
and keys that disagree, with losses the initiator may miss an answer, and with duplicates a
text is heard twice. A chunk sealed with another key may come out garbled. With repeated or
with reordered packets TLC finds a file overwritten; with losses an upload may stay unfinished,
and with an exchange of keys arrive garbled. A friend who falls silent for two seconds
is asked for and the connection moved, whatever the friend still hears.

The provers cannot use the induction theorems of the library, which take a predicate as a
parameter. Where an argument goes by induction over data (the scan of a text, the reader of a
file, the flattening of lists, the diagonals of the table of distances) the proof names the set
of the numbers for which the claim holds and shows with `EveryNatural` that it is all of the
naturals; `EveryNatural` comes from the well-foundedness of `<`. A recursive function has the
values its equations give once some function is shown to satisfy them (for the table of
distances `TableExists`: all cells filled at once, over and over, settle one diagonal after the
other).

Only model-checked: the eight liveness properties, since fairness and ENABLED are beyond the
provers: `ExchangeCompletes`, `UploadsArrive`, `FriendsMeet`, `OffMeansOff`,
`RoutineGoesOn`, `EveryFriendHeard`, `RemovedRunsOut`, `CatchesUp`.

## 5. Not modelled, and what is left

Left out of the modelled parts: pictures in texts (img_exists, forceRefresh), the tag that
an upload sends as a text (J:138-165), answers of the list of friends that overtake each
other, modals and sounds; the user's own name (POST /upload/name); routes that only send a
file; `html_escape`; the limits on the size of a request to the server, and answers to a
registration that are short or do not decrypt, which this server does not send; the copy of a
profile picture the sender keeps; an end of the program within the write of a finished file
(C:1124-1134), which leaves it cut short; a text for a friend whose directory is gone, in
`TextPath` (it is in `ChatView`); a port taken by another program; control characters in a
text; values of an address that are more than one word; the second chain of punches that a
handler of a deleted session starts in a new one.

Left out for good: the arithmetic of CRC32, the ciphers and the order of bytes in packets
(no state; what is used of them is that a checksum differs when the data do, the sizes
they make, and which keys open what), HTML and styles, the earlier hand-in
`_wersja_przeslanie`, `development/`, the commented out `c_tcp_client.hpp`, the server's
client header (commented out), dead code (`resend_file`, C:1345; `sync_send`).

Left to do, in this order:

1. Safety facts behind `OffMeansOff` and `RoutineGoesOn` that could be proved without
   fairness, as `QuietIsSaved` is one behind `UploadsArrive`: that the chain of operations
   only moves towards its end.
2. `ClientSessions` composed with `Rendezvous`, to show as a run that a deaf session whose
   friend still hears it is never mended, which now follows from reading both.
3. Uploads and pictures of the page.
