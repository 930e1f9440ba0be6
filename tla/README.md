# A verification project for Intern-Status-Update

The repository is a collection of programs written during an internship:
network servers in C with their browser clients, and textbook exercises. This
directory holds TLA+ models of the parts with state worth checking, TLC
configurations for small instances and TLAPS proofs for all instances. Lines
cited as `server.c 372` are lines of the file named in the section.

## 1. The system's parts

| part (under `src/`) | state it keeps | operations | talks to |
|---|---|---|---|
| `TicTacToe/Server` | table `matches[1000]`, `match_id`, the heap of `Match`es, a `Client` for each socket | accept, handshake, CREATE_MATCH, JOIN_MATCH, MOVE, Close, disconnect | pages, by WebSocket frames |
| `TicTacToe/Client` | `player`, `match_id`, which buttons and cells are enabled, the cells' text | clicks, `onmessage`, `onclose` | the server |
| `TicTacToe/Server/server.c` `evaluate_board` | none | evaluates a board | called by MOVE |
| `*/frame.c`, `*/message.c`, `websocket.c` | none | frame and message parsing and building | called by the servers |
| `Chat System/Server` | table of users (`hashmap.c`), a `Client` for each socket | accept and handshake, register, relay, broadcast, Close, disconnect | chat pages |
| `Chat System/Client` | conversations, known users | send, receive | chat server |
| `HTTP Proxy Server` (epoll) | connections with reference counts, response cache | accept, parse, authorise, connect, relay, cache, clean up | browsers and upstream servers |
| `HTTP Proxy Server` (threads) | two sockets for each thread | tunnel, plain request | the same |
| `HTTP Proxy Effecient` | connections, cache | the same, with the request read later | the same |
| `Mini Project *` | table of clients, counters, a mutex | thread for each client: register, echo, exit | echo clients |
| `23-1-26`, `22-1-26` | descriptor sets, `nfds`, poll array | accept, relay, drop | terminal clients |
| `16-1-26` | circular free list | `malloc`, `free`, `calloc`, `bfree` | callers |
| `14-1-26` | table of open files, buffers | `fopen`, `getc`, `putc`, `fflush`, `fseek` | callers |
| `Extensions` | Focus Mode's on/off badge | clicks | the browser |
| the other dated directories | none | pure functions, or read-print loops | standard input and output |

What is hard in them:

* **Tic-tac-toe.** The server never checks whose turn it is, whether a square
  is free, or who sent a MOVE. What keeps a game legal is that each frame
  enables exactly one page. The board exists three times. `Match` records are
  freed while two `Client`s keep pointers to them; `accept()` reuses the
  descriptor numbers that waiting matches remember; players leave at any moment
  and in several ways; one `recv()` may swallow two frames; a `send()` in the
  middle of a handler may fail, or kill the process.
* **Chat.** The table owns `Client`s that epoll also points to; a user name that
  is taken frees somebody else's `Client`; the loop always uses `event[0]`.
* **Proxies.** Two sockets share a `Connection` with a reference count, and
  either may be cleaned up while events for the other are still in the batch;
  descriptor numbers are reused while a survivor still holds them; the first
  version reads a request and a whole answer with blocking calls in its only
  thread; the second fills its cache chunk by chunk; a tunnel's two threads must
  end each other without closing each other's descriptors.
* **Echo servers.** One thread for each client, two critical sections for one
  answer, one row for all sessions of an address, whose second session closes
  the descriptor of the first under its thread.
* **select/poll servers.** `nfds` and the array change while they are scanned.
* **Allocator, stdio, tables, trees.** Long sequences of legal calls, one of
  whose writes or reads fails, and characters pushed back.

## 2. The modules

| module | models |
|---|---|
| `Board` | boards, lines, `evaluate_board`, the end of a match |
| `Game` | the abstract specification: what one match promises its players |
| `Sockets` | TCP connections between pages and a server, as the socket calls see them (external) |
| `TicTacToePage` | `scripts.js` and `index.html`: one action for each event handler |
| `TicTacToeServer` | `server.c`: one action for each way through the epoll loop's body |
| `TicTacToe` | the composition, its invariants, action and liveness properties, the refinement of `Game` |
| `MCTicTacToe` | instances for TLC: the real board and two tiny ones |
| `TicTacToe_proofs` | proofs about the board, the types and the table of matches; what it is for a match to be in order, and that the pages, the network and the handlers up to the start of a match keep it so |
| `TicTacToeMatches_proofs` | the same for moves and departures; one turn, agreeing boards and seats, and that each match is a `Game`; no fault while nobody leaves |
| `ChatRoom` | the abstract specification of the chat: names, holders, mail |
| `ChatPage` | the chat's `scripts.js` and `index.html` |
| `Chat` | the chat's `server.c`, `client.c`, `hashmap.c` and `message.c`, composed with its pages; properties and the refinement of `ChatRoom` |
| `MCChat` | instances of `Chat` for TLC |
| `ProxyParts` | what the proxies compute: `request.c`, `proxy-auth.c`, `hashmap.c`, `http_request.c` |
| `ProxyNet` | sockets, descriptor numbers, browsers and upstreams (external), and `Connection` and `Data` with `cleanup_connection` |
| `EpollProxy`, `EfficientProxy` | the two epoll loops, each with its properties |
| `Tcp` | blocking socket calls and the peers (external), for the modules below |
| `ThreadedProxy` | `threadedproxyserver.c`, with browsers that do what `http_request.c` does |
| `EchoServer`, `TlsEchoServer`, `AesEchoServer` | the three mini projects: server, client, `datapack.h`, `security.h` |
| `SelectServer`, `PollServer` | `selectserver.c` and `pollserver.c`, with their clients |
| `Servers` | one run of one of the last six programs |
| `Allocator`, `Stdio`, `SymbolTable`, `WordTree` | `8-8.c`; `8-4.c`; `6-5.c` and `6-6.c`; `6-2.c`, `6-3.c` and `6-4.c` |
| `Library` | one run of one of the last four |
| `MCEpollProxy`, `MCEfficientProxy`, `MCServers`, `MCLibrary` | instances for TLC |
| `Chat_proofs` | proofs of the chat's invariants, and that it implements `ChatRoom` |
| `ProxyNet_proofs` | lemmas about sockets, descriptors, pairs and batches, for the next two |
| `EpollProxy_proofs`, `EfficientProxy_proofs` | proofs about the two epoll loops |
| `Servers_proofs` | proofs about the threaded proxy and the echo servers: numbers and counts |
| `Library_proofs` | proofs about the streams, the table of definitions and the allocator's blocks |

**`TicTacToeServer`.** `matches`, `match_id`, `heap` and `client` are the
table, the counter, the allocated `Match`es by address and the `Client`s by
descriptor. `Accept`, `Handshake`, `create_match`, `join_match`, `move`,
`close_frame` and `PeerGone` are the branches of the loop in `main`;
`undefined_behaviour` is what remains: MOVE or Close through a freed pointer,
MOVE through NULL, and a message without the members that `parse_json_string`
looks for. The last two end the process. Through a freed pointer
(`stale_match`) the handler reads its receivers and its slot from memory that
may hold anything: a frame may go to any descriptor, any slot of the table may be
emptied, the handler may take the match for decided or not, and the second
`free` may abort or make the allocator give one address to two matches
(`Allocatable`). Sends are not atomic successes: a handler folds over a `Trace`, each
`send` may succeed, fail or raise SIGPIPE, and the handler stops where the code
stops (`ThenSend`). `fault` and `outcome` are history variables: the worst that has happened (`"stray"`: a
frame went to a descriptor that now belongs to somebody else; `"alias"`: a
handler followed a pointer to a match that was allocated later at the same address;
`"undefined"`: undefined behaviour), and how each match was first decided. In a
client record `meant` and `seat` are history too: the match and seat for which
`currentMatch` was set, so that the model can tell a pointer that aliases a
newer match from one that is sound.

**`TicTacToePage`.** A page has the script's globals, whether the buttons
(`lobby`) and the blank cells (`turn`) are enabled, and the text of the cells.
Leaving takes three forms: a Close frame and then the end of the stream, the end
of the stream alone, or a reset.

**`Sockets`.** A connection moves through `syn`, `up`, `fin` or `rst` (the page
left first), or `down` and `gone` (the server closed first). `recv()` returns
any nonempty prefix of what has arrived, and the code parses one frame of it:
what else came in the same `recv()` is lost, and the model loses it.

**`Game`** is implemented by `TicTacToe`, one instance for each match id, under
the mapping `PhaseOf` (from `matches`, `heap`, `fault`), the heap's board and
`outcome`. Its `Undefined` step is the only abstraction of what happens after
undefined behaviour or a misdirected frame.

**`Chat`.** `Table` is the hash table as a function from names to `Client`s,
`heap` the `Client`s by address and `watch` the pointer that epoll keeps for each
page's socket. A batch of events is what makes this server hard: `epoll_wait`
fixes the flags of all ready sockets (`events`) and, because the loop reads
`event->data.ptr` and not `event[i].data.ptr` (line 260), the one pointer
(`first`) with which every event of the batch is served. So a second event may
read from the first's socket, where nothing is left (and then `recv()` fails and
the connection is closed: `disconnected`), or find the first's `Client` freed
(`undefined_behaviour`). `accept` is followed by a `recv()` that blocks the only
thread until the request comes: `accepting` is the page it waits for. `register`
frees another user's `Client` when the name is taken, because
`close_connection` calls `removeKey` with that name; from then on epoll keeps a
pointer to freed memory, or to a `Client` allocated later at the same address,
and the model follows it there. A client that leaves before it has registered
kills the process (`hash(NULL)`, `Crash`). `fault` and `clash` are history: the
server executed undefined behaviour, and somebody asked for a name in use.

**`ChatRoom`** is implemented by `Chat`: a name's holder is the page of its
`Client` (`Holders`), a page's mail is the text frames under way to it (`Mail`:
only the first frame of a queue can be the answer to the upgrade, so that
dropping it leaves the texts), and after a fault or the server's death the room is
undefined and promises nothing.

**`ProxyNet`, `EpollProxy`, `EfficientProxy`.** Connection `i` is the i-th
browser; `<<i, "client">>` and `<<i, "server">>` name its sockets and the `Data`
of each, `fdt` maps descriptor numbers to sockets, and `accept()` and `socket()`
take the lowest free one. `conn` and `data` are the heap, `batch` what is left of
the events of one `epoll_wait`, `Table` the cache with its chains. In the first
version a browser is served to the end where it is accepted: `Accept`,
`ReadRequest`, then one of `Refuse`, `Malformed`, `NoUpstream`, `Tunnel`,
`Fetch`, `Forward`, `FromCache`, and for a GET to be cached `ReadAnswer` until
the upstream closes and `StoreAnswer`. In the second the request is one `recv()`
of a later event, and every chunk relayed for a GET is stored (`Stored`). `send()`
succeeds, would block, fails or raises SIGPIPE. Both look for header lines with
`strstr` in a buffer that is never cleared: with a request in two parts they may
find what an earlier one left (`dirty`, `Verdicts`). Only what was received whole
is judged by what it says: credentials that are missing, cut or `Garbled` (no base64,
or no colon in them) are refused, are judged by old bytes, or send `validate()`
past its array, which may end the process (`Garbles`). A key of the
cache is the three strings one behind the other, as `getKeyfromRequest` makes it.

**`Tcp` and the servers on it.** `net` has the sockets, the descriptor table and
the backlog. Calls resolve their number in the table, so that a stale number may
name a stranger; a call that is already blocked stays with its socket. Each
thread is a `pc`, a critical section is one step, and everything between two
system calls on shared state may be interleaved. `Servers` chooses one program
and leaves the variables of the others alone.

**`Library`.** The allocator counts addresses in headers and has the circular
list as `ptr` and `size` of each address; `held` and `freed` are the caller's.
`Stdio` has one file, the streams that are open on it (`my_fclose` leaks one when
its write fails) and writes that stop at any length; `want` and `place` are the
file and the place as the calls define them. `WordTree` reads characters with
`getch`, `ungetch` and a line counter, as the programs do, and computes the
expected listing from the positions of words in the text.

## 3. What TLC checks

Every run allows the stops the system really has: all pages gone and the
process dead, or the bounds reached. That is why no run checks for deadlock;
the liveness properties take its place.

| run | question | instance |
|---|---|---|
| `ttt_match` | Is every match a `Game`, with one turn, agreeing boards and agreeing seats, whatever leaves and whatever is lost? | two pages, two matches one after the other or side by side, two addresses, a board of two squares whose first square is a line: X wins at once, or O with the last square; 215 thousand states |
| `ttt_memory` | Do table and heap agree until a handler uses freed memory, whatever went astray before? | three matches on one address and a table of two slots, so that addresses are reused and the last id is past the table; 483 thousand states |
| `ttt_live` | Are connections, requests, turns, verdicts and departures answered? | one match on one square, upgrade requests cut in two or not upgrades at all; 46 thousand states |
| `ttt_real` | Is the real board evaluated rightly in every game that can be played? | the nine squares and eight lines; nobody leaves; 110 thousand states |
| `chat_room` | Do names, `Client`s and sockets agree, and do messages reach only whom they are for? | three pages, two names, three connections, one message, requests whole, cut or plain; 459 thousand states |
| `chat_live` | Does every page get its name or its close, and does the server let go of pages that left? | two pages, two names, two connections, one message, whole requests; 45 thousand states |
| `chat_broken` | Is the connection that the "socket is broken" branch closes broken? | two pages, no messages; violated |
| `ttt_disconnect` | Does a page learn that its opponent's connection broke? | the instance of `ttt_match` with one match; violated |

| `epoll_proxy` | Is the memory behind a batch live, are pairs counted and answers cached whole, and who can stall the thread? | two browsers, nine pairs of requests (tunnel, cached, binary, cut, refused, garbled, malformed, keep-alive), one bucket, descriptors 1 to 7; 113 thousand states |
| `efficient_proxy` | The same of the second version, whose cache keeps the last chunk | two browsers, five pairs of requests; 174 thousand states |
| `servers` | Do threads own their descriptors, do counts agree, and which clients can wait for ever? | up to three clients for one of six programs; 229 thousand states |
| `library` | Do blocks stay a partition, bytes in their place, definitions found and listings exact? | eleven headers; a buffer of two bytes and a file of three; two chains; all 3,906 texts up to five characters for 6-3 and 6-4 and 2,801 up to four, with three longer ones, for 6-2; 176 thousand states |

Properties:

* `OneTurn`: in a match in play exactly one of these exists: an enabled page, a
  MOVE on its way in either direction, an INIT_BOARD on its way to X.
* `ViewsAgree`: each page's cells and the server's board differ by exactly the
  moves under way.
* `SeatsAgree`: page and server agree on mark and match id.
* `EveryMatchIsAGame`: the refinement of `Game`.
* `RegistryMirrorsHeap`: `matches` never points to freed memory and never loses
  a match that has a slot; ids are handed out once. This holds also after
  misdirected frames and after handlers that followed a pointer into a newer match; after
  the first use of freed memory, or a store past the table, nothing is promised.
* `OpenWhilePlayed`, `MoverWins`: a match in play has no complete line, a blank
  square and balanced marks; the winner announced is the player who just moved;
  a draw fills the board and completes no line.
* `FaultsNeedDepartures`: while nobody leaves and the loser does not click
  between the winning MOVE and its GAME_OVER, no dangling pointer is followed,
  no frame is misdirected and the process does not die.
* `ConnectionsResolve`, `DepartedAreForgotten`, `RequestsAnswered`,
  `TurnArrives`, `VerdictReachesBoth`: liveness, the first three until the server has
  run into undefined behaviour, the last two until something has gone astray at all, and
  for the players whose connections last.
* `UsersAreConnected`: a name in the chat's table leads to a live, active
  `Client` of that name that still owns its socket, also after clashes and
  address reuse.
* `ClientsMirrorSockets`: while no name was asked for twice, epoll's pointers and
  the live `Client`s correspond one to one.
* `EveryChatIsARoom`: the refinement of `ChatRoom`.
* `RegistrationResolves` and the chat's `DepartedAreForgotten`: liveness, until the
  server runs on undefined behaviour (`RunsOnUndefined`). They promise nothing after a
  clash of names has freed a `Client` that epoll still watches: what the server does
  at its next event is undefined.
* `BatchIsLive` (both proxies): no event still in the batch refers to freed
  memory or to a descriptor that was closed or given away meanwhile.
* `PairsAreCounted`: `refs` counts the `Data` of a `Connection`, and each owns the
  descriptor in its `fd`.
* `CacheHoldsWholeAnswers`: every cached value is a whole answer to a request
  with its key, cut at a NUL by `strdup`; `put()` never meets its replacing branch,
  which would keep the old length.
* `StrangersOnlyAfterClose`: bytes reach another pair's socket only from a survivor
  whose partner's number was closed and reused. They do reach it then.
* `OnlySilenceStalls`: the thread serves everything, or it waits in a blocking
  `recv()` for one silent peer, or SIGPIPE or a NULL node killed it.
* `CacheKeepsKeysApart`, `EventsAreServed`: the second version's cache keeps one
  chunk under its own key and length; no client stalls its thread.
* `ThreadsOwnDescriptors`, `OnlyOpenEndsHoldThreads`: a proxy thread's numbers name
  its own sockets, and one that does not end waits for an end that is open and was
  told, or was not asked to close.
* `CountsAgree`, `StrangersNeedSecondSession`: while no session goes on
  with another's row, each echo client is told its own count and a total in range, and no thread
  uses another client's socket; the total always is the sum of the rows.
* `SelectServes`, `PollServes`: in `select()` only a client hidden by
  `nfds = clientfd + 1` waits for ever; in `poll()` only a newcomer with an old
  `revents` that says nothing blocks the others.
* `BlocksArePartition`: free and held blocks are disjoint, the list is in order and
  coalesced, freed memory can be given again.
* `BytesKeepTheirPlace`: what was written is in the file or the buffer, once and
  in its place; what is buffered for reading is what the file has there.
* `TableHoldsDefinitions`: lookups give what was installed last and not undefined.
* `ListingIsExact`: the words that the first lines of the programs ask for, and none
  that the text does not have outside strings (and for 6-2 comments, directives and
  keywords), once, in order, with counts and lines. Of the words that those
  lines do not ask for, and which the programs print all the same, it does not say
  whether they are listed: see the findings.

**Bounds.** Two pages are enough for every interaction of one match with
another page's traffic, because a page that leaves may come back as a new
connection and take a descriptor, an address or a seat that the old one left.
`MaxCreates` bounds the CREATE_MATCH requests of a behaviour, `MaxIds` the ids,
`MaxMatches` the table, which in `ttt_memory` is smaller than the number of
requests. `ttt_match` expands only states without a fault (`Sound`), and `ttt_live` and
`ttt_memory` only states without undefined behaviour (`Defined`): after one
their properties promise nothing, so that no behaviour that could violate them is cut. Pages and addresses are symmetric in the runs
without liveness properties; descriptors are not, because `accept()` returns the
lowest.

In the chat, three pages let two talk while a third has no name yet, asks for one
that is in use, or takes the place of one that left; two names let pages clash and
differ. No broadcast of the run has two addressees, since it has no third
name: that each of many gets its copy is part of the theorem `ChatIsARoom`, for any
number of names. `MaxConnects`
bounds the connections and `MaxSends` the messages of a behaviour; `Addrs` has
one address for each connection, because a `Client` may leak.

Two browsers are enough for the proxies: the second takes the numbers, the
memory and the cache entries that the first leaves, and a third would do what
the second does. `MaxFd` has a number for every socket that can be open or leaked.
`MCAsked` and the visits of `MCServers` are cases, not all combinations: a tunnel
and a URL that does not parse, a cut GET, an upstream that keeps alive; echo
clients with one address or two, and one or two messages. Three clients are the fewest
that `select()`'s `nfds` can hide with one number freed below. Eleven headers
leave room for several blocks with gaps and for `sbrk()` to fail; a buffer of two
bytes is the smallest whose end, middle and refill differ.

**Fairness.** In tic-tac-toe, each descriptor's handler and each pending accept is weakly fair:
epoll is level-triggered and handlers do not block, every socket being
non-blocking. Each page's delivery of frames and of the close event is weakly
fair. Clicks, connecting and leaving are not: players owe nothing. The chat
server is one weakly fair thread, and `chat_live` lets every connection bring its
whole request: a silent one stops the server for everybody (line 283), and one
that is cut leaves its socket open for ever (line 291). The messages of a
behaviour are finitely many, so that a page that is never first in a batch is
not postponed for ever. In the epoll proxies the one thread is weakly fair, and an
upstream that was told `Connection: close` answers and closes; browsers owe
nothing. In `Servers` each thread is weakly fair by itself, as the kernel
schedules it, and upstreams that were asked to close do.

**Findings.** In the chat, `server.c 266` says "socket is broken" of the
connection it closes; a healthy page that is first in a batch is closed when the
second has broken, and the broken one stays (`chat_broken`). In tic-tac-toe,
`server.c 177` says "Opponent wins by disconnect", but only a Close
frame leads there. When the connection breaks (262-267, 332-336) the opponent is
told nothing and waits for a move that cannot come.

Two programs do not do what their first lines say. `6-3.c 2` asks to "Remove noise
words like ``the,''": the program has no list of them and prints every word (193-198).
`6-2.c 1-3` asks for "each group of variable names that are identical in the first 6
characters, but different somewhere thereafter": the program prints every name, also
one that no other shares its prefix with, and only puts an empty line between
prefixes (237-246). The model has what the code does; the smallest texts that show it
are one noise word and one name.

Met while modelling, and inside the models rather than separate runs: when
GAME_OVER cannot be sent to X, O is not told either and the match is never freed
(440-490); joining a match whose creator has left gives O no INIT_BOARD
(393-400); the loser's cells are enabled between the winning MOVE and the
GAME_OVER, and a click there follows a freed pointer (`scripts.js` 106-131); a
waiting match keeps the descriptor of a creator that has left, and a new page
may get that number; `match_id` is not compared with the table's size; SIGPIPE
is not ignored.

In the other programs, where a property says what the code does and names the
exception: a GET that does not say close makes the first proxy dereference a node
that is not there (`Fetch`), and a survivor of a pair may write to a stranger; the
second proxy never frees the `Data` of a refused upstream (`proxy.c` 176, 203); the
threaded proxy leaves both sockets of a plain request open (289-294); the echo
server closes an old session's descriptor under its thread (77-78);
`selectserver.c 85` hides higher descriptors; `pollserver.c 93` scans a new entry
with an old `revents`; `8-8.c 42` loses a block whose request was just below
`MAXALLOC`, and 47 does not recognise a freed block that was joined; `8-4.c 265`
counts SEEK_CUR from the descriptor's place, and `my_putc` after `my_fflush`
and before the first byte writes through NULL; `6-2.c 177` loses the character
behind a `/` that begins no comment.

## 4. What TLAPS proves

Every theorem holds for all values of the constants that the named ASSUMEs admit:
any number of pages, browsers, clients, names, addresses and descriptors. TLC
evaluates the assumptions in the runs. In each module one theorem says that an
inductive invariant holds, and the properties follow from it. TLC checked each
invariant on the run's instance before it was proved; several first versions
failed there, or in the proof, and were strengthened to what is described below.

**Tic-tac-toe** (`TicTacToe_proofs`): `TypeCorrect` (`TypeOK`), `RegistryIsSound`
(`RegistryMirrorsHeap`), and `EvaluateBoardFirst`: `evaluate_board` returns a mark
exactly when the first complete line is that mark's, and `"*"` exactly when no line
is complete, for any board and any lines.
The invariant `IInv` is the conjunction of the first two, and neither half is
inductive alone. After undefined behaviour the types are all that is left of it. JOIN_MATCH writes through `matches[idx]`: that the record it
writes is a complete match, and not freed memory, is `SlotsAreAllocated`, while
the arguments about the table need the types of ids and addresses. The proof has
one lemma for each handler and each half; the table's half rests on four lemmas
for the four kinds of step that touch it (a match created, overwritten in place,
freed, and the death of the process).

`TicTacToeMatches_proofs`: `MatchesInOrder` is the theorem that everything else about
the game follows from, `Spec => [](IInv /\ GInv /\ Gone)`. `GInv` is
`Calm => Wired /\ Orderly`: while the process lives and no frame has gone astray and no
freed pointer has been followed,

- `Wired`: an open descriptor is one page's, a page that has not shaken hands is as it
  was loaded, and a page is either in its lobby, has asked for a match, is about to get
  its lobby back, or plays (`Convo`): so a click on Create or Join finds nothing else
  under way, and CREATE_MATCH or JOIN_MATCH is the last thing that `parse_frame`
  could lose frames behind. A client that owns a match sits on the seat that
  the record names (`Pointers`).
- `Orderly`: for each record, `moves` counts the marks, X is level or one ahead, and
  the record is decided only when nobody could be told (`RecordOK`). Each player
  that still has its pointer is `Engaged`: its queues hold at most one move, its own,
  and the frame that gives it a turn is the last. While both connections work the
  three boards differ by the move under way, and only the side to move has the
  turn (`Agrees`); if both pages are still there, one of them has it.

The last point is why neither half stands alone: the server accepts any MOVE, so that
moves alternate follows from what the pages have been told, and that they have been
told the right thing follows from where the server thought the move came from.
`Gone` says that a process that has died holds no descriptor. One lemma for each
page event, network event and handler shows that it keeps `Wired` and `Orderly`
(`PageStep`, `AcceptKeeps`, `HandshakeKeeps`, `CreateKeeps`, `JoinKeeps`, `MoveKeeps`,
`CloseFrameKeeps`, ...). From it follow

- `TurnIsUnique` (`OneTurn`), `ViewsMatch` (`ViewsAgree`), `SeatsMatch` (`SeatsAgree`);
- `ServerPlaysGames`, `Spec => EveryMatchIsAGame`: each match refines `Game`. Init maps
  to the Game's initial state, and `EachGame` shows for each handler that every
  match's Game makes one of its steps or none: a MOVE is a `Place` because `Agrees`
  says whose turn it is and that the square is blank;
- `GamesStayOpen` (`OpenWhilePlayed`), and the action property `VerdictsAreFair`
  (`MoverWins`): a line that is complete after a move and was not before holds the
  square of that move (`LastMove`), so `evaluate_board` can meet no other player's line
  first; a draw leaves no blank square (`FullBoard`, a counting argument).

Its last part, `FaultsNeedLeavers`, is about `StaySpec`, the executions in
which no page leaves and the loser does not click once the GAME_OVER is on its way.
`MatchesInOrder` says nothing after a fault, so here that there is none has to be part of
the invariant, `StayInv == Orders /\ Staying`. `Staying` says that every client's
connection works and holds no Close frame or incomplete MOVE (`Near`), that every
record keeps both its players (`Manned`), and that a client without a sound pointer
is `Idle`: no MOVE of it is under way, its lobby is or is about to be shown, and a
frame that would give it a turn has a GAME_OVER behind it (`Idlers`). The last part is
the argument: `server.c` frees a decided match and leaves both pointers dangling (464,
490), and the only handler that follows them is `move`'s. `ServerCalm` shows from it
that no handler faults, the lemmas `AcceptStays` to `MoveStays` and `PageStays` that it is
kept. The theorem assumes `MaxIds = MaxMatches`: as many matches are created as the table has
room for, because `create_match` does not check the index.

**Chat** (`Chat_proofs`): `TypeCorrect` (`ChatTypeOK`), `UsersConnected`
(`UsersAreConnected`), `ClientsMirror` (`ClientsMirrorSockets`). The invariant has
three parts. `Shape` is the types with what `main` relies on at the next event: a
`Client` that owns its socket is active, what epoll watches is open, a
registration carries a name. `Listed` adds the converse of `UsersAreConnected`: a
`Client` with a name that owns its socket is the table's, without which a clash
could leave a second `Client` behind that the next step makes a user of. `Lines`
says what each queue may hold: at most the first frame to a page is an answer, and
the messages of a page carry the name of its `Client`. The last part is needed
only by the refinement.

Its last part is `ChatIsARoom`, the theorem `Spec => EveryChatIsARoom`. Init maps
to the room's initial state; each action of server, pages and network is shown to
be one step of `ChatRoom` or to leave its variables alone. A relayed message is a
room's `Say` because `Lines` gives its sender the name it bears; after a fault
the room's `sound` is false and any step will do.

**The epoll proxies.** `ProxyNet_proofs` has what both rest on: the kernel's
tables (`NetOK`: a socket has at most one number, who waits in the backlog has none)
and what `cleanup_connection`, `accept`, `socket` and `epoll_wait` do to pairs, numbers
and the batch. `EpollProxy_proofs`: `TypeCorrect` (`EpollTypeOK`), `PairsCounted`
(`PairsAreCounted`), `BatchLive` (`BatchIsLive`) and the action property
`StrangersOnlyAfter` (`StrangersOnlyAfterClose`). The strengthening is `ServeOK`: the
browser being served is the only one with an open number and no `Data`, it is
untouched until then, and while its answer is awaited no event of its pair is in the
batch. `CacheWhole` (`CacheHoldsWholeAnswers`) is proved on top of it from `CacheOK`:
what was read and what the socket still holds are all that the upstream sent
(`Reading`), nothing is stored under the key while its answer is read, and no step
lets a socket that the other end closed send more (`Moves`), so that what the
upstreams left (`Answers`) only grows. `EfficientProxy_proofs`: `TypeCorrect` (`EfficientTypeOK`), `BatchLive`
(`BatchIsLive`), `KeysApart` (`CacheKeepsKeysApart`). Here some `Data` are left behind
with a closed number (lines 176 and 203), so that the argument is about the others
only (`Owners`); that no event of such a `Data` reads through its old number needs
that a pair whose request was not read has no upstream (`NewOK`). The cache half
(`CacheOK`) follows each node back to the request of the connection it came for, and
rests on `KeysOK`.

**Threads** (`Servers_proofs`): `OwnDescriptors` (`ThreadsOwnDescriptors`),
`StrangersNeed` (`StrangersNeedSecondSession`, for the plain, the TLS and the AES
server) and `CountsAreTold` (`CountsAgree`, for the same three). The invariant follows the descriptor table: a socket has one number, a
client in the backlog has none, and `accept()` and `socket()` find a free number. For
the proxy that last point is a counting argument: the numbers that are not
clients' are at most as many as the threads that are past their request
(`Cardinality(Others) <= Cardinality(Past)`), so with `MaxFd > 2 * N` one is left. For
the echo servers every row of the table of clients belongs to some thread (`RowsOK`):
a second session of an address therefore shares its row with the first, which is
the exception that the property names, and without one each thread's number is its
client's until it closes it (`OwnNumber`).

That the counts agree has two halves. The total is the sum of the rows (`Summed`):
for a new row, a row that goes on and a row that is counted, two partial sums are
compared up to the first place where they would differ (`SumsDiffer`). What a client is
told needs the whole conversation (`CountInv`): a client has one text on the way, at
its thread or back (`TurnOK`), the row's count runs one ahead of the client's while its
answer is (`n = answers + 1`), the greetings of the TLS and AES clients come before the
texts and its thread reads them all before it counts (`QueueIn`), and every pair of
numbers on the way is at most the total of now, which only grows (`Tally`). All this
is said only while `RowsAreOwn`, and a session that goes on with another's row makes that
false for good.

**The library** (`Library_proofs`): `BytesKeepPlace` (`BytesKeepTheirPlace`),
`TableHolds` (`TableHoldsDefinitions`) and `BlocksPartitioned` (`BlocksArePartition`). The streams' invariant `StdioOK` adds to the
property what a reader's steps rely on: its count is the length of its buffer, and a
buffer that is not empty lies within the file, which `my_fseek` beyond the end
seems to break and does not, because it drops the buffer. A writer's step rests on
`OverAppend`: a byte put behind the buffer and then written with it makes the file
that the buffer and then the byte make. The table's invariant `TableOK` says what a
chain says of a name (`Says`) rather than what `lookup()` finds: at most one entry
of a name in its chain, so that `undef()` uncovers no older one; appending,
replacing and unlinking are shown to change what the chain says of that name only.
It also says that what is left of the text defines words that have a hash.

The allocator's invariant is `AllocOK`. It has a set of blocks `F` with base in it,
linked from each to the next above it and from the last to base (`Linked`), each of at
least one header, below the break and neither overlapping nor touching the next
(`Apart`); the program's blocks overlap nothing and their headers say their size
(`HeldOK`). `ListedIs` shows that the walk from `freep` meets exactly `F`: first what
lies above `freep`, then base, then the rest, in at most `Units` links. A call is then a
few changes of `F`: `Unlink` (an exact fit, or the upper neighbour that a freed block
joins), `Insert` and `Grow` (the freed block, alone or at the end of its lower
neighbour). `FreeFacts`, `TakenFacts` and `CoreFacts` say what that does to the free
memory, `SearchedFacts` that any number of regions only adds memory behind the break.
The search needs that some address is not in the list (`ListedBound`): two free blocks
do not touch, so addresses 1 and 2 are not both in it.

**Assumptions.** `PageAssumption` (chat) says that finitely many pages exist and no
user is called `"client"`, the name that a page signs its registration with
(`scripts.js` 39): with such a user a registration and a message look alike.
`ServerAssumption` has an address for each connection: `malloc()` does not fail.
`ScriptsAssumption` and `ProxyNetAssumption` say that browsers send requests of the
modelled kinds and that `accept()` and `socket()` find a number.
`SourcesAssumption` says that what a text defines has a hash (`hash()` is defined for
every string) and that `"none"`, which stands for no definition, is no string of it.
`AllocAssumption` gives the allocator room for two headers at least (`Units >= 2`).
The others are types of constants.

**Only model-checked.** The liveness properties (fairness and ENABLED are out of
the prover's reach), and `ListingIsExact`: what the listing of words computes is
recursion over data.

## 5. What is not modelled, and the plan

Not modelled in the chat: what the page displays and its list of known names
(which gets an entry "BroadCast from X" with every broadcast), a message with a
quotation mark (the server cuts it and its broadcast is no JSON), WebSocket
frames that TCP cuts, and the collision chains of `hashmap.c`.

Not modelled in tic-tac-toe: frames that TCP cuts, messages that are not the
page's, `close_server`'s exits when a system call of the set-up fails, the heap
beyond `Match`es (the `Client` and `Frame` allocations), and the pages' alerts
and status line.

Not modelled in the other programs: failures of the set-up (`getaddrinfo`,
`bind`, `listen`, `pthread_create`), requests longer than the buffers, tables past
their size (100 rows of echo clients), what is printed; in the proxies a cache key longer
than its 100 bytes, and what `validate()` writes past its array when the process
survives it; in the AES version what the overruns leave behind when the process
survives them (`EVP_DecryptUpdate` writes more than `plaintext` holds, `strcpy` copies
a key or a vector that no zero byte ends: the model has the death of the process, and
otherwise the texts as they were); in stdio the
unbuffered standard streams and the modes `fopen` refuses; words and lines longer
than their arrays. `8-2.c`, `8-3.c` and `8-7.c` hold earlier copies of the code of
`8-4.c` and `8-8.c`, and `6-6.c` a copy of 6-5's table.

Not modelled at all: `frame.c`'s bytes (a frame is parsed whole; the 64-bit length
branch has no caller), `TicTacToe/Server/hashmap.c` (dead), the TCP and UDP
exercises, calculators, bit and string functions and the remaining textbook
exercises (a loop over standard input or one expression, nothing kept and nothing
beside them), and the browser extensions.
