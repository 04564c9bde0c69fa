# Verification of node-minecraft-protocol

TLA+ models of `node-minecraft-protocol` (the library under `src/src/`), the TLC
runs that check them and the theorems about them. Paths below are relative to
the repository (`src/src/client.js` is the repository's `src/client.js`).

## 1. Inventory

The library is event driven JavaScript: one thread, no locks. What makes it hard
is the order of events: stream `end` events come a tick after the call that
caused them, timers and socket events come between any two turns, promises and
crypto callbacks resolve whenever they do, and both ends of a connection switch
codec (protocol state, compression, encryption) while packets are under way.

| component | state it keeps | operations | what is hard | what makes it correct |
|---|---|---|---|---|
| Connection, outbound (`client.js`) | serializer, compressor, framer, cipher, `_writeQueue`, `_outboundEnded`, `ended`, `_ending`, `closeTimer` | `write`, `writeRaw`, `writeBundle`, `state=`, `setCompressionThreshold`, `setEncryption`, `end`, socket events | backpressure, codec switches over a backlog, `end()` travelling behind the data, socket loss | the wire is a FIFO of frames in the codec of their write; FIN behind the last frame; nothing after `end` |
| Connection, inbound (`client.js`, `transforms/`) | splitter buffer, decompressor, deserializer, `_mcBundle` | `data`, parse error recovery, bundle assembly | frames yielded over several ticks, a parser rebuilt in the middle of a chunk, a state switch by the packet just parsed, oversized bundles | packets in order, a bad packet costs itself only, bundles stay whole |
| Client keepalive (`client/keepalive.js`) | two timers, grace start, activity counters | `keep_alive`, `state`, `socketActivity`, `end`, timer callbacks | timers that fire before the socket is read, re-arming while closing | no silent peer stays undetected, no peer that talks is dropped |
| Server keepalive (`server/keepalive.js`) | interval, `lastKeepAlive` | loop, answer, `end` | loop against late answers, an entry into play behind the end | only a client that stopped answering is kicked, no interval goes on without need |
| Login (`client/setProtocol.js`, `encrypt.js`, `compress.js`, `play.js`, `server/handshake.js`, `server/login.js`) | protocol state and codec at both ends, `kickTimer`, `playerCount` | handshake, encryption, session check, compression, success, acknowledgement, configuration | both ends switch codec on messages that cross; crypto and HTTP callbacks after the end; the kick timer | each frame is decoded with the codec it was encoded with; login completes or the connection ends |
| Configuration switches (`client/play.js`) | once-handlers, the handlers of the last entry | `success`, `start_configuration`, `finish_configuration`, `select_known_packs`, `code_of_conduct` | repeated switches, handlers of an earlier round, the order of listeners of two plugins | one answer per request, in the state it belongs to; every switch completes |
| Chat acknowledgement, 1.19.3 and later (`client/chat.js`, `server/chat.js`) | last-seen rings, pending count, signature cache | `player_chat`, `chat_message`, `message_acknowledgement`, `hide_message` | two windows kept equal over an asynchronous link, errors in the middle of a validation | the server refuses no acknowledgement that an honest client makes, and takes its reports |
| Chat chain, 1.19.1 and 1.19.2 (the same files) | last-seen list, chain of each sender, own chain, preview under way; `pending`, `lastTimestamp` | `player_chat`, `message_header`, `player_info`, `chat`, `chat_preview` | withheld messages, previews that are overtaken | a sender is trusted exactly while nothing is missing; a client that signs stays |
| Command trees (`client/chat.js`) | the slices of the commands | `declare_commands` | malformed graphs | exactly the cyclic trees are refused, the visit of another returns |
| Connect gate, version detection (`createClient.js`, `client/autoVersion.js`, `client/versionChecking.js`, `ping.js`) | `wait_connect`, `authPending`, timers | connect, ping, answer, timeout | callbacks settling twice | one connection, one callback |
| Cookies (`client/cookie.js`) | map of cookies | request, store, transfer, end | what was handed on while the store changes | answered once; a snapshot stays as it was |
| Plugin channels (`client/pluginChannels.js`) | `channels`, types, listener | register, unregister, write, `custom_payload` | channels that come and go under a shared listener | a payload is heard once |
| Velocity forwarding (`transforms/velocityForwarding.js`) | secret | `login_plugin_request` | a response that cannot be built | one answer per request |
| Server (`server.js`, `createServer.js`, `server/ping.js`) | `clients`, ids, listeners | connection, `end` override, `close`, `listen`, ping | clients that leave and are kicked while the server closes | the registry holds the live clients, `close` finishes |
| Data types (`datatypes/`) | none | read, write, sizeOf, twice each: interpreter and compiler | boundaries of variable length integers, sizes that disagree, buffers that are not cleared | read inverts write, whichever pair is used |
| Authentication (`client/mojangAuth.js`, `microsoftAuth.js`) | external services | | | |

Behaviours that are hard to test are listed one by one, each at its line, under
`hazards` in `PROJECT.json`, with the properties that watch over them.

## 2. Plan

Modules in the order of their importance. Done:

1. `WireFifo` (abstract), `Outbound`, `OutboundProofs`: what every other part
   relies on, packets reach the wire in order and in the codec of their write.
2. `Login`, `PeerProofs`: the two ends of a connection composed, over links that
   deliver frames the way `WireFifo` promises.
3. `ClientKeepalive`, `ClientKeepaliveProofs` and `ServerKeepalive`: the
   watchdogs.
4. `ChatWindow`: the last seen windows of both ends, which have to shift by the
   same messages over a link on which chat crosses, and what the server makes of
   an acknowledgement.
5. `Inbound`, `InboundProofs`: the counterpart of `Outbound`, packets are read in
   order and once, and a malformed one costs nothing but itself.
6. `Connect`, `ConnectProofs`: the gate of `createClient`, `autoVersion`,
   `tcp_dns` and `ping`, up to the socket and the first packet.
7. `ClientBase`, `Configuration`, `Cookies`, `Channels`, composed in
   `ClientSession`, and `ClientSessionProofs`: the plugins of a client that share
   its state and its packets.
8. `ChatChain`: the chat of 1.19.1 and 1.19.2, both ends.
9. `Server`, and `MCServer`, the composition of `Server` with `ServerKeepalive`,
   which ends clients by itself. `ServerProofs` holds the theorems of `Server`,
   `ServerKeepalive` and `ChatWindow`.
10. `CommandTree`, `Codecs`: the algorithms on data. `ChatProofs` holds the
    theorems of `CommandTree` and `ChatChain`, `PeerProofs` those of `Codecs`
    beside those of `Login`: what the two ends of a connection agree on.

Every safety property that a run checks is a theorem. Left, in this order:

1. `ChatWindow` within `ClientSession`: a reconfiguration empties the window of
   one and announces the session of the other.
2. `Inbound`, the rest: the decompressor that `setCompressionThreshold` puts into
   the pipe under data, which is a fresh stream as a new parser is.

## 3. Modules

### Outbound (`client.js`, outbound half)

State: `state` and `threshold` are the codec new frames are made with; `phase`
and `ciphers` are the lives of the stream objects (open, `end()` called, `'end'`
emitted, broken); `queue` is the retry queue, `sent` and `accepted` are
histories. A frame is a packet with the codec it was encoded in: bytes are not
modelled, what is modelled is which transforms a packet went through and when.

One action per public operation (`Write`, `WriteRaw`, `WriteBundle`, `SetState`,
`SetCompressionThreshold`, `SetEncryption`, `End`, `SetSocket`), per stream event
(`SerializerEnd`, `CompressorEnd`, `FramerEnd`, `CipherEnd`: each `'end'` comes a
tick later, and anything else may be called between two of them in the same
turn), and per socket event (`SocketDrain`, `SocketBreaks`, `SocketError`,
`SocketClose`, `SocketEnd`, `SocketTimeout`, `CloseTimeout`). Socket events wait
for `Quiet`: Node runs all pending ticks before it polls.

`WireFifo` is what a user of the connection relies on: frames are accepted,
transmitted in order, the connection finishes behind the last one or dies.
`Outbound` implements it (`FifoSpec`, run and theorem).

### Login (`client/setProtocol.js`, `encrypt.js`, `compress.js`, `play.js`; `server/handshake.js`, `login.js`, `server.js`)

Two peers, two inboxes of frames, each frame tagged with the codec (state,
compression, cipher) it was written in. `mode` is the version and the options:
whether the server verifies this user, whether the version has the
configuration state, whether the client has credentials, whether its version is
the wrong one. The callbacks of crypto and of the session service are actions
of their own (`GotSharedSecret`, `SendEncryptionKeyResponse`, `HasJoined`,
`HasNotJoined`) that may come at any time, also behind the end of the
connection. `Skip` reads a frame that nobody handles or that the reader cannot
decode; `misread` remembers the latter. `UserEnds`, `ConnectionLost`,
`KickForNotLoggingIn` and `CloseTimeout` end it from every side.

Composition: `Login` does not repeat the outbound half. Frames written by one
peer appear in the other's inbox in order and with a FIN behind them, which is
what `WireFifo` promises and `Outbound` is shown to implement. `end()` of a peer
is taken with what `Outbound` found: a state switch in the same call loses the
FIN (`EndStream`, `OnHandshake`).

### ClientKeepalive (`client/keepalive.js`, `client.js`, `transforms/framing.js`)

The watchdog over an explicit event loop: `phase` goes from timers to poll to
check, `Tick` is time that a callback or an idle poll takes. `watch` holds the
two timers of the plugin, `pending` data in the kernel that nobody has read,
`backlog` the frames the splitter keeps for later turns.

### ServerKeepalive (`server/keepalive.js`)

`loops` is the time left to the next call of each interval that was set,
`quiet` the age of `lastKeepAlive`, `inflight` the keep_alives under way. Its run
is that of `MCServer`; `EndCalled` is an end by someone else. The `'state'`
listener knows nothing of the end: `StartKeepAlive` may come behind it, and
`late` counts those entries.

### ChatWindow (`client/chat.js`, `server/chat.js`, 1.19.3 and later)

`ring`, `offset`, `pending` and `index` are the client's
`LastSeenMessagesWithInvalidation` and session, `window` and `expects` the
server's `LastSeenMessages`, one for the connection, and the index it expects,
`toClient` and `toServer` the packets under way. A signature is the number of
its message. `enforced` and `tolerant` are options of the server: whether a
secure profile is enforced, and whether its `errorHandler` lets a client go on
that ran into an error. The client's actions are its listeners, `SignedChat` and
`SignedCommand` (a consumer chats while it is in the game); the server's are what
its application does (`Broadcast`, `SendHideMessage`, the switch to configuration
and back) and the handlers of what arrives.

The server is that of the repository. `OnChatMessage` is `validateSession` step
by step: `applyOffset` (`OffsetApplies`, `Shifted`), `unwrap`, which may refuse a
bit and has changed what it passed until then (`Refused`, `Reached`,
`Unwrapped`), `Buffer.concat`, which throws at whatever is acknowledged, and the
index, which is counted on behind that only. Each error is named in `faults`; the
client is ended or, with a tolerant `errorHandler`, goes on with the window as
the error has left it. `OnMessageAcknowledgement` throws, since the handler looks
for the window in a field that only a client has: the connection is followed up
to there (`verdict`).

What only one of the two ends follows is remembered in `astray`: a
`hide_message`, a command that acknowledges or signs (the server listens to no
command), a broadcast that is not logged since no profile is enforced, and a
login while the window holds messages of the game before.

`hide_message` names a message by its place in the client's cache or by its
signature. The listener compares Buffers by identity, so the first matches and
the second never does.

### Inbound (`client.js`, inbound half, `transforms/framing.js`, `serializer.js`)

A frame is a number, what it turns out to be (`Kind`) is chosen when the parser
is given it. `buffer`, `budget` and `immediate` are the splitter and its yield
every 128 frames, `queued` the chunks that come between two of its turns.
`held` are frames that wait in the splitter while the pipe behind it is paused,
`parser` is the deserializer and `bundle` is `_mcBundle`.

Node's streams are external and modelled by what this code sees of them: a
transform hands its output on in the same call, down to the listener of the
packet; a new parser keeps what it parses until its first tick; a write that
fails pauses the pipe at once, its `'error'` comes a tick later; `pipe` and
`on('data')` each resume in a tick of their own, in that order of ticks. `stack`
is the loop of the call that runs (frames of the splitter, what the splitter
held, what the parser kept), `ticks` the pending callbacks. The socket and
`setImmediate` wait until both are empty (`AtRest`).

A listener that throws is caught by whoever called it: `reader` becomes
"destroyed" (the splitter is, with an `'error'`), "wedged" (the decompressor
caught the exception and the write of the packet never ends) or "crashed" (in a
tick, where nobody catches).

`gone` are the frames that a malformed packet takes along: itself and its
bundle. `behindSwitch` remembers that a frame was parsed behind a packet that
switched the state, in its turn; `broken` that a bundle was cut short by a
malformed packet or by its size.

### Connect (`createClient.js`, `autoVersion.js`, `tcp_dns.js`, `setProtocol.js`, `ping.js`)

`mode` are the options: which function the user calls, how the account is
authenticated (at once, behind `onReady`, or before it as for a realm), whether
the connection waits for `startConnection`, whether the version is to be
detected, whether a name is looked up. `gate` is the closure of `createClient`,
`conn` one connection each for the client and for the ping, `ping` the promise
with its two timers. The user's calls (`StartConnection`, `End`), the end of the
authentication, the resolver, the network, the peer's answers and the timers
come in any order. `auth`, `asked` and `login` say what happened so far.

`end()` is taken with what `Outbound` shows: it shuts the outgoing side, and a
socket that comes later is ended as it is set (`WithSocket`, `late`). The
callback of `autoVersion` is modelled with its successful half, which no state
reaches: `tcp_dns` keeps an `options.connect` that is there, and the ping's is the
gate of `createClient` (section 4).

### ClientSession (`client/play.js`, `chat.js`, `cookie.js`, `pluginChannels.js`, `transforms/velocityForwarding.js`)

`ClientBase` is what the plugins of a client share: its options, `client.state`,
the end of the connection, and the frames in both directions, each tagged with
the state it was encoded in (that they reach the wire in order and in that codec
is what `Outbound` shows). Three modules extend it with one plugin each, and
`ClientSession` composes them with a user and a server.

* `Configuration`: `handlers` are the once-listeners, remembered with the entry
  that installed them, `current` is the `configurationHandlers` that
  `clearConfigurationHandlers` takes down. `OnSuccess`, `OnStartConfiguration`,
  `OnAsk` and `OnFinishConfiguration` are the listeners of `play.js`; `OnLogin`
  is the listener that `chat.js` prepends followed by that of `play.js`.
* `Cookies`: a `Map` is a place in `maps`, so that a snapshot and the store are
  the same object or are not.
* `Channels`: the list, the types of the protocol, the one listener of
  `custom_payload`, and the answer to a `login_plugin_request`. A call that
  throws, since one of the library's own channels has lost its type, changes
  nothing and is no step.

The server is external: one that keeps to the protocol, asks its questions at
any time it may and waits for the answer to a switch. `owing` counts the answers
it waits for. The user registers, unregisters and writes channels and sets
cookies, valid or not.

### ChatChain (`client/chat.js`, `server/chat.js`, 1.19.1 and 1.19.2)

`seen` is the client's last seen list, `players` what it knows of the chain of
each sender, `request` the preview it waits for; `chain`, `newest` and `logged`
are the server's. A signature is its number in the chain of its sender. The
server relays a message whole, with a content of its own, by its header only, or
not at all (`Relay`), announces players (`Introduce`) and answers previews
(`Previews`); the user chats with and without a preview and writes commands.
`handled` and `heard` are histories. `raised` is what the server disconnected
the client for.

### Server (`server.js`, `createServer.js`, `server/handshake.js`, `server/ping.js`)

`registry` is `server.clients`, `client` what the server knows of each socket,
`listeners` one `net.Server` for each call of `listen`. `End` is the override of
`server.js` (`told` is the packet it writes), `Close` ends who is registered at
that moment. A socket that was ended closes when it does (`SocketEnds`), and
`EmitsClose` is Node's. The login is what `server/login.js` does to the state and
to the end of a client (`VerifyUsername`, `LoginClient`, `HasNotJoined`,
`OnClientLoginAck`, `EntersPlay`), of a version with a configuration or without;
the session service answers when it likes, also behind the end, and
`loginClient` does not look. `Login` has the packets.

`MCServer` composes it with `ServerKeepalive` for one client, which logs in: each
change of its state is heard by the loop (`StartKeepAlive`, `Reconfigure`), also
behind the end, the loop ends the client through the override (`LoopFires`), and
what else ends the client is heard by the loop (`EndCalled`, `EndSocket`).

### CommandTree (`client/chat.js`, `declare_commands`)

`validateCommandTree` node by node (`Look`), pass by pass (`NextPass`), once with
`canBuild` and once with `canResolve`, and the recursion of `visit` as a stack of
calls. Nodes are their indices, in the order of the list.

### Codecs (`datatypes/minecraft.js`, `compiler-minecraft.js`, `lpVec3.js`)

A packet is sized (`Allocate`), written field by field into a buffer that holds
junk (`WriteField`), and read (`ReadField`), each side with the interpreter or the
compiler. The sizes (`SizeOf`), the cells a field leaves (`EncodeField`) and the
readers (`DecodeField`) are translated per type; `Unwritten` is a byte that is
counted and not written. A cell is a byte, or a number of a fixed size; a varint
has groups of two bits and numbers from `-Half` to `Half - 1`. gzip and NBT are
reversible codings.

What is recursive in the code or in protodef is a recursive function here: the
groups of a varint over what is left of the number (`GroupsOf`, `GroupCount`),
sums and concatenations over the place in a list (`TotalTo`, `ConcatTo`), and each
loop of a reader over its turns (`LoopTurn`, `TopBitTurn`, `ListTurn`), which is
what makes them provable. `Values` says what a field of each type may hold, lists
of any length among it.

## 4. Runs

| run | shows |
|---|---|
| `outbound_fifo` | frames are never lost, replayed, reordered or encoded again; no backlog without a `'drain'` to come; implements `WireFifo`, and so the FIN comes behind all frames and nothing behind `'end'` |
| `outbound_live` | `end()` always leads to `'end'`; with a peer that reads, what was accepted is transmitted |
| `outbound_end_lost` | finding: a state switch in the turn of `end()` loses the FIN |
| `login` | all 16 modes: codec agreement but for `disconnect`, both ends in the game together with the player counted, every login settles |
| `session` | frames are read in the state they were written in through every switch, each question (pings in a configuration, requests of a proxy at the login, for cookies at any time) is answered once, the game is joined once, the announced chat session is the one in use, one listener per payload, a handed-on snapshot stays, every switch completes |
| `client_keepalive` | the watchdog is armed in every watched state, is accurate however long callbacks block, fires once, and ends a silent peer |
| `server` | the registry has who is there, `close()` finishes; and for a client among the others: one that answers is not kicked, a silent one in time, no interval is left but those of earlier entries into play and of one behind the end, a latency below an interval is exact |
| `chat_window` | the server refuses no acknowledgement and no index of an honest client, also behind messages that failed; both windows agree when nothing is under way; each until a step that only one of them follows (`astray`) |
| `chat_chain` | the list is what was heard last, a sender is trusted exactly while nothing of its chain is missing, a client that signs is disconnected for the named reasons only |
| `inbound` | packets are emitted in order and once, a malformed one costs itself and its bundle, bundles are emitted whole, reading goes on unless a listener throws |
| `connect` | for all options: the gate opens once and not before the account is known, a ping settles, ends its connection and clears its timer, an ended client closes its socket |
| `data` | a command tree is accepted exactly if it has no cycle, and its visit is no deeper than it has nodes; a packet of any two types is read as it was written, by either implementation |

`TypeOK` of each module is not an INVARIANT of its run where the other properties
would break with it; the theorems `TypeCorrect` prove two of them, and those of
`ClientKeepalive` and `Connect` are part of the invariants of their proofs.

The run marked as a finding checks what a comment of the repository says; TLC
finds it violated, and `findings` in `PROJECT.json` quotes the line and says what
the code does.

Seen while modelling, and in the model as the code has it, without a run of its
own. First what a user meets:

- the first `chat_message` of 1.19.3 and above that acknowledges a logged message
  is an error: `Buffer.concat` is given the signatures as its arguments and throws
  (`src/src/server/chat.js:65`), though they are logged "so we can verify the last
  seen message field in inbound chat packets" (`src/src/server/chat.js:170`).
  `FaultlessClient` says that this is the only error of its kind;
- a `message_acknowledgement`, which is to "flush the queue" (`src/docs/chat.md:49`),
  makes its handler throw, since `client._lastSeenMessages` is the client's field
  (`src/src/server/chat.js:127`);
- a `hasJoined` answer behind the end counts a player whom no `'end'` counts off
  (`src/src/server/login.js:212`), in what is "the amount of players currently
  present on the server" (`src/docs/API.md:68`), and starts a keep alive interval
  that nobody stops, for versions without a configuration
  (`src/src/server/login.js:192`, `src/src/server/keepalive.js:34`; `LoopsEnd`);
- without a version "it's set automatically" (`src/README.md:91`), but the ping of
  `autoVersion` connects the client of `createClient` instead of its own, so that
  the client waits until the ping times out (`src/src/client/autoVersion.js:12`,
  `src/src/client/tcp_dns.js:9`, `src/src/createClient.js:84`);
- `unregisterChannel`, which "unregisters a plugin channel" (`src/docs/API.md:201`),
  takes the name for an index and removes the first channel of the list
  (`src/src/client/pluginChannels.js:47`).

Then the rest: the docs give `kickTimeout` a default of 10 s (`src/docs/API.md:12`), the code 30 s
(`src/src/server/keepalive.js:2`); a `keep_alive` read behind `end()` arms the
client's watchdog again, which may then report a timeout of a connection that is
being ended (`src/src/client/keepalive.js:37`), and a second one if
`checkTimeoutInterval` is shorter than the close timer of 30 s; the checksum of a
chat message is compared to that of no messages at all
(`src/src/server/chat.js:109`), a `VerificationError` is thrown without `new`, so
that it is an error of the client like any other (`src/src/server/chat.js:69`),
and the server's window outlives the login that empties the client's
(`src/src/server/chat.js:43`); a latency
longer than an interval is reported modulo the interval, since only the time of
the last `keep_alive` is kept (`src/src/server/keepalive.js:27`, against
`src/docs/API.md:240`); a packet listener that throws destroys the splitter or,
if the packet was deflated, silently stops the reading
(`src/src/transforms/compression.js:72`); packets parsed behind a state switch
in the same turn are lost if a malformed one or another switch follows them
(`src/src/client.js:80`); `onHandshake` ends a client of the wrong version and
switches its state in the same call, which loses the end (`outbound_end_lost`),
so that the refused client goes on logging in until the close timer
(`src/src/server/handshake.js:31`); `hide_message` replaces the client's ring by
another whose offset starts at zero, and a second one throws at the null the
first has left (`src/src/client/chat.js:214`; the properties of `ChatWindow`
speak of games without one); `startConnection`, "No-op otherwise"
(`src/src/index.d.ts:63`), connects a client with `autoConnect` before its
authentication is over (`src/src/createClient.js:70`, excepted in `AuthFirst`); a
socket that comes behind `end()` has no close timer and stays as long as its
peer wants (`src/src/client.js:446`, excepted in `EndedCloses`).

The same for what was seen in the parts about login, versions and the server: a
malformed packet inside a bundle, or the flush
of an oversized one, inverts the sense of the delimiters from there on
(`src/src/client.js:184`, `:293`, `:307`); a `beforePing` that returns `false` at once is answered with the default response,
unlike one that calls back with it (`src/src/server/ping.js:55`,
`src/docs/API.md:18`); a client of the wrong version is ended in HANDSHAKING,
where the override of `server.js:30` writes no reason; ids start again with
`listen`, so that a client that is still ending takes the entry of a new one with
it (`src/src/server.js:25`, `relisten`).

And in the chat of 1.19.1 and 1.19.2, the plugins and the data types: the first
report or chat message with a last seen list that is not empty throws in
`server/chat.js`, and the default `errorHandler` ends the client
(`src/src/server/chat.js:267`, `src/src/server/login.js:26`); the server hashes a
preview that was plain, the client does not (`src/src/server/chat.js:154`);
a second preview request forgets the
first message; the compiled writer of an inline holder leaves out its 0 and that
of entity metadata returns a wrong offset
(`src/src/datatypes/compiler-minecraft.js:97`, `:118`), an empty
`topBitSetTerminatedArray` is read as one of an entry, and a vector whose scale is
2^33 or more comes back with its signs turned (`src/src/datatypes/lpVec3.js:52`):
`Lost` of `Codecs` names these four and `ReadsBack` speaks of the rest.

Bounds. `Outbound`: one packet beside the bundle delimiter (a frame's identity
is its position), two protocol states, one threshold besides none, three frames
(a bundle, or one frame in the socket, one in the queue and one being written),
one cipher and one close timer. `outbound_live` has two of each, because the
second `setEncryption` and the second `end()` matter there, two frames (one in
the socket, one in the queue), and one protocol state, since the codec of a
frame does not matter for its progress. `Login` needs no bound: the dialogue is
finite, and all modes are checked. `ClientKeepalive`: a tick is 2.5 s to 6 s of
the defaults (interval 30 s, close timer 30 s, grace 5 s); a callback may block
the loop for longer than interval and grace together (`MaxBlock` 8 against 5 +
2), a timers phase for one tick, so that a grace of 0 and 1 are within its reach
and 2 is not. Errors and plays are counted up to two, because the properties
speak of one. `ChatWindow`: a ring of three and reports behind two stand for 20
and 64 (a report comes before, at and behind a full turn of the ring, which five
messages go round and begin again), three chats so that each
meets the window the other left, also one that an error has stopped half way; one
configuration in between; one `hide_message`, since the first one already breaks
the ring; a limit of seven entries, which five broadcasts exceed. `Inbound`: two frames a turn and bundles of three
packets stand for 128 and 1024; six frames make a splitter that yields twice, a
bundle that is flushed with its delimiter behind it, and errors and switches
that meet in one turn. `Connect` needs no bound.

`ClientSession`: two configurations, so that one can leave something behind for
the other, two requests beside those that a configuration always has (three
where there is no configuration, which is enough to remove both channels of the
library and register another), one cookie key with two values and an invalid
one, one channel of the user's own, and three clients that differ in everything
the options decide. `ChatChain`: four senders and a list of three, so that an
entry falls out at the end and another is replaced in the middle; five messages
altogether, at most two of them the user's; a report behind one message;
`PendingLimit` 4 stands for 4096, so that five messages without an answer reach
it. At most one packet is under way in each direction while more
are made (`MaxUnderWay`), since what crosses is one message and one report.
Senders are interchangeable (symmetry), and the run has no temporal property.
`MCServer`: two clients and two calls of `listen`; the time constants are as
small as the assumptions allow, since the theorems on the keep alive hold for
all of them. Time passes while the watched client is open, because the loop's
properties speak of that time and `ServerProofs` of the rest. The
exploration stops at a `listen` with old clients still there (`relisten`):
nothing is claimed behind it. `MCData`: all trees of three nodes with at most
one child each and those with two, in range or not, with each redirect along a
path and around a circle; one field of each type with the values at its
boundaries, and a second field behind it, with a buffer of zeros and one of
ones.

Fairness. Timers fire, pending ticks run, frames that arrived are handled and
the event loop turns: Node does all of that whatever the program does, as long
as callbacks return. `CloseTimeout` and `SocketClose` of `Outbound` are strongly
fair, since the loop is reached again and again even when each turn calls
`end()` anew. Nothing is assumed of the session service, of the network or of
the user; a peer that reads is a premise of `BacklogDrains` alone (`PeerReads`).
`ChatWindow` has no temporal property and assumes no fairness. `Inbound` assumes
only that its turns run; no frame need ever arrive. `Connect`
assumes that timers fire and that the resolver answers or gives up, nothing of
the peer or the authentication. `ClientSession` assumes that packets which arrived
are parsed, by the client and by the server, and that is all: the server need not
go on, nobody has to ask anything. `MCServer` assumes the close timer of a client
that was ended (`client.js:446`) and Node's `'close'` of a listener without
connections, nothing of the clients.

Deadlock is not checked where a connection really stops or its users have said
all the bounds allow, which is everywhere: connections end, a server that was
closed and all of whose clients are gone has nothing to do, and an algorithm on
data returns.

## 5. Proofs

`OutboundProofs` proves for every set of packets, states and thresholds and
every bound: `TypeCorrect` (`TypeOK`), the FIFO invariants (`NoLoss`,
`WireIsPrefix`, `FinAfterAll`, `NoLostWakeup`, `NoForgottenFin`),
`SilentAfterEnd`, and that `Outbound` implements `WireFifo`. The theorems are
`TypeCorrect`, `FramesInOrder`, `FinInOrder`, `Wakeup`, `DeadIsSilent` and
`ImplementsFifo`. The invariant `IInv` is `TypeOK` with `FramerFirst` and
`QueueInv` (`Fresh`, `FinLast` and the five). `WireIsPrefix`, `FinAfterAll`,
`NoForgottenFin` and `SilentAfterEnd` have no run of their own: they are steps
on the way to `FifoSpec`, which the run checks. The FIFO conjuncts are not
inductive alone: that the FIN is behind everything needs to know that
`outboundEnded` implies a framer that has emitted its `'end'`, so that no frame
can be accepted behind it, and that a queue in front of an open socket implies
`needDrain`. Every way to write goes through `Deliver` and every way to transmit
through `Drain`, so one lemma on each (`DeliverStep`; `DrainFacts` and
`QueueDrain`) carries the steps.

`PeerProofs`, on `Login`: `TypeOK`, `CodecAgreement` and `InGameTogether` for any set
of versions and options. `Dialogue` pairs what the client waits for with what the
server waits for, fifteen pairs in all, and says for each which frames may be
under way in either direction: none, or one of a few sequences, with the
disconnect of an `end()` behind what the server wrote. Ends and lost connections
only take frames away, so that a pair stays what it is. `CodecAgreement` is read
off the pair of a step, since each sequence is named with its codec. `Told` is
needed where there is no configuration and the server is in the game before the
client has heard of it: its kick must come behind the `success` that says so.
`Count` excepts the session service that answers behind the end (`TooLate`),
which counts a player too late.

`PeerProofs`, on `Codecs`: `ReadsBack` for every `Half`, any number of fields,
lists of any length and whichever value the cells of the new buffer held (a group
stays two bits, and a cell three). The way there:

* No definition is recursive but by functions over naturals, and a function's
  definition can only be used once it is known to have a solution. `Recursion`
  gives one for every definition by smaller arguments, from the solutions up to
  each argument, which agree; `GroupsUnfold`, `CountUnfold`, `NumberUnfold`,
  `SumUnfold`, `ConcatUnfold` and `Turns` are its uses. The library's theorem of
  induction takes an operator, which the provers cannot instantiate, so
  `Induction` states it for a set: otherwise the step would map the numbers of
  the set below a counterexample one to one into all of them but 0, which are
  fewer (the cardinality of finite sets).
* `VarintReads`: the groups of a number all have the top bit but the last, so that
  the reader stops there and nowhere else, and their sum is the number.
* One lemma for each type (`OptionalVarIntCarried` to `VecDeltaCarried`), and
  `FieldCarried` for all: a field takes the cells that `SizeOf` says, and where
  these are (`Holds`), whatever is around them, the reader of either
  implementation returns the value and goes that far. A loop is read by naming
  what it has after each turn and showing that the next turn makes it so.
* The invariant `CodecsInv`: a field begins at the sum of the sizes before it
  (`Offset`), those before the writer's cursor are in the buffer, those behind the
  reader's are still there, and nothing is refused. `ReadsBack` says nothing of the
  buffer, so it is not inductive alone; and since `readTopBitSetTerminatedArray`
  changes the buffer it reads, the invariant needs that it only touches cells of
  its own field (`LeftByOthers`).

What `Lost` names is excepted there as in the run. The assumptions are what
the code has: the numbers of a varint fit its longest form, and the bound of an
NBT payload (65536) is below 2^31.

`ServerProofs`, on `ServerKeepalive`: `TypeOK`, `PromptClientStays`,
`KickedInTime` and `LoopsEnd` for every interval, timeout and answer time with
`MaxAnswer + Interval <= KickTimeout`. The strengthening says that the ages of
the unanswered keep_alives and the time to the next loop add up: `Asked` (while
a prompt client is in the game, the last answer is at most an interval older
than the oldest unanswered keep_alive), `Answered` (no keep_alive is older than
`MaxAnswer`), `Overdue` (as long as the last answer is older than the timeout
there is an interval that will see it within one period), `Counted` and
`Together` (as many intervals as entries into play, until the end; `quiet` and
`silence` are reset together). `IntervalsLeft` is `LoopsEnd`: the end takes the
interval of the last entry before it, and each entry behind it adds one. `LatencyExact` rests on `Sorted` (keep_alives under way are
younger one after the other, so that the difference to the newest is never more
than the round trip) and `Spaced` (with one interval each but the newest is at
least an interval old, so that an answer within one finds nothing newer).

`ChatProofs`, on `CommandTree`: `VerdictExact` for trees of any number of nodes: a
well formed tree is accepted exactly if neither its redirects nor its children
form a cycle. A cycle is a set of nodes each of which needs another of them, so
that no induction over paths is needed. The strengthening is `CirclesStay` (no
node of such a set is ever taken away: `LookInv`), so that an empty `pending`
means there is none; `Waiting` (a node that the pass has looked at and left
still needs a pending one, as long as the pass has taken none away), so that a
pass without progress leaves a `pending` that is itself such a set
(`StuckIsCycle`); and `Checked`, which carries the result of the first validator
through the second. `VisitBounded` needs `Visited`: the nodes above each call
are a path of children from the root. A path with more nodes than the tree comes
to one of them twice (the pigeonhole principle of the library), and what lies
between is a circle of children, which the tree would have been refused for.

`ServerProofs`, on `Server`: `RegistryExact` for any number of sockets and of calls of
`listen`. That the registry holds who is there is not inductive alone: a
connection could write over an entry, and an `'end'` delete another's. It needs
`IdsDiffer`: the ids of the clients that are there differ and are below `nextId`,
so that the entry a connection writes is nobody's and the one an `'end'` deletes
is its own. `listen` starts the ids again, which keeps this true as long as nobody
is there; behind a `listen` with clients (`relisten`) nothing is claimed.

`ServerProofs`, on `ChatWindow`: `ClientIsFaultless` (`FaultlessClient`) and
`WindowsMeet` (`WindowsAgree`) for every capacity, report threshold and limit of
the window. That two windows were equal at rest says nothing of what crosses, so
the invariant has to name what each is in between. `LatestAt` does: the messages
of a game are numbered on from the last one before it (`base`), and the entry of
the n-th is determined by whether n is behind `base` and whether it is behind the
message that a chat_message told last. The server's window is such entries up to
the last message sent (`Kept`), the client's ring those up to the last one handled
(`Round`), the messages between the two are under way, each once and in order
(`Unread`). The packets to the server are a walk (`Leads`): each moves the end of
the first `Capacity` entries of the window, the message told last and the
session's index from one point to the next (`Moves`), and the walk ends at what
the client has. So the head of the inbox always fits the window, whatever is
behind it, and whatever became of the messages before: a message that
acknowledges moves the window and leaves the index, one that acknowledges nothing
counts it on, and no message of a game comes behind the first that acknowledges
without acknowledging too. The stages `Playing`, `Leaving`, `Between` and
`Entering` say which packets may be under way around a configuration, and `Fresh`
what the server begins a game with before the client knows. Once `astray`
nothing is claimed but the types and the stages, as in the properties.

`ChatProofs`, on `ChatChain`: `IntegrityExact` for any set of senders, any length
of the last seen list and every bound. The strengthening is `Ordered` (the
signatures of a sender under way come in the order of their numbers), `Behind`
(each is behind all that were handled, so that a gap stays one), and `Trusts`,
which adds to `IntegrityExact` that the last signature of a trusted sender is the
greatest that was handled; `UpdateExact` carries it through a validation.
`Written` types what the client sends, because a preview answers with the number
of the query that came. `SeenNewest` follows from `Distinct`, one entry for each
sender in what was heard: an update moves the entry of the sender to the front or
drops the last one, and the client's list does the same up to its capacity.
`HonestStays` needs to know what is under way: messages are signed each over the
one before, the first over what the server has (`Linked`), their times do not
decrease (`Timely`), also against a preview that was asked for and not answered,
a preview is hashed exactly if it was asked for (`Formatted`, `Answered`), and a
report of what was seen is not empty before anything was heard (`Reported`).

`ClientKeepaliveProofs` proves `Watching` and `AccurateTimeout` for any interval,
set of grace periods and bound. `Silent`: the time without a read and what is left
of the grace period add up to interval and grace, as long as one runs. `Unread`:
data that waited as the grace period began is read by the poll phase in between,
since no timers phase outlasts the grace (`InItsPhase`), and reading clears the
timer. `Once`: behind a timeout the connection is ending, and its close timer is
due no later than a new grace period begins. This needs a close timer that is not
longer than the interval, which is the hypothesis of `TimeoutCorrect` and true of
the defaults.

`ConnectProofs` proves `GateOpens`, `AuthFirst` and `PingEnds`; the options are
initial states, so that TLC has seen them all, and the proof says why. `GateInv`:
the gate is open exactly if it has connected once, and behind the authentication
nobody waits for it. `Detection`: the ping of `autoVersion` never has a socket, so
that nothing opens the login of a client that waits for it. `Early`: before the
authentication is over the gate is closed or the client waits; `Behind`: there is
no socket without the gate.

`InboundProofs` proves `Delivered` for any number of frames, any budget of a turn
and any limit of a bundle. `Line`: what was emitted, the bundle, the packets a
fresh parser keeps, the frames the splitter holds, its buffer and the chunk that
waits are sorted, each is before the next, and all of it has arrived. `Keeps`: a
parser that has ticked has nothing left but in its own loop, one that failed is
given nothing since the pipe is paused, and a chunk only waits for a turn that
will come. `EmitKeepsOrder` is the listener of a packet, `ReadKeepsLine` the
parser, and `ReadStep` serves both loops that feed it. `BundlesTogether` is
`Marked`: a bundle is open exactly behind an odd number of delimiters, as long as
none was lost, and holds only what was marked with that number.

`ClientSessionProofs` proves `CodecTogether`, `AnsweredOnce`, `SessionAnnounced`,
`ListensOnce` and `HandoffSurvives` for any cookies, channels, options and
bounds. Both ends are in the same state (`Together`), or the client is ahead
(`Ahead`: it has read the switch and nothing is left to read, and its frames are
divided by the one that acknowledges, `Switched`), or it is behind (`Behind`,
only on the way to a game without configuration, when it has written nothing).
An answer needs its listener, so `Questions` says that a question which was not
asked yet, or not answered, has one; `Stage` says which entry into the
configuration the listeners belong to. `Owed` counts: what the server is owed is
the questions and the answers under way together, and no less once the client
cannot write any more. The channels have one listener as long as there are any
(`Listens`), and a snapshot is another map than the one that is written to
(`Handoffs`).

Assumptions are the named ASSUMEs on the constants and the hypothesis of
`TimeoutCorrect`; nothing else is assumed.

Only model-checked: liveness (`EndTerminates`, `BacklogDrains`, `LoginSettles`,
`SwitchCompletes`, `SilentPeerEnds`, `CloseFinishes`, `AllRead`,
`PingSettles` and `EndedCloses`), which the prover cannot do under fairness.

## 6. What the models leave out

* Bytes, schemas, cryptography. An RSA failure, a bad signature or a bad verify
  token is a choice (`Refuse`, `EncryptionFails`).
* `Login` leaves out `server_data`, which changes no state of either end, and
  the profile key checks, each of which ends the client as `Refuse` does. A
  lost connection is seen by both ends. Frames to the server are never misread
  (the run checks it), so what a server does with one is not modelled.
* `ClientKeepalive` leaves out the diagnostics. `hasActivitySinceGraceStarted`
  is always false when the grace timer fires, since activity clears that timer.
* `Inbound` leaves out the legacy ping, an invalid length, the pause of a pipe by
  frames larger than a stream's buffer, and raw packets of unknown ids in a
  bundle. It begins with the streams of a connection that is set up.
* `Connect` leaves out a stream that is given as an option (a socket that cannot
  be refused), the validation of options, the choice of a version from a status,
  and what the keep alive, which runs from `onReady` on, does to a socket.
* `Outbound` counts close timers; a second `end()` leaves the first timer armed,
  the earliest one is the one that matters.
* `ClientSession`: the check of `disableChatSigning`, the list encoding of the
  register channel, the events of chat, and the forwarding response itself, which
  is encoding and an HMAC. Its server is one that keeps to the protocol.
* `ChatWindow`: cryptography (an index that differs is a signature that fails),
  clients that do not sign, and the checks of `server/chat.js` that come before
  the window, which may end the client at any message (`OnChatMessage`, its third
  disjunct): the clock, the checksum, `disabledChat`.
* `ChatChain`: cryptography (a signature is its place in its chain), the expiry of
  messages, which does not touch the chain, and the keys of the players.
  `HonestStays` excepts what the code does not follow (`careless`).
* `Server`: the options of `createServer`, the content of a ping's answer, the
  legacy ping, which answers with raw bytes.
* `Codecs`: `uuid.js`, `checksums.js` and `transforms/binaryStream.js` (hashes and
  a wrapper), rounding, and what a peer without this library writes.
* Authentication against Mojang and Microsoft are requests to external services.
  Their outcome is a choice where the login needs it.
* Examples (the proxy among them) are uses of the library.
* `index.js`, `browser.js`, `version.js`, `states.js`: exports and constants.
