# OpenScumRcon, specified in TLA+

OpenScumRcon is a UE4SS C++ mod for the SCUM dedicated server. It opens an RCON
port, takes commands from authenticated clients on a thread of its own, hands
them to the game thread through a queue, executes them there by calling the
game's native command handlers, and sends the answers back. This directory holds
TLA+ models of that program, TLC configurations that check them on small
instances, and TLAPS proofs about the hand-off of commands, the packets on the
wire, the parser of commands, the native dispatch, the capture of replies, the
configuration, the weather, the trace, the life of the mod and the scanner for
instances of any size. `PROJECT.json` links each definition to the lines it
models, lists the runs, and for each property a plausible bug that it detects.

The paths below are relative to `src/native_module/src/`.

## 1. The system

| Component | State | Operations | Talks to |
|---|---|---|---|
| Command queue (`command_queue.hpp`, `command_authority.hpp`) | `m_pending`, one promise per command | `enqueue` (any thread), `drain` (game thread) | listener, game thread |
| Game thread (`dllmain.cpp`, `drain_and_dispatch`) | the batch of a tick, the command in hand | drain, check authority, dispatch, keep the promise | queue, dispatchers |
| RCON listener (`rcon_server.cpp/.hpp`) | `m_running`, `m_thread`, `m_listen_socket`, the client socket and the future of `handle_connection` | `start`, `run`, `handle_connection`, `stop` | sockets, queue |
| Wire protocol (`rcon_protocol.cpp/.hpp`; `recv_exact`, `recv_packet`, `send_all`) | none between calls | encode, decode, receive, send | sockets |
| Request parsers (`godmode_request.hpp`, `dispatch_request.hpp`) | none | text to request | `AdminDispatch::dispatch_command` |
| Native dispatch (`godmode_dispatch.cpp`, `registry_dispatch.cpp`) | `signatures_ok`, `native_faulted` | find the player, resolve the command, call the handler, compose the answer | the game's objects, reply capture |
| Response capture (`response_buffer.hpp`, `response_capture.cpp`) | per-thread chain of `ResponseScope`s, the hook | open and close a scope, `receive`, `initialize`, `shutdown` | handlers of the game on any thread |
| GodMode trace (`godmode_trace.cpp`) | `deadline`, `calls`, `pending`, `active`, the log file | `start`, `stop`, `tick`, `shutdown`, the detour | game thread, file system |
| Observer switches (`dllmain.cpp`) | `m_capturing_calls`, `g_capturing_registration_calls`, the line counter | diagnostic commands, ProcessEvent callback, registration detour | every thread of the game |
| Mod lifecycle (`dllmain.cpp`, `AdminDispatch::initialize` and the initialisers it calls) | members, callbacks, hooks, the flags `build_ok`, `hook_ok`, `signatures_ok`, `hooked`, `interface_hook_ok` | construct, `on_unreal_init`, destroy | all of the above, UE4SS's hook manager |
| Live queries (`registry_dispatch.cpp`, `live_query_format.hpp`) | `faulted` of `connection_ip` | ListPlayers, GetWeather, GetTimeOfDay, `!commands` | the game's objects |
| Configuration (`load_config`) | none | reads three keys once | file system, `on_unreal_init` |
| Diagnostic dumps (`admin_dispatch.cpp`, `!dump_*`, `!call_*`) | none | print reflection data | the game's objects |
| `pe_xref_scanner` (`src/tools/pe_xref_scanner/main.cpp`) | none | string search, sweep, dumps | the file of a program |

A command travels: client socket, `recv_packet`, `enqueue`, `drain`, the two
parsers, a native call inside a `ResponseScope`, `promise.set_value`, the future
in `handle_connection`, `encode_response`, `send_all`.

### What is hard here, and what correctness means

- **Queue.** Callers append while the game thread swaps the deque out, and give
  up while their command is executed. Nothing may be lost, repeated, reordered,
  or answered to the wrong caller, and no unauthorized request may reach the
  game thread.
- **Listener.** One worker serves one connection at a time. A 25-second timeout
  races the answer; `handle_connection` has six exits and closes the socket
  before each by itself, at five places; `stop` runs on another thread and races the publishing of
  the listening socket. Commands come only from connections that gave the
  password, answers belong to their command and are final, no socket leaks,
  and unloading ends if clients leave.
- **Wire.** TCP cuts the stream anywhere. Packets are found again exactly;
  responses are split at code points and put together without a change.
- **Parsers.** Two parsers with different rules read the same text. Documented
  quoting is read back; an executed command is nothing but what was written.
- **Native dispatch.** Players reconnect, die and respawn, also during a call; a
  handler may raise. Only eligible commands run, for the one player that was
  meant, and the answer tells truly whether something was executed.
- **Capture.** Replies of any command arrive on any thread, calls nest, texts
  meet two different limits. A scope gets its own replies and says when it
  lost some.
- **Trace.** The log can fail at any write, calls nest, are left by an exception
  or return after the window has closed. No description is lost, armings are
  not mixed, and the pointer to the description in progress does not dangle.
- **Observers.** One switch has two owners, the client and every dispatch; the
  line counter wraps.
- **Lifecycle.** The listener must take no command that nothing executes. The
  initialisers check bytes that other hooks patch, so their order decides what
  is available. Members are destroyed in an order that must leave no user of
  the queue behind.
- **Configuration.** A comment sign anywhere in a line cuts it; the port is cut
  to 16 bits or throws.
- **Live queries.** Names chosen by players stand in rows that clients split at
  bars and line ends; fields of the weather may be missing, and which of them
  matter depends on the query; the clock rounds.
- **Scanner.** File offsets and addresses move together through code that does
  not always decode; the dump around a reference starts out of step with the
  sweep that found it.

The hazards are listed one by one, each at its line, in `PROJECT.json`.

## 2. The modules

| Module | Models | Extends / instantiates |
|---|---|---|
| `CommandQueue` | `enqueue`, `drain`, promises and futures | |
| `GameThread` | `drain_and_dispatch`, one command per step | `CommandQueue` |
| `QueueHandoff` | any number of calling threads and the game thread | `GameThread` |
| `RconServer` | `start`, `run`, `handle_connection`, `stop` over sockets | `CommandQueue` |
| `RconService` | abstract: what a remote console promises | |
| `RconSystem` | listener, queue, game thread, unloading together | `GameThread`, `RconServer`; `RconService` by refinement |
| `RconSystemProofs` | theorems and proofs of the hand-off, with any callers and with the listener | `RconSystem`, `QueueHandoff` |
| `Utf8TextProofs` | what the three proofs about texts share: induction, sequences put together, the longest prefix of whole characters | `Utf8Text` |
| `RconWireProofs`, `ResponseCaptureProofs`, `PureFunctionsProofs` | theorems and proofs of the module each is named for | that module, `Utf8TextProofs` |
| `NativeDispatchProofs`, `GodModeTraceProofs`, `ModLifecycleProofs` | theorems and proofs of the module each is named for | that module |
| `Utf8Text` | text as bytes, `utf8_prefix_size` | |
| `ResponseCapture` | scopes, `accept`, `receive`, the hook | `Utf8Text` |
| `RconWire` | one connection as two streams | `Utf8Text` |
| `SymbolText` | trimming and cutting of texts | |
| `RequestParser` | both parsers and their order | `SymbolText` |
| `ConfigFile` | `load_config` | `SymbolText` |
| `LiveFormats` | clock, weather, rows of ListPlayers and `!commands` | `Utf8Text` |
| `PeScanner` | the scanner, over any disassembler | |
| `PureFunctions` | one call of any of the four above | those four |
| `NativeDispatch` | GodMode route, `!exec` route, live queries, the game around them | |
| `GodModeTrace` | the detour, arming, saving, up to the end of the mod | |
| `Observers` | nested-call capture, registration capture | |
| `ModLifecycle` | `on_unreal_init`, the destructor, the mod loaded again, around the observers | `Observers` |
| `MC*` | instances for TLC | |

**Commands are numbers** in the order in which `enqueue` accepted them; the text
of a command and of its answer does not matter to the hand-off, so the result of
command *n* is *n*, and an answer in the wrong place shows. `NoValue`, `Denied`
and `TimedOut` are the other values a promise or an answer can have. `accepted`,
`executed`, `owner`, `replies`, `firstPacket`, `taken`, `said` and the like are
history variables, marked as such: the code does not have them and no guard of
an action that models code depends on them, except the bounds.

**Atomicity.** A step is what runs between two points where another thread can
be seen to act: a mutex section of the queue, a socket call, an access to an
atomic, a native call. On the game thread, `DispatchItem` takes a command and
`Respond` keeps its promise; between the two everything else may happen. In
`NativeDispatch` the check of the target, the call and its return are separate
steps, and only inside the call (or between two requests) does the game change,
for nothing else of the game runs on the game thread in the meantime. `Shutdown`
removes the reply hook at any moment. An exception can come before the call
(`Throw`: the players or the registry cannot be listed) or out of it (`Raise`);
`drain_and_dispatch` answers both with the same words, except for the generic
route, which catches what its own handler raises.

**Replies** (`ResponseCapture`). `current` is a pointer for each thread to a scope
on some stack, as in the code, and `receive` follows it. `calls` records of each
call of the reply method which executions were open on its thread and where it
went; where it should go is defined from the former alone.

**Sockets** (`RconServer`). A connection is offered in the backlog, served or
closed; closing the listening socket resets the backlog. A peer that is gone
lets receives and sends fail at any later moment; data that was sent before is
still delivered. The first packet is a choice among the kinds that
`handle_connection` tells apart.

**Data.** A packet on the wire is a length, a head that counts as one byte, the
payload, two terminators. In the stream to the server the length is two tokens,
for `recv` may return with a part of its four bytes, and only the second makes
it known; in the stream to the client, which nothing here takes apart, it is
one. `MaxChunk` and `MaxBody` have the values of the
instance. A character takes one, two or four bytes, and is one or two UTF-16
units. A text for the parsers is a sequence of symbols: the known words are one
symbol each; of the two diagnostic words of the GodMode parser one is there,
`!godmode_state`, with which it does what it does with `!godmode_prepare`.
VT and FF, which are white space for one parser and controls for
the other, are left out.

**Pure functions.** What keeps no state is a function of its input, and a
behaviour of `PureFunctions` takes one input and computes its output. Each
property compares the two with a definition of what the function is for that is
written differently: what a client that splits the rows reads, the half-open
minute that a clock shows, the least set of places a sweep reaches. Inputs that
have to be produced (`Rendered` arguments, a `Written` configuration) are
produced by an operator that stands for the person or program that writes them.
A function that may throw returns a set of at most one value. The clock counts
in parts of a minute; bytes of an image are small numbers, of which the
instance's `Decode` makes instructions of one to three bytes with relative and
absolute operands.

**Lifecycle.** `Stages` is the order of `on_unreal_init` and of the destructor,
`step` the place in it; each initialiser is an action that reads `patched`, the
functions of the game that do not begin with their own code any more. The host
may turn down a registration, which `on_unreal_init` does not test: it goes on,
and keeps in `m_engine_tick_callback` that there is no tick to unregister. The
destructor runs whatever `on_unreal_init` came to. `Detach` is the host's part:
it frees the library, with which the static detours and flags of the mod go
away, and forgets its callbacks. In between, commands and events are those of
`Observers`, enabled only while the tick, the callback or the patch that brings
them is there.

## 3. The runs

| Run | Instance | Question |
|---|---|---|
| `queue` | 3 callers, 3 commands | Does each caller get the result of its own authorized command, and does a caller that waits get one at all? |
| `rcon_safety` | 3 connections, 3 commands | Does the whole system keep the hand-off, the password, the answers, the sockets and its own destruction in order, and does it implement `RconService`? |
| `rcon_liveness` | 2 connections, 2 commands | Is what was accepted executed and answered, does unloading end, does the backlog move? |
| `capture` | 2 threads, 2 commands nested to depth 2, 3 replies, buffer of 4 bytes and 2 messages | Does every reply go to the execution it belongs to, or past all of them to the original method, and is it held whole, cut at a code point, or reported as cut or failed? |
| `trace` | 2 threads, 2 armings of 2 calls, nesting 2, 2 lookups in a call of which 1 is described, one failing write | Do descriptions survive, stay with their arming, and get saved? |
| `native` | 2 controllers with one SteamID or none, 2 pawns, 11 registered classes | Is what is executed eligible, and is the answer true? |
| `observers` | 2 lives, registrations that may fail, 2 required objects and an optional one, 2 threads, counter modulo 3, limit 1, 5 lookups | Is everything there when the listener serves, in each life, and do the switches capture no more than they should? |
| `wire` | 3 pipelined packets, lengths in two parts, chunk 4, body 5 | Do packets and texts survive every way of cutting the streams? |
| `parser` | about 63,500 inputs of the pure functions, see below | Is what was written read back, what is shown true, and what refers found? |
| `find_stop_blocks`, `find_unload_aborts`, `find_manual_capture` | as above | See section 5. |

The bounds suffice for the cases the code tells apart:

- *Three commands*: one timed out, one in progress, one queued. The first result
  can arrive while the client waits for the third. More commands repeat these
  roles, and the proofs cover all of them. *Three connections*: served, in the
  backlog, already gone. Liveness takes two of each, which is enough to have one
  behind the other.
- *A buffer of 4 bytes* with characters of 1, 2 and 4 bytes has a character end
  before, on and behind the limit, with and without a separator; messages have up
  to three units beyond the bounded read. *Three replies* are one more than
  the limit of two.
- *Two armings, two calls, depth two*: a call of the first arming can return in
  the second, a nested call can be the one too many.
- *Two controllers*: one to find, one to be mistaken for it. The argument counts
  cover each class below, at and beyond its declaration, and between two
  repetitions.
- *Five lookups modulo three* go past the wrap of the counter; `find_manual_capture`
  uses five and twelve. *Two lives* are enough for the second to find what the
  first has left.
- *One description of two lookups*: the second is the one too many, and the next
  call must begin to count anew.
- *Inputs of the pure functions*: every continuation of `!exec <id> ` by four
  symbols; passwords of up to three symbols and ports of every kind, with and
  without comments around them; every half minute of a day and one beyond each
  end; every pair of missing fields; names of up to four characters, one more
  than a row takes, and lists without any; all code of five bytes over four kinds, before and behind
  the data, and an image without code. An argument that is one longer than
  `MaxToken`, and lists of arguments that are longer than `MaxText`.
- *A body of 5* holds at most two bytes of payload; requests go one byte beyond
  that.

Connections in `rcon_safety`, controllers and pawns in `native`, threads in `observers`, threads
and commands in `capture` are symmetric; the runs with liveness properties use no
symmetry. Deadlock is checked for the queue and the system; `RconSystem` has an
explicit final state after the members are destroyed. It is switched off in the
other runs, whose histories reach their bound.

### Fairness

`RconSystem!Fairness` assumes what operating system and engine give: the worker
thread runs (`WF`), the engine ticks and the game thread finishes its commands
(`WF`), the unloading thread runs (`WF`). A receive or send is not assumed to
end while the client is there, and accept is not assumed to fail: the code has
no timeout on either. `Unregister` has strong fairness: the hook manager can
remove the callback only between two ticks, and ticks come again and again.
What only clients can give is a premise of the property that needs it:
`ClientsRead` for the answers, `ClientsLeave` for unloading and for the backlog.
Without these premises the three properties are false; for unloading that is the
first finding. `AcceptedIsExecuted` needs none. `QueueHandoff`
assumes that the engine ticks and that a caller whose future is ready takes it;
nobody is assumed to give up.

`GodModeTrace` assumes of the engine and the disk that a tick which can run
again and again writes everything once (`SF` of a tick without a fault: the tick
waits for the game thread, which may be in the handler, and the write may fail
now and then). That the game's handler returns is the premise
`GameThreadReturns` of `DescriptionsAreSaved`; nothing in the mod sees to it.

## 4. The proofs

TLAPS checks these theorems for every value of the constants:

| Theorem | Statement |
|---|---|
| `RconSystemProofs!TypeCorrect` | `TypeOK` |
| `RconSystemProofs!CommandsInOrder` | `HandoffInOrder` |
| `RconSystemProofs!RepliesAreOwn`, `AnswersAreFinal` | `ReplyIsOwn`, `RepliesAreFinal` |
| `RconSystemProofs!PasswordBeforeCommand` | `AuthBeforeCommand` |
| `RconSystemProofs!NoSocketLeaks`, `StopLeavesNothing` | `SocketsAccounted`, `StopReleases` |
| `RconSystemProofs!NoUseAfterDestruction` | `QuietWhenDestroyed` |
| `RconSystemProofs!ImplementsService` | every behaviour is one of `RconService` |
| `RconSystemProofs!OnlyAuthorizedReachGameThread`, `UntrustedRefused` | with any callers, no request without authority gets in; it is refused at once |
| `RconSystemProofs!FuturesHaveOneOwner`, `ResultsAssociated` | futures are not shared, results are the caller's own |
| `RconWireProofs!WireTypeCorrect` | `TypeOK` |
| `RconWireProofs!WireKeepsPackets`, `WireReplyFramed`, `WireResponseIntact` | `StreamKeepsPackets`, `ReplyStreamFramed`, `ResponseIntact` |
| `PureFunctionsProofs!RoundTrips`, `ExecClean`, `ConfigReturned`, `WeatherTrue` | `RoundTrip`, `ExecIsClean`, `ConfigReadBack`, `WeatherIsTrue` |
| `PureFunctionsProofs!RowsReturned`, `XrefsFound`, `DumpsTrue` | `RowsReadBack`, `XrefsExact`, `DumpsAreTrue` |
| `ResponseCaptureProofs!CaptureTypeCorrect` | `TypeOK` |
| `ResponseCaptureProofs!BoundedTheorem`, `NoSilentLossTheorem`, `RepliesTheorem` | `BoundedWholeCharacters`, `NoSilentLoss`, `RepliesFindTheirExecution` |
| `NativeDispatchProofs!VerifiedTheorem`, `ExecutedTheorem`, `EligibleTheorem`, `WithheldTheorem`, `LatchTheorem` | `VerifiedIsTrue`, `AnswerTellsWhetherExecuted`, `OnlyEligibleExecuted`, `NothingWithheld`, `FaultLatches` |
| `GodModeTraceProofs!LiveTheorem`, `NoneLostTheorem`, `BoundedTheorem`, `SeparateTheorem` | `ActiveIsLive` (in a build that unwinds), `NoRecordLost`, `CapturesBounded`, `TracesSeparate` |
| `ModLifecycleProofs!ServedTheorem`, `AvailableTheorem`, `QuietTheorem`, `BoundedTheorem` | `ServedWhileListening`, `SupportedMeansAvailable`, `NestedLogQuiet`, `BoundedUntilWrap` |

What is assumed of the constants is named in the module that declares them, and
TLC evaluates it for each instance: numbers are natural, `NoConn` is no
connection, `Game` is a thread, and

- `ObserversAssumption` and `RequestsAssumption` have finite sets of threads,
  controllers and registered classes, for the models count or pick from them;
- `WireAssumption` has `MaxChunk` at least 4. A code point has up to four bytes:
  with a smaller chunk there are texts of which no whole character fits,
  `ChunkLength` falls back to cutting anywhere, and `ResponseIntact` is false.
  The code's `MAX_RESPONSE_CHUNK` is 4,086. `MaxBody`, the code's 8,192, is at
  least 2;
- `InputsAssumption` has texts made of the parser's symbols, arguments of those
  that a command may contain (no control but tabs, which
  `parse_dispatch_request` refuses), configurations as `IsConfig` says, and
  finite sets of controllers, for the property counts them. `IsConfig` takes any
  values for any of the three keys, one note of blanks and a comment behind each,
  and before them any lines that set nothing or that set a key which comes
  again. Such an earlier port has to be a number: otherwise `std::stoi` throws
  and the later, right one is never read. Of lists of players and commands, a
  name is any text that does not begin inside a character (`utf8` throws on what
  is no Unicode), and a SteamID or a state is a word that is neither a mark of a
  row nor one that tells of an address (`steam_id_valid` takes digits only, the
  states are literals). An image is as `IsImage` says: no two
  sections share bytes of the file or addresses, without which an address has
  two places and both properties are false; and the disassembler, a parameter of
  the model, takes an instruction of one to `MaxInstruction` bytes for what it is
  as soon as its bytes are there, whatever comes behind them. What the bytes
  mean, how many sections there are and whether they lie within the file is free;
- `LiveTheorem` takes `Unwinds` as its premise (section 6).

The arguments:

1. *The hand-off.* `HandoffInv` is about the queue and the game thread alone.
   `HandoffInOrder` by itself is not inductive: when a tick
   ends, the next drain overwrites the batch, which loses nothing only because
   the batch is empty; that is `TickInv`. When a promise is kept, that it is the
   right one needs that the command in hand is the last one executed, also
   `TickInv`. One lemma for each of enqueue, drain, dispatch, respond and the end
   of a tick shows that it is preserved, whoever the callers are.
   `CallersInv` adds the callers' futures.
2. *The listener.* `IInv` adds to it three parts. `SessionInv`: the
   handler's connection is the one served and past the password when it takes
   commands, and a connection is served only once, without which a second session
   could inherit a command. `AnswerInv`: the handler holds the newest command, for
   which nothing was sent yet, without which a late result could be an answer
   twice. `LifeInv`: `m_running` tells `stop` the truth until `stop` clears it,
   without which `stop` could return with the worker alive. `ReleaseInv` is
   inductive on top of these: a listening socket is open only between set-up and
   teardown, and only an open one has a backlog; since the worker has ended when
   `stop` returns, nothing is left.
3. *The refinement.* `ImplementsService` maps `done` to the executed commands
   without the one in hand, `open` to the handler's future and `reply` to the
   answers. Each step of the system is a step of `RconService` or leaves it as it
   is; the invariant gives the guards of the abstract steps.
4. *Induction over texts.* The induction theorems of the library take an operator,
   which the provers do not instantiate. `Induction` (`Utf8TextProofs`) is about a
   set instead: if it has 0 and with each number below *n* the next, it has *n*;
   it follows from the library's well-founded order of finite sets, of which a
   least counterexample would have no smaller one. A fold or a recursive
   function is then replaced by the list of its intermediate values (`Runs`,
   `Joins`), which exists for every length and agrees with the definition at its
   end: this is how `FlattenSeq`, `Scan`, `Words` and the longest prefix of
   `utf8_prefix_size` are reasoned about.
5. *The capture.* `Chained` says that `current` of a thread points at the innermost
   open scope of that thread, and each `previous` at the one around it, whatever
   the other threads do: so the scope that `receive` finds is that of the last
   execution opened and not yet returned from (`CurrentIsLast`), from which
   `Routed` follows for each call. `Sound` holds of each scope of
   each chain. That a cut is at a code point rests on `PrefixSize`; text of whole characters that goes on
   with no continuation byte ends with a character. For `NoSilentLoss`, `Sound`
   says of a scope that admits no loss that its output is all that was `said` to
   it; what `receive` leaves of a message unread is beyond the limit anyway
   (`MessageRead`, from `Utf8Bytes`: a text has at least as many bytes as
   units), so that `accept` cuts the text and says so.
6. *The wire.* `ReadInv` is about the requests. `Layout` says where each request
   that was sent begins and ends in the stream; `Aligned` says that what the
   server has read of it are whole requests, and of the next one the two parts of
   its length if it waits for the body, so that what it has in its buffer and what is still under
   way continue there. Then the size it reads is that of the next request, and
   the body is judged as that request deserves (`BodyJudged`). `WriteInv` is
   about the answers. `Framed` speaks of a stream by the places where packets
   start, and holds of a framed stream with one packet more (`FramedMore`);
   sending moves tokens from one part of the stream to the next and changes
   nothing of the whole. That chunks end with whole characters is `ChunkWhole`:
   of the bytes of a text no four in a row all continue a code point, so there
   is a place to cut and the fallback of `ChunkLength` is not taken.
7. *The parser.* `RenderedPlaces` says where each argument, its quotes and its
   backslashes are in the rendered text. `Stands` is the invariant of the scan at
   such a place: it has the tokens before it and the part of the next one that
   was read, or it has failed, and then a token is too long or there are too
   many. One lemma for each kind of symbol takes the scan over one character
   (`StandsPut`, `StandsBlank`, `StandsQuote`, `StandsEscape`), `ArgumentStands`
   over an argument, `RenderedStands` over all. `NotGodMode` shows that the
   parser asked first leaves the text alone, and `ClassifyAll` that the second
   takes it for what it is. `ExecIsClean` starts from any text instead. `Only`
   keeps the symbols of a set; it is a fold, and `Only` of a text with one symbol
   more is that of the text and of the symbol. `Faithful` is the invariant of the
   scan: unless it has failed, the letters of its tokens and of the one in
   progress are the letters of what was read. `Collected` is that of `Words`.
   What `Trimmed` takes away are blanks, and `Classify` takes the tokens apart
   without changing their order.
8. *The configuration.* A line of `Written` has its first equals sign behind the
   key, whatever the value has, and what stands before the comment is the key,
   the equals sign and the value up to its own first comment sign, if it has one,
   otherwise up to that of the note (`LineRead`). `TrimmedInside` gives of a text
   with blanks around it the middle; with it a value is read back exactly if it is
   `Plain`, and a port is the same number with the note or without it
   (`ReadNumber`), for `std::stoi` stops behind it. `Loaded` is the invariant over
   the lines: a setting whose own line was read has the value of that line, a key
   without one its default, and there is no configuration left exactly if a port
   was read that is no number. It needs that a key comes only once below the
   earlier settings; `SetToSeq` lists them in any order (`ListOfSet`), and no two
   keys have the same line.
9. *The weather.* There is an answer only of a set with one controller
   (`WeatherOfOne`). `ClockShows` splits the division of a time by the
   resolution; midnight at the end of the day is the case of its own.
10. *The rows.* `Split` goes through a text symbol by symbol; `Ends` says what
    parts it has come to and what stands in the last one, and follows it over a
    symbol, a mark, and a text without marks. So three columns with two bars
    between them, and rows with a line end behind each, are found again
    (`SplitThree`, `SplitRows`) if no column has a bar and no row another line
    end: which is what `Field` sees to (`FieldShows`, with `LongestPrefix` for the
    place of the cut). `DetailsOnce` counts the words that tell of an address
    along the details of a player. `MatchingIs` finds the places of the registry
    that the catalogue shows: those that match and no others, in rising order.
11. *The scanner.* A sweep is replaced by the list of what it finds from each
    place on (`Sweeps`), about which `Downwards` argues from the end of the bytes
    to the front. `InStep` holds of each: the lines are instructions, one behind
    the other, and no instruction begins between them, for a place is left out
    only where the disassembler fails and is within a line otherwise. That the
    lines are those of the least set that goes on as the sweep does
    (`SweepPlaces`) has two directions: each such set has them, from the end to
    the front, and the places whose list is part of the whole are such a set.
    `FromFile` and `ToFile` say that a place of the file has at most one address,
    which is the one the scanner computes. `OneMarked` is
    about the dumps, which start anywhere: of a listing in step exactly one line
    is over the first byte of an instruction, and the window is long enough for
    the instruction to be seen in it (`WindowAfter` is at least
    `MaxInstruction`).
12. *The dispatch.* `CallInv` ties the phase to whether the handler was called and
    for which target: an answer without a call comes from a phase before it, and an
    exception after one only from the GodMode route. Two lemmas say of what parts
    an answer can consist; what was said to be verified was compared in the
    same step, while the game waits.
13. *The trace.* `FrameInv`: at most one call is captured, on the game thread,
    under the arming in force, and `active` is its description. Without it a tick
    or a new arming could take the description from under a call. `UnwindInv`: a
    description without its call does not exist in a build that unwinds.
    `PendingInv` and `LogInv` count what waits and keep the log in the order of
    the armings, whichever write fails.
14. *The lifecycle.* `ServingInv` follows listener and tick through the stages:
    from its registration to the destructor the tick is there just if
    `m_engine_tick_callback` says so, which is what the destructor goes by.
    `PatchInv` lists for each stage what may be patched by then, which is why the
    initialisers that check a prologue come before those that change it.
    `NestedInv` ties the switch to its two owners, `CountInv` the lines to the
    counter.

Type correctness of the system, `RepliesAreFinal` and `OnlyAuthorizedQueued` are
theorems that no run repeats: the proofs show them for every instance, and what
could break them in the code breaks `ReplyIsOwn` or `AuthBeforeCommand` as well.

Attempts that failed showed two mistakes of the models, which are corrected:
`Bytes` contained a second byte of a character that has only one (`Utf8Text`), so
that lemmas about every byte were false; and `Encodes`, the premise of
`ResponseIntact`, was so weak that texts satisfied it which are no UTF-8, and for
them the property fails.

Only model-checked: liveness and everything under fairness, which the prover does
not reach. Every other property that a passing run checks is a theorem.

## 5. Findings

1. **`stop()` may never return** (`rcon_server.cpp:207`, run `find_stop_blocks`).
   The comment says that closing the listening socket unblocks `accept` "so the
   thread can exit". A worker in `recv` on a client's socket is not unblocked by
   it, and `join` waits for as long as a silent client stays connected.
2. **A listener that ended by itself is never joined** (`rcon_server.cpp:200`,
   run `find_unload_aborts`). If `bind` or `accept` failed, `m_running` is
   already false, `stop()` returns before its join, and the destructor of a
   joinable `std::thread` ends the process.
3. **`!capture_start` ends with the next command** (`dllmain.cpp:637`, run
   `find_manual_capture`). It is announced as independent of dispatched commands,
   which share its switch and clear it when they are done.

Differences between documents and code, and lesser things, that were met on the
way and have no run of their own:

- `on_unreal_init` does not test whether the tick was registered
  (`dllmain.cpp:383`). Were it turned down, the listener would be started all the
  same and every command time out, where a missing object makes it "refuse to
  start the RCON listener"; `ServedWhileListening` has this as its exception.
- An exception on the GodMode route is answered alike whether it came before the
  handler was called or out of it (`dllmain.cpp:640`), so that a client cannot
  tell whether SetGodMode was executed. The generic route tells
  (`AnswerTellsWhetherExecuted`).
- `rcon_server.hpp:6` has the handler block until the game thread has produced a
  response; after 25 seconds it answers "command timed out" while the command is
  still queued and will be executed (`WaitTimeout`; `AcceptedIsExecuted` says
  that it is).
- `docs/NATIVE_COMMANDS.md` names 8,192 request bytes as the limit; `recv_packet`
  limits the whole body, header and terminators included, so that requests of
  8,183 to 8,192 bytes end the connection (`SizeOutOfRange`).
- The same page says that embedded controls and multiple lines are rejected. The
  GodMode parser reads words separated by any white space, line breaks too
  (`Words`).
- `main.cpp:221` of the scanner says that a function dump "stops early at `ret`";
  `dumpFunctionAt` has no such test and always goes on to the end of its window
  (`Sweep`).
- `godmode_trace.cpp` `shutdown` ticks once, but a description that is finished
  behind it is saved only if the game thread ticks once more before the callback
  goes (`DescriptionsAreSaved` with its exception for `mod = "gone"`).
- `dllmain.cpp:172` calls the registration capture bounded; the counter counts
  lookups, wraps after 2^32 of them and then grants another 256 lines, hence the
  premise of `BoundedUntilWrap`.

## 6. Assumptions and what is left out

- **The build unwinds.** A structured exception that passes through
  `capture_execute` runs destructors only with `/EHa`, which UE4SS's build, not
  this repository, decides. `GodModeTrace` has the choice as the constant
  `Unwinds`; the run has it true, and with false `ActiveIsLive` fails. Likewise
  the GodMode route relies on `drain_and_dispatch` to catch an exception.
- **The hook manager** of UE4SS, Unreal's object system, Winsock and the clients
  are external. Unregistering a callback is assumed to wait for one in
  progress.
- **A data race**: `godmode_trace::shutdown` runs on the unloading thread while
  the game thread may push to the same vector. The model takes both as atomic.
- **Handles**: `stop` and `run` both close the listening socket; that its handle
  value is not reused in between is assumed.
- **Loading and unloading.** The host deletes the mod, drops its callbacks and
  frees the library before it starts it again, and frees it only when no thread
  is in a detour (`Detach`). The destructor takes only the tick and two of the
  four patches down itself: if the host did otherwise, the ProcessEvent callback
  would run on a freed object, and the initialisers of a second life would find
  functions that are still patched and refuse the build. That an event comes
  after the destructor is left out for the same reason.
- **A transient accept error** ends the listener for good, as its comment says;
  `AcceptFail` models it and no property demands otherwise.
- **Partly modelled**: of the observers, the native-call capture (a switch that
  nothing else touches) and the console, call-by-name and multicast observers,
  which only write to logs of unbounded length; of the scanner, the PE headers,
  the arguments and the printing.
- **Not modelled**: the diagnostic dumps (`!dump_*`, `!call_*`), which print
  memory and reflection data of the game and keep no state; the tests. With
  those what is left of the repository is description of the game's objects,
  formatting, and calls of the platform.

## 7. Plan

Done: the hand-off and the listener (`CommandQueue`, `GameThread`, `RconServer`,
`RconSystem` with its abstract `RconService`, `QueueHandoff`); the command's way
in and out (`RconWire`, `RequestParser`, `NativeDispatch`, `ResponseCapture`); the
diagnostics (`GodModeTrace`, `Observers`); the life of the mod (`ModLifecycle`);
the pure functions. The state machines, the two parsers, the configuration, the
live queries and the scanner have their proofs.

Next:

1. *State* what a reply buffer and a trace log promise as abstract
   specifications, and show that `ResponseCapture` and `GodModeTrace` implement
   them.
