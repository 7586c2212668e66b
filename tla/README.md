# A TLA+ model of the MessageU messaging program

MessageU is a store-and-forward messenger: C++ clients on a console, and one
Python server that keeps clients and messages in SQLite. Clients never talk to
each other; a message is left with the server until its addressee pulls it, and
is encrypted end to end with keys that travel as messages themselves.

This directory holds a model of that program in TLA+, the TLC configurations
that check it on small instances, and proofs that TLAPS checks. `PROJECT.json`
lists the components, runs, mutants, findings, hazards and theorems, and maps
each definition to the lines it models.

## The system

| Component | Source | State | Operations |
|---|---|---|---|
| Event loop and sessions | `server/message_u_server.py` | the selector, the events of the last `select()`, the session that runs | `start_server`, `_accept`, `_handle_session`, `_handle_request`, `_after_send_process` |
| Request handling | `server/message_u_manager.py` | none | `register_client`, `list_clients`, `get_client_public_key`, `send_message`, `pull_messages`, `delete_messages`, `_handle_pre_request` |
| Storage | `server/storage_handler.py` | the tables `clients` and `messages` in `server.db` | one SQL statement per method, each committed on its own |
| Request parser | `server/request_parser.py`, `request.py` | the content under construction | `parse_request`, `_parse_content` |
| Response handlers | `server/response_handler.py` | none | `create_response` |
| Client main loop | `client/MessageUClient.cpp` | `isUserRegistered`, the file `my.info` | `init`, `startClient` |
| Commands | `client/UserCommand.cpp` | none | `createServerRequest` of each command |
| Client network manager | `client/TCPNetworkClientManager.cpp` | one socket per call | `HandleRequest` |
| Client requests, responses | `client/ServerRequest.cpp`, `ServerResponse.cpp` | what is written, what has been read | `prepareRequestBuffer`, `parsePayload`, `handleResponse` |
| Client data manager | `client/ClientInMemoryDataManager.cpp` | own id, name and private key; contacts with their public and symmetric keys | getters, `insertClientsData`, `addPublicKey`, `addSymmetricKey` |
| Console | `client/UserCommandConsoleParser.cpp` | none | `getNextCommand` |
| Cryptography | `client/AESWrapper.cpp`, `RSAWrapper.cpp`, `Base64Wrapper.cpp` | none | wrappers of Crypto++ |

How they interact:

- A client makes a **connection per request**: connect, write the request in
  partitions of 1024 bytes, read the response in partitions of 1024 bytes,
  close. It waits for each response, so a client has one call under way at most.
- The server has **one thread**. `select()` returns a batch of events and a
  callback runs for each in turn: `_accept` for the listening socket,
  `_handle_session` for a connection, which blocks until the request is complete,
  handles it, sends the response and closes.
- A request other than a registration first passes `_handle_pre_request`: the
  sender is looked up and its `LastSeen` written. Every storage method opens the
  database, runs a statement, commits and closes: a request is several commits.
- A **pull** returns the messages of the client, oldest first, as many as fit in
  a response. They are deleted after `sendall()` has taken the response.

What is hard about it:

- *Failure in the middle.* The server may be killed between two commits, or
  between sending a response and deleting its messages; a client may die at any
  point of a call. Nothing is retried and no request carries an identity.
- *Streams.* The server takes each `recv()` for one partition. It may return
  less, or nothing once the client is gone.
- *Order of events.* A batch of `select()` is worked off while connections close
  and new ones arrive; requests of clients that died are still handled, later.
- *Limits.* The size of a response, of a value in SQLite, of the parameters of a
  statement and of a message id.
- *Keys.* Symmetric keys and contacts live in memory only, and cross on the way.

What makes each component correct, in brief: the *loop* ends only if
`accept()` raises for a client that died, and releases every connection; the *storage* relates rows to registered
clients; the *parser* rebuilds the content it was sent; a *message* acknowledged
to its sender is neither lost nor cut, reaches its addressee only, once, and
in order; a *client's identity* is its own and belongs to its name; a *key* that
two clients hold for each other is the same.

## Modules

| Module | Models |
|---|---|
| `Ciphers` | the length of a cipher text, and with which key it is decrypted |
| `Protocol` | requests, responses, and the partitions each occupies on the wire |
| `RequestParser` | `_parse_content`: the content of a message from the buffers of `recv()` |
| `SQLStorage` | the two tables and every storage method, each an atomic step |
| `MessageUManager` | the operations on top of the storage, and when each is refused |
| `Sockets` | TCP connections as both sides use them (external) |
| `MessageUServer` | the event loop, the session, crash and restart |
| `TCPNetworkClientManager` | `HandleRequest` step by step, the handling of a response, the death of a client |
| `Relay` | the composition: users' commands, clients, connections, server, database |
| `RelayProperties` | the properties, and the inductive invariant of the types and the loop |
| `RelayInvariants` | the further invariants that the properties rest on |
| `RelayProofs` | proofs about the relay: types, the server's loop, its checks |
| `RelayOwnershipProofs` | who holds a connection, and whose account a response grants |
| `RelayMailboxProofs` | whose mail is in which response, deletion, what may end the loop, the refinement of `Mailbox` |
| `RelayDeliveryProofs` | the order of delivery, and how often |
| `RelayBytesProofs` | partitions and bytes: nobody waits for nobody, contents are whole, what was acknowledged is kept |
| `Mailbox` | the abstract specification: users post mail, the relay hands it over and removes it |
| `RelayMailbox` | the mailbox that the relay implements: the refinement mapping |
| `KeyExchange` | contacts and keys in the memory of the clients, commands and pulled mail, on top of `Mailbox` |
| `KeyExchangeInvariants`, `KeyExchangeProofs` | the invariants of the key exchange, and their proofs |
| `Registration` | the start of a client, `my.info`, the registration as the client and the server see it, failures of the disk |
| `RegistrationProofs` | the theorems about `Registration` and their proofs |
| `Codec` | one call byte by byte: partitions of a request, the server's parsers, the packed response, the client's parsers |
| `CodecProofs` | the theorems about `Codec`, with the lemmas on sequences, numbers and sums that they need |
| `MCRelay`, `MCKeyExchange`, `MCRegistration`, `MCCodec` | instances for TLC |

The two levels meet in `Mailbox`. `Relay` has every connection, partition and
commit, and message contents are sizes; `RelayMailbox` shows that it implements
`Mailbox`. `KeyExchange` takes its steps on mail from `Mailbox` (`M!PostMail`,
`M!HandOver`, `M!Settle`, `M!Receive`) and adds what contents mean to clients.

Two modules refine a part of the system that `Relay` takes as one step or one
number. `Registration` has the write of `my.info` line by line and its read at a
start, on top of the same storage (`MessageUManager`), with a request as one message.
`Codec` has the bytes; its property `PartitionsAgree` compares it with what `Relay`
counts (`RequestPartitions`, `ResponsePartitions` of `Protocol`).

### State and actions against the code

- `clients`, `messages` are the tables; `lastRowId` is SQLite's AUTOINCREMENT
  counter, `lastSeen` the clients whose column `LastSeen` an UPDATE has set. A
  message is a row with its sizes: `size`, announced by the sender, `length`, the
  length of the content stored, `carried`, how many of its bytes came from the
  network. Contents are otherwise opaque.
- `events` is the rest of the batch that `for key, mask in events` walks. The
  model takes its members in any order, as `selectors` promises none.
- `_accept` has no `try`. A connection whose client died while it waited in the kernel's
  queue is returned by `accept()` on some systems (Linux) and makes it raise on others,
  which ends the server. The model does both: `_accept` and `AcceptRaises`, which lets
  `RestartServer` happen once more whatever `MaxRestarts` says. Somebody starts the
  server again.
- `server.db` is opened in the directory in which the server is started, while `my.info`
  stays with the client. `MyInfo` may therefore hold an identity that `Database` does
  not know (`ForeignIds`), and `OldContacts` ids that a process has listed before: a
  client that runs on while the database is replaced sends messages to, or as, a client
  that is not registered. Contacts listed at this server are rows, which are never removed.
- `session` is the running call of `_handle_session`: `pc` says where it is
  (`recv`, `pre` for `_handle_pre_request`, `op` for the operation, `send`,
  `after` for `_after_send_process`, `close`), `payload` is the content being
  built. Each step that commits, or that a crash or a client's step can come
  between, is an action: `RecvBuffer`, `RecvEof`, `RecvError`, `PreRequest`,
  one `Handle...` per request, `SendPartition`, `SendError`,
  `_after_send_process`, `CloseSession`. `RestartServer` may come between any
  two of them.
- An operation of `MessageUManager` after its pre-request is one action: the
  lookup of `send_message` and its INSERT are two statements, but the server has
  one thread and only it writes, so nothing can change between them; a crash
  between them is a crash before the action.
- `conn` is the state of each connection: `up` counts bytes, because the server
  may read less than a partition; `down` counts partitions, because
  `boost::asio::read` returns whole ones. A connection whose both ends are closed
  is free again. If the server closes with bytes unread, TCP resets the
  connection and the client may lose the response (`IsReset`).
- `call` is the call of `HandleRequest` of each client. `myInfo` is the identity
  in memory and in `my.info`. `acked` and `received` record what a user has been
  shown: acknowledgements and nonempty pulls. `AbortCall` ends a process in a
  call; its next command is that of the restarted process.
- In `Mailbox` a lot is handed over (`HandOver`) when `SendPartition` completes a
  pull's response. From then on the server has it to delete (`offered`, the session
  is at `after`) and its addressee, if it lives, has it to read (`onTheWay`): one may
  fail without the other. `Settle` is `_after_send_process`, or a crash before it.
- In `KeyExchange` `contacts[p][q]` is the `ClientData` that p has for q: `Unknown`
  until p lists the clients. What `createServerRequest` changes in memory is part of
  the command, and stays when the request fails. A request waits in `requests`
  until it is served or lost, also when its client has been restarted meanwhile
  (`life`). `HandlePulled` is the loop of `handleResponse` over a pulled list in
  closed form: the key in effect at a message is that of the newest key message
  of its sender before it in the list, or the one held before.
- In `Registration` `file` is `my.info` as the sequence of its lines, and
  `memory` what the data manager and `isUserRegistered` hold while the process runs.
  A registration is `call`: `waiting` for the answer, `answered`, and `writing` a
  line. `handleResponse` is `OpenMyInfo`, three times `WriteLine` and
  `FinishRegistration`, because `std::endl` and `close()` flush and a process may die
  between two lines; `good` is the state of the stream, which the code never reads.
  A line that is half written is a file that `init()` rejects, like one that is
  missing. `orphans` records the ids that the server gave out and no `my.info`
  holds, with the cause; no action reads it.
- In `Codec` `up` and `down` are the bytes on the connection, `sent` is
  `sentMessageContentPayload`, `parsed` the request under construction in the
  server and `response` the object under construction in the client. Only one call is
  under way, but writing, parsing and reading interleave. `served` is any answer that
  the operation may give, an error included. What `parsePayload` has copied and not
  parsed yet is `response.payload`; each turn of the loops in `parseDataList` is an
  action.
- Operations that raise do not change the storage; the exception becomes a
  `GENERAL_SERVER_ERROR`, or closes the connection if it is raised while the
  response is made (`HandleSendMessage`, `HandlePullMessages` on an id above
  `UINT32_MAX`) or sent.

## Checks

The runs use `MCRelay`, `keys`, `key_groups` and `crossing` use
`MCKeyExchange`, `my_info` and `codec` the other two. `ConnSymmetry`, `ClientSymmetry`
and `Symmetry` are used where no liveness is checked: connections, the clients of
`KeyExchange`, and in `Registration` processes, keys and ids are interchangeable.
The contents have the sizes that `aes_encrypt` and `rsa_encrypt` produce.

| Run | Instance | Checks | Shows |
|---|---|---|---|
| `exchange` | 2 registered clients, 2 connections, contents of 2096 bytes (three partitions), 1 crash, 2 deaths of one client, 2 messages | `TypeOK`, `LoopEndsOnlyByAbort`, `OnlyAddressee`, `NoLoss`, `AckedWhole`, `TruncatedOnlyByAbort`, `AtMostOnce`, `UnacknowledgedHasCause`, `KeptInv`, `DeleteOnlySent`, `ImplementsMailbox` | a message acknowledged is stored, on its way or received, whole and by its addressee, unless the addressee died in a call; it is received again once per crash at most; what is stored without an acknowledgement has a cause; every step of the relay is a step of `Mailbox` or changes nothing in it |
| `registration` | `server.db` knows `p1`; `p2` is new; `p3` and its contact `p1` know each other from an earlier `server.db`; short reads below the size of a registration, 1 crash, 1 death of `p2`; they register, ask for keys and send 1 message | `OwnIdentity`, `KnownParties`, `IInv`, `IdentityInv`, `ImplementsMailbox` | lost, repeated and refused registrations leave ids and names consistent; `p3` is refused as a sender and as an addressee; the invariants of the proofs; the refinement while addresses are given out |
| `limits` | contents of 16, 896 and 944 bytes; SQLite stores 935; a response holds 962; one parameter per DELETE; ids up to 2; 3 messages | `NoLoss`, `InOrder`, `MailInv`, `OrderInv`, `DeleteOnlySent` | refused contents, responses that are cut, deletes that raise and ids that cannot be packed lose and overtake nothing |
| `sessions` | contents of two partitions, short reads, 1 crash, 1 death each | `ConnectionsReleased` | every call ends and every session is reached |
| `delivery` | contents of 992 bytes, responses of 1100: one message each; 1 death of one client | `PullDelivers`, `NeverBothWait` | a pull delivers the oldest message, so that a waiting message is reached by pulling often enough; the server never waits in `recv()` for a client that waits for its response |
| `keys` | 2 clients, 3 messages, 2 keys, 1 crash of the server, 1 restart of a client | `NewestKeyWins`, `UndecryptedHasCause`, `CauseInv` | redelivery, lost requests and requests of clients that were restarted do not bring back old keys, and what cannot be decrypted has a known cause |
| `key_groups` | 3 clients, 2 messages of all kinds, files included, 2 keys | `TypeOK`, `KeysStayInPair`, `ExchangeInv` | no third client gets a key |
| `my_info` | 2 processes with 2 starts each, 3 ids and keys, 2 names and the empty one, 1 lost request or answer, 1 write that fails, good and bad `server.info` | `TypeOK`, `AccountMatches`, `MyInfoReadable`, `NoNameWasted`, `IInv`, `MyInfoStable` | a readable `my.info` is the account on the server and is never replaced; a broken one, and a name that nobody can use, has one of four causes; the inductive invariant of the proofs |
| `codec` | each request with ids that have zero bytes and bytes below 16, names of 1 and 254 bytes, contents of 0 to 2016 bytes; each response with lists of 0 to 4 clients and lots of 0 to 3 messages | `TypeOK`, `RequestIntact`, `ResponseIntact`, `PartitionsAgree` | what is parsed is what was sent, on both ways, and both sides count the same partitions |
| `unpulled` | 2 clients, 1 death | `UnpulledAreStored`, violated | see below |
| `short_reads` | one message of three partitions, `recv()` may return 600 bytes | `AckedWhole`, violated | see below |
| `crossing` | 2 clients, 2 keys, no failure | `KeysAgree`, violated | see below |

Bounds. Two connections suffice for what needs overlap: one in a session and one
waiting in the backlog or abandoned by its client; a process never has two calls.
Two messages make a batch, an order and a redelivery; three partitions have a
first, a middle and a last one. One crash and one death
put a failure at every point, and both users send and pull. In `exchange` the client
that dies may die twice, as the sender of a message and as its addressee; in
`delivery`, whose liveness TLC checks on the whole graph, it dies once; in
`sessions` each client may die, in `registration` the new one. A second crash meets a state that
the first already reaches, except for a redelivered message, which `limits` repeats
without a crash. A client that dies in the queue of `accept()` may cost one restart more than
`MaxRestarts`. One message in `registration` is enough to be stored for an unknown party. The
sizes in `limits` make every comparison go both ways. `MaxMessages`, `MaxPulls`,
`MaxRestarts` and `MaxAborts`, and in `KeyExchange` `MaxMail`, `MaxKeys`,
`MaxDeaths` and `MaxFailures`, and in `Registration` `MaxStarts`, `MaxFailures` and
`MaxDiskFailures`, are the only bounds in guards. Three messages are a
key of each side and one of them sent on, or a key and two texts; two are enough to
pass a key on to a third client. In `my_info` two starts are a registration and the
start that reads its file, or a failure and a second try; two processes compete for a
name. In `codec` contents are multiples of a block of 16 bytes, of which 976 and 992, 2000 and
2016 are the last before and the first after the end of the first and the second partition of a
request, which none meets exactly. A lot of one message of 992 or 2016 bytes fills the first or the second partition of
a response exactly, one of 1008 goes beyond the first, and the others end within the second and the third; the lists of
clients end within the first and the second. `sessions` turns the check for
deadlock off, because users need not give another command once the bound on messages
is reached, `my_info` because its processes stop after their starts, and `codec`
because a call ends; all other runs have it on.

Fairness. `WF(ServerStep)`: the loop of `start_server` runs as long as an event
is ready, and a session goes on while bytes, an end of stream or room for the
response is there. `WF(CallStep(p))`: a process in `HandleRequest` goes on. No
fairness is assumed for users' commands, crashes, restarts or deaths; an `accept()` that
raises counts as a crash from which the server is started again. A client that
stalls in a call without dying is therefore outside the liveness properties: the
server has no timeouts, and such a client does block it for ever. `NeverBothWait` is
the part of that which the code itself decides: it never blocks for a client that is
waiting for the server.

Assumptions of `Sockets`: `accept()` raises for no other reason than a connection that was
reset (no limit of file descriptors is met), `register()` only for a connection registered
twice, `unregister()` only for one that is not; whole partitions are written, and the kernel holds what
is written (no flow control). Except in `registration`, `sessions` and
`short_reads`, `ShortReads` is empty: every `recv()` returns what a write put in.
`NoLoss`, `AckedWhole` and `TruncatedOnlyByAbort` depend on it, as `short_reads`
shows; so the runs say what the program does on the loopback interface it
binds (`sock.bind(("localhost", ...))`), where a write of 1024 bytes is not split.

### Findings

- `unpulled`. `README.md` of the program says that the database "stores unpulled
  messages". `_after_send_process` deletes them once `sendall()` has put the
  response into the socket's buffer. A client that dies before it has read it has
  pulled nothing, and the messages are gone. `NoLoss` says exactly that this is
  the only way to lose an acknowledged message.
- `short_reads`. A client shows "Message sent successfully." for a content the
  server has not stored whole: `_parse_content` assumes a full partition per
  `recv()`, the slice assignment shortens the content silently, and zeros stand
  where the missing bytes should be.

- `crossing`. In the diagram of `README.md` a pair has one key. Two clients that send each other a
  key before they pull each replace their own by the other's: they have swapped
  keys and can decrypt nothing. `UndecryptedHasCause` says that two keys made for
  one pair, a restart, a key lost with its request, and a key dropped by
  an addressee that had not listed its sender yet are the only causes of an unreadable text.

Each property of a passing run has a mutant: an operator with the comment
"Mutant" beside the definition it replaces, a plausible mistake in that code that
the run must find.

## Proofs

Every theorem holds for any sets of clients, connections, names, keys and contents, any
limits and initial tables that the assumptions allow, and any number of crashes, deaths and lost
requests. Nothing is assumed about the order in which clients, server and failures
interleave.

### The relay

The modules build on each other in the order in which they are listed.

| Module | Theorems | Establish |
|---|---|---|
| `RelayProofs` | `Invariance`, `TypeCorrect`, `PartiesKnown` | `IInv`, `TypeOK`, `KnownParties` |
| `RelayOwnershipProofs` | `Ownership`, `Accounts`, `OneOwner` | `OwnershipInv`, `IdentityInv`, `OwnIdentity` |
| `RelayMailboxProofs` | `MailOfClients`, `Addressed`, `Deletion`, `Partitioned`, `Waiting`, `LoopSafe`, `Refinement` | `MailInv`, `OnlyAddressee`, `DeleteOnlySent`, `SentInv`, `WaitingInv`, `LoopEndsOnlyByAbort`, `ImplementsMailbox` |
| `RelayDeliveryProofs` | `Ordered`, `Order`, `Once` | `OrderInv`, `InOrder`, `AtMostOnce` |
| `RelayBytesProofs` | `Counted`, `NoDeadlock`; with whole reads `Contents`, `Truncation`, `ReadOut`, `Acknowledgements`, `Faithful`, `Kept`, `Delivery`, `Unacknowledged` | `BytesInv`, `NeverBothWait`; `WholeInv`, `TruncatedOnlyByAbort`, `ReadUpInv`, `AcksInv`, `AckedWhole`, `KeptInv`, `NoLoss`, `CauseInv` and `UnacknowledgedHasCause` |

*With whole reads* means the hypothesis `ShortReads = {}`: each `recv()` returns what
one write put in. It stands in the theorem and is no assumption of the model; the
run `short_reads` shows that `AckedWhole` fails without it. The other theorems hold
whatever `recv()` returns.

None of the properties is inductive, and each layer supplies what the next one needs.

- `IInv`. `HandleSendMessage` keeps the type of `messages` only if the request on the
  session's connection is a SEND_MESSAGE whose sender exists; that the request
  stays there while the client may die, fail or finish is a fact about connections
  (`ConnInv`); that the sender exists when the operation runs was established two
  actions and possibly many clients' steps before (`SessionInv`); that a client's
  response has the fields its request asks for needs that responses answer requests
  (`Answers`); that `accept()` finds a connection that no event names needs
  that the kernel's queue holds each waiting connection once (`BacklogInv`).
- `OwnershipInv`. A connection is used again once both ends are closed. That a
  response reaches the client that asked, or nobody, needs that a call has its
  connection for itself, and that an abandoned one has nothing left to read.
  `IdentityInv` follows the id of a registration from its row through the
  session and the connection to `my.info`: until it arrives it is nobody's.
- `MailInv` says whose mail a response holds and that it is the oldest, all of it
  stored until it has been sent; so what a pull removes is what was handed over.
  `SentInv` relates the partitions that the session counts with those that
  the client has read. With both, every action is one of `Mailbox`'s or leaves it as it is:
  `SendPartition` of the last partition is `HandOver`, `_after_send_process` and a
  crash before it are `Settle`, `ReadLastPartition` is `Receive`.
- `OrderInv` extends `InOrder` to the lots on their way, and `OnceInv` extends
  `AtMostOnce` to what is stored, to be deleted, and on its way: it counts the pulls that
  one DELETE should have removed against the ends of the server. A message that is stored
  has cost a restart for each such pull, one on its way included, except for the one
  whose DELETE is still to come.
- `WaitingInv` says that a connection that waits for `accept()` still has its client, unless one
  died: a call ends with a response, an error, or a death, and the first two need that
  the server's end was accepted or closed. With `EventsInv` in `IInv` that is
  `LoopEndsOnlyByAbort`.
- `BytesInv` relates the partitions that a client has written with the server's position
  in the content, which are computed by two programs in different ways.
  `WholeInv` needs that while reads are whole an abandoned connection is one whose
  client died, as nothing else makes a call fail before its response. `ReadUpInv`
  counts the partitions of a content exactly: when the server goes on from `recv()`,
  all of the request was written and all of it was read, so that closing the
  connection does not reset it and its response is not lost.
- `AcksInv` follows an acknowledgement and its message apart from each other through
  all places where either may be. `KeptInv` then says that the message is somewhere:
  it leaves the table when all of it was sent, and from then on only the death of
  its addressee loses it. `CauseInv` is the other way round: from the row that is
  written to the acknowledgement its sender gets, only a death, an end of the server
  or an id that cannot be packed interrupts the way (`IsAcknowledging`).

Each invariant has one lemma per action or kind of action; `LoopFrame`, `SessionMoves`,
`ServerUses`, `CallGoesOn` and `CallEnds` state once what the server's and the
client's use of a connection leaves to the other.

### Registration

`RegistrationProofs` proves `IInv` (`RegistrationInductive`), `TypeOK`
(`RegistrationTypes`), `AccountMatches`, `MyInfoReadable` and `NoNameWasted`
(`ReadableIsAccount`, `BrokenHasCause`, `NamesAccountedFor`), and that every step
satisfies `MyInfoStable` (`ReadableStays`), for any number of processes and starts.

That a finished `my.info` is an account needs that each line
written so far comes from the row (`Written` and `AccountOf` in `ProcessInv`), and
that needs that the request that was served is the one that this process made with
the name and the key it still has (`RequestInv`): a request of the process before it
has an older start. That a readable file is never replaced needs that a process with a
call is not registered and that an unregistered process has no readable file. That
a name is left to nobody only for a cause needs that an id has at most one holder
(`HoldersInv`), so that the one who gives it up was the last.

`StepIInv` reduces a step to the process that takes it; `KeepHolders`, `LoseHolder` and
`NewId` say what becomes of the holders when no id moves, one is given up, or one is
given out; `CallHolds` says what a process with a call holds.

### The key exchange

`KeyExchangeProofs` proves, for any number of clients, keys, messages, restarts and
lost requests:

- `TypeCorrect`: `TypeOK`. A new key is numbered by how many there are, so its type needs
  that they are finitely many (`TypesInv`). The key of a pulled message is the newest
  before it in the list (`KeyAt`), which exists because the ids before it are bounded.
- `Exchange`, `Confined`: `ExchangeInv`, and `KeysStayInPair` in it. `PostedInv` has ids
  unique and mail with its addressee, `PulledInv` that what is removed is all that
  waits for one client, `KeysInv` that a pair's mail and memories hold keys of that
  pair that were made.
- `KeepsNewest`, `NewestKey`: `NewestInv` and `NewestKeyWins`. A lot that comes again
  starts with mail got before, and `PulledInv` says that all that was got and
  is not in it is older, so the newest key of all is still the newest of the lot.
- `Causes`, `Undecrypted`: `CauseInv` and `UndecryptedHasCause`. A text cannot be
  decrypted if its addressee lacks the key, or has another. For the second there
  were two keys of the pair. For the first, `AheadInv` follows the mail that brings the
  key: from the moment it is made it is under way, posted or on its way, ahead of
  all that its maker encrypts with it, until its addressee has had a key, it was
  lost or dropped, or a client died. `OneSidedInv` says that until then only its maker
  uses a key of the pair, `RemovedInv` that the server does not delete it before.

### The bytes of a call

`CodecProofs` proves `TypeOK`, `RequestIntact`, `ResponseIntact` and `PartitionsAgree`
(`CodecTypes`, `CodecRequestIntact`, `CodecResponseIntact`, `CodecPartitionsAgree`) for
all ids, names and keys, contents of any length and lists with any number of entries.

- `RequestInv`. The server's `index`, the client's `sentMessageContentPayload` and the
  partitions between them are related by a sequence of positions in the content
  (`Track`): partition i carries the content from position i on, up to position i + 1. It starts
  where the server is and ends where the client is. A position behind the first
  partition is 1024 k - 44, so neither side needs to know how the other counts. Until it
  is parsed, the first partition has all fields of the request (`FirstBuffer`), and
  afterwards the parsed request has them (`Has`).
- `ResponseInv` follows the payload through three stages (`After`): a prefix of it is
  copied and the rest is down the wire (`Partly`); all of it is there, k entries are
  in the list, and what is left is exactly the packed entries behind them (`Listed`); the list is
  what was answered (`Done`). That no turn of a parser cuts an entry needs that the
  packed list starts with the entry k + 1, whose length is where the next one starts
  (`FlattenLeft`, `AfterFirst`).
- Lemmas about data: a number is given back by its bytes (`NumBack`), an id
  by its digits (`IdBack`, `IdText`), a name by its padded form at the server (`NameStripped`) and
  at the client (`NameCut`); a field is found in a buffer if those written after it
  lie behind it (`FilledField`); `FlattenSeq` of a list with one more element
  (`CatFlatten`, `FlattenFirst`); the sum over a set of messages does not depend on their order
  (`SumsAny`), so that it is the length of the packed list (`SizesFlatten`), whose
  rows have different ids.

`FlattenSeq` and `MapThenSumSet` choose a function that satisfies a recursive
equation. Induction over the numbers, on the set of those for which a statement holds
(`Induction`, from the least element of a set of numbers), gives that such a function exists
and what it returns; the induction theorems of the library, which take an
operator as a parameter, are not needed.

`RequestInv` and `ResponseInv` say that positions and a payload exist, among infinitely
many candidates, so no run can check them; what follows from them is checked by `codec`.

### Assumptions on the constants

All are named and stand in the module that declares the constants; TLC evaluates them
in every run. Apart from types and from values that stand for "none" being no others
(`NoInfoAssumption`, `NoKeyAssumption`, `UnknownAssumption`, `NotRunningAssumption`,
`RegistrationAssumption`, `ListenerAssumption`) they are:

- `DatabaseAssumption`, `MyInfoAssumption`, `MyInfoOriginAssumption`, `OldContactsAssumption`: the program
  starts with a table whose ids and names are unique, no two processes share an id,
  and a `my.info` comes from this server's table, with the name in it, or from
  another server or `server.db`; only a process that has a `my.info` has contacts of an earlier one.
- `CiphersAssumption`, `ContentSizesAssumption`: contents have sizes that the ciphers
  produce.
- `PullLimitAssumption`: a response has room for the largest message that SQLite
  stores, as 4 GB have for 1 GB.
- `ShortReadsAssumption`: a read that is short returns at least a byte and less than a
  partition.
- `CodecAssumption`, `ListsAssumption`: ids have 16 bytes and keys 160; names are what
  `assertUserName` lets through and contain no zero; no payload and no id of a
  message exceeds an `int`; no two rows of a list share an id, as the tables' keys have it.

### Only model-checked

- The liveness properties `ConnectionsReleased` and `PullDelivers`, which need fairness
  and ENABLED. The proofs contribute `NeverBothWait`.
- That the properties of `unpulled`, `short_reads` and `crossing` fail: TLC has
  the counterexamples.

All other properties of the passing runs are theorems. `OwnershipInv`, `SentInv`,
`WaitingInv`, `OnceInv`, `BytesInv`, `WholeInv`, `ReadUpInv`, `AcksInv`, `CauseInv` and `NewestInv` are
proved and in no run; what follows from them is checked by one.

## Not modelled

- Ciphers beyond `Ciphers`: decryption with the right key succeeds, with another it
  fails. (A wrong AES key may pass the check of the padding and show garbage; for the
  model that is a text that was not decrypted.) Keys are opaque, so that their
  generation, their serialization and their Base64 form are left out. The 4 GB limit
  of a pull is in `limits` only, not in `KeyExchange`; nor are contents that were cut.
- Numbers of 2^31 and more in `Codec`. `getNumFromBuffer` shifts an `int`, whose highest
  byte may reach the sign; `num` is unsigned, so that the builds it is made for give
  the number that was packed.
- Names that are no UTF-8 text in `Codec`: `decode()` raises on them, and the answer is
  an error.
- Text: what the console reads and prints, the text of a response, the file that a
  message of type SEND_FILE is stored in. At the end of the standard input the loop
  of `startClient` gets an empty command for ever.
- The time the server is down between crash and restart (a client that cannot
  connect has an error and no effect), the bound of 100 on the backlog, and
  `myport.info`.
- Several processes sharing one `my.info`, a user who edits it, and other programs
  writing `server.db`. `init()` does not check that the id and the private key are
  those of one registration; that they are is `AccountMatches`.
- The destructors, and the memory they free.

## Plan

1. Done: the relay with its runs; `Mailbox` with its refinement; `KeyExchange`;
   `Registration`; `Codec`.
2. Done: proofs of every safety property of the relay, of the refinement, of
   `Registration`, of `KeyExchange` and of `Codec`.
3. Open: lower bounds in `BytesInv` under short reads.
