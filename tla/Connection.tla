----------------------------- MODULE Connection -----------------------------
(***************************************************************************)
(* One connection: a Peer and its RealTransportConnection.                 *)
(*                                                                         *)
(* Three threads touch it.  "Transport" is the thread of RealTransport's   *)
(* io_context: connect, read and write completions, and with them all      *)
(* message handling.  "Reactor" is the thread of NetworkManager's          *)
(* io_context: Peer's timers, its posted disconnects and the start of      *)
(* outbound peers.  Other threads (RPC, miner) send and disconnect.        *)
(* Handlers are cut where another thread can see the difference; Peer      *)
(* keeps state_ and connection_ without a lock.  The bytes of a message    *)
(* are one of Sizes; what is in it is its kind.                            *)
(***************************************************************************)
EXTENDS Integers, Sequences, FiniteSets

CONSTANTS
    ConnectionTypes,          \* the types of connection under study
    Sizes,                    \* sizes of the messages we send
    DEFAULT_SEND_QUEUE_SIZE,
    PING_TIMEOUT,             \* in ping intervals
    INACTIVITY_TIMEOUT,       \* in checks of the inactivity timer
    SIZE_MAX,                 \* bound: the largest size_t
    MaxChunk,                 \* bound: messages in one chunk of received data
    MaxChunks                 \* bound: chunks the remote side sends

ASSUME ConnectionAssumption ==
    /\ ConnectionTypes \subseteq {"INBOUND", "OUTBOUND", "FEELER"}
    /\ Sizes \subseteq Nat \ {0}
    /\ DEFAULT_SEND_QUEUE_SIZE \in Nat
    /\ SIZE_MAX \in Nat
    /\ \A size \in Sizes : DEFAULT_SEND_QUEUE_SIZE + size <= SIZE_MAX
    /\ PING_TIMEOUT \in Nat /\ INACTIVITY_TIMEOUT \in Nat
    /\ MaxChunk \in Nat /\ MaxChunks \in Nat

VARIABLES
    type,       \* connection_type_
    state,      \* Peer::state_
    attached,   \* Peer::connection_ is set
    version,    \* peer_version_ is set
    verack,     \* successfully_connected_
    timers,     \* the timers that are running
    ping,       \* 0, or 1 + the age of the PING that has no PONG
    idle,       \* inactivity checks since the last send or receive
    closing,    \* do_disconnect is posted to the reactor
    starting,   \* where Peer::start() is
    open,       \* RealTransportConnection::open_
    callbacks,  \* receive_callback_ and disconnect_callback_ are set
    reading,    \* an async_read_some is pending
    queue,      \* send_queue_, the sizes of its messages
    bytes,      \* send_queue_bytes_
    writing,    \* writing_
    write,      \* the async_write: "none", "pending", "done" or "error"
    posted,     \* handlers posted to the transport thread
    chunks,     \* chunks received so far
    rx,         \* messages left in the chunk that is being processed
    at,         \* where the transport thread is in handling a message
    past,       \* threads in send() between the test of open_ and the mutex
    fault       \* "none", "relock": the transport thread waits for a mutex
                \* it holds, "corrupt": a pop of an empty queue left nonsense
                \* behind, "crash": undefined behaviour ended the process

peerVars == <<type, state, attached, version, verack, timers, ping, idle,
              closing, starting>>
sendVars == <<queue, bytes, posted>>
writeVars == <<writing, write>>
readVars == <<callbacks, reading, chunks, rx, at>>
vars == <<peerVars, open, sendVars, writeVars, readVars, past, fault>>

Timers == {"handshake", "ping", "inactivity"}
Threads == {"transport", "reactor", "other"}

\* Arithmetic on size_t.
SizeT(n) == IF n > SIZE_MAX THEN n - (SIZE_MAX + 1) ELSE n

TypeOK ==
    /\ type \in ConnectionTypes
    /\ state \in {"CONNECTING", "CONNECTED", "VERSION_SENT", "READY",
                  "DISCONNECTED"}
    /\ attached \in BOOLEAN /\ version \in BOOLEAN /\ verack \in BOOLEAN
    /\ closing \in BOOLEAN /\ open \in BOOLEAN /\ callbacks \in BOOLEAN
    /\ reading \in BOOLEAN /\ writing \in BOOLEAN
    /\ timers \subseteq Timers
    /\ ping \in 0..(PING_TIMEOUT + 2) /\ idle \in 0..(INACTIVITY_TIMEOUT + 1)
    /\ starting \in {"connecting", "posted", "accepted", "checked", "send",
                     "sent", "over"}
    /\ queue \in Seq(Sizes) /\ bytes \in 0..SIZE_MAX
    /\ fault \in {"none", "relock"} => bytes <= DEFAULT_SEND_QUEUE_SIZE
    /\ past \subseteq Threads
    /\ write \in {"none", "pending", "done", "error"}
    /\ posted \subseteq {"write", "overflow"}
    /\ chunks \in 0..MaxChunks /\ rx \in 0..MaxChunk
    /\ at \in {"loop", "version", "version_sent", "verack", "getaddr"}
    /\ fault \in {"none", "relock", "corrupt", "crash"}

IsConnected == state # "DISCONNECTED"

\* create_inbound: the socket is accepted and start() follows on the transport
\* thread.  create_outbound: the socket is connecting.
Init ==
    /\ type \in ConnectionTypes
    /\ state = IF type = "INBOUND" THEN "CONNECTED" ELSE "CONNECTING"
    /\ starting = IF type = "INBOUND" THEN "accepted" ELSE "connecting"
    /\ open = (type = "INBOUND")
    /\ attached = TRUE
    /\ version = FALSE /\ verack = FALSE /\ closing = FALSE
    /\ timers = {} /\ ping = 0 /\ idle = 0
    /\ callbacks = FALSE /\ reading = FALSE /\ chunks = 0 /\ rx = 0
    /\ at = "loop"
    /\ queue = <<>> /\ bytes = 0 /\ posted = {}
    /\ writing = FALSE /\ write = "none"
    /\ past = {} /\ fault = "none"

\* One thread runs the handlers of the transport, one at a time.
Transport == fault \in {"none", "corrupt"} /\ "transport" \notin past
TransportIdle == Transport /\ at = "loop" /\ rx = 0 /\ starting \notin {"accepted", "checked"}
Reactor == fault # "crash" /\ "reactor" \notin past
ReactorIdle == Reactor /\ starting \notin {"send", "sent"}
-----------------------------------------------------------------------------
(* Peer::send_message and RealTransportConnection::send, which tests open_ *)
(* before it takes send_mutex_.                                            *)

\* Mutant: a message that cannot be sent is dropped without a trace.
SendFailureUnnoticed ==
    /\ IsConnected
    /\ ~attached \/ ~open
    /\ UNCHANGED <<closing, past>>

\* The connection is gone: post_disconnect.
SendOnClosed ==
    /\ IsConnected
    /\ ~attached \/ ~open
    /\ closing' = TRUE
    /\ UNCHANGED past

\* The connection is open: the thread goes for the mutex.
SendOnOpen(thread) ==
    /\ IsConnected /\ attached /\ open
    /\ past' = past \cup {thread}
    /\ UNCHANGED closing

\* A thread sends.  What follows in its handler waits until it has left send().
SendMessage(thread) ==
    /\ \/ ~IsConnected /\ UNCHANGED <<closing, past>>
       \/ SendOnClosed
       \/ SendOnOpen(thread)
    /\ UNCHANGED <<open, sendVars, idle>>

\* The queue is full: the connection is marked closed, its cleanup is posted
\* to the transport thread and the peer's disconnect to the reactor.
SendOverflow(size) ==
    /\ SizeT(bytes + size) > DEFAULT_SEND_QUEUE_SIZE
    /\ open' = FALSE
    /\ posted' = posted \cup {"overflow"}
    /\ closing' = TRUE
    /\ UNCHANGED <<queue, bytes, idle>>

\* Mutant: the limit is tested before the message is counted.
SendQueuedPastLimit(size) ==
    /\ bytes <= DEFAULT_SEND_QUEUE_SIZE
    /\ queue' = Append(queue, size)
    /\ bytes' = SizeT(bytes + size)
    /\ posted' = posted \cup {"write"}
    /\ idle' = 0
    /\ UNCHANGED <<open, closing>>

SendQueued(size) ==
    /\ SizeT(bytes + size) <= DEFAULT_SEND_QUEUE_SIZE
    /\ queue' = Append(queue, size)
    /\ bytes' = SizeT(bytes + size)
    /\ posted' = posted \cup {"write"}
    /\ idle' = 0
    /\ UNCHANGED <<open, closing>>

\* No shared pointer to the connection is left, neither the peer's nor one in
\* a handler: a thread that is inside send() uses a freed object.
Freed == ~attached /\ ~reading /\ write = "none" /\ posted = {}

\* The locked part of send().  Nobody asks again whether the connection is
\* open, and a completion that waits for the mutex it holds lets nobody in.
SendLocked(thread) ==
    /\ thread \in past /\ fault \notin {"relock", "crash"}
    /\ past' = past \ {thread}
    /\ IF Freed /\ thread # "transport"
       THEN fault' = "crash" /\ UNCHANGED <<open, closing, sendVars, idle>>
       ELSE /\ \E size \in Sizes : SendOverflow(size) \/ SendQueued(size)
            /\ UNCHANGED fault
    /\ UNCHANGED <<type, state, attached, version, verack, timers, ping,
                   starting, writeVars, readVars>>

-----------------------------------------------------------------------------
(* Ways a connection ends.                                                 *)

\* Mutant: close() empties the queue and keeps the count of its bytes.
CloseKeepingBytes ==
    IF open
    THEN /\ open' = FALSE
         /\ callbacks' = FALSE
         /\ queue' = <<>> /\ bytes' = bytes
         /\ writing' = FALSE
         /\ write' = IF write = "pending" THEN "error" ELSE write
    ELSE UNCHANGED <<open, queue, bytes, writeVars>>

\* RealTransportConnection::close().  An async_write that has not finished is
\* aborted; one that has keeps its result.  Done by a thread that does not
\* hold send_mutex_.
Close ==
    IF open
    THEN /\ open' = FALSE
         /\ callbacks' = FALSE
         /\ queue' = <<>> /\ bytes' = 0
         /\ writing' = FALSE
         /\ write' = IF write = "pending" THEN "error" ELSE write
    ELSE UNCHANGED <<open, queue, bytes, writeVars>>

\* Mutant: the remote close leaves connection_ and its callbacks in place.
OnTransportDisconnectKeepingConnection ==
    /\ state' = "DISCONNECTED"
    /\ timers' = IF IsConnected THEN {} ELSE timers
    /\ UNCHANGED <<attached, callbacks>>

\* Peer::on_transport_disconnect, called by the transport thread.
OnTransportDisconnect ==
    /\ state' = "DISCONNECTED"
    /\ timers' = IF IsConnected THEN {} ELSE timers
    /\ attached' = (attached /\ ~IsConnected)
    /\ callbacks' = (callbacks /\ ~IsConnected)

\* Peer::do_disconnect on the reactor; it clears the callbacks before close().
DoDisconnect ==
    IF ~IsConnected
    THEN UNCHANGED <<state, timers, attached, callbacks, open, queue, bytes,
                     writeVars>>
    ELSE /\ state' = "DISCONNECTED"
         /\ timers' = {}
         /\ attached' = FALSE
         /\ IF attached
            THEN /\ Close
                 /\ callbacks' = FALSE
            ELSE UNCHANGED <<callbacks, open, queue, bytes, writeVars>>

\* The reactor runs the posted do_disconnect.
RunPostedDisconnect ==
    /\ ReactorIdle /\ closing
    /\ closing' = FALSE
    /\ DoDisconnect
    /\ UNCHANGED <<type, version, verack, ping, idle, starting, posted,
                   reading, chunks, rx, at, past, fault>>

\* Peer::disconnect() or post_disconnect() by another thread: an RPC command,
\* remove_peer, a penalty.
DisconnectRequested ==
    /\ fault # "crash" /\ ~closing
    /\ closing' = TRUE
    /\ UNCHANGED <<type, state, attached, version, verack, timers, ping, idle,
                   starting, open, sendVars, writeVars, readVars, past, fault>>

\* The read completes with an error: the remote side closed the connection or
\* our close() aborted the read.
ReadError ==
    /\ TransportIdle /\ reading
    /\ reading' = FALSE
    /\ Close
    /\ IF callbacks
       THEN OnTransportDisconnect
       ELSE UNCHANGED <<state, timers, attached, callbacks>>
    /\ UNCHANGED <<type, version, verack, ping, idle, closing, starting, posted,
                   chunks, rx, at, past, fault>>

\* The handler that send() posts when the queue is full.  open_ is already
\* FALSE, so its close() returns at once.
RunOverflow ==
    /\ TransportIdle /\ "overflow" \in posted
    /\ posted' = posted \ {"overflow"}
    /\ IF callbacks
       THEN OnTransportDisconnect
       ELSE UNCHANGED <<state, timers, attached, callbacks>>
    /\ UNCHANGED <<type, version, verack, ping, idle, closing, starting, open,
                   queue, bytes, writeVars, reading, chunks, rx, at, past, fault>>

-----------------------------------------------------------------------------
(* Starting: Peer::start().                                                *)

\* do_connect: the TCP connection succeeds, or fails and remove_peer follows.
Connected(ok) ==
    /\ Transport /\ starting = "connecting"
    /\ starting' = IF ok THEN "posted" ELSE "over"
    /\ open' = ok
    /\ closing' = (closing \/ ~ok)
    /\ UNCHANGED <<type, state, attached, version, verack, timers, ping, idle,
                   sendVars, writeVars, readVars, past, fault>>

\* start() of an outbound peer, posted to the reactor.  A peer that was
\* disconnected while it connected is no longer in the table.
StartOutbound ==
    /\ ReactorIdle /\ starting = "posted"
    /\ IF IsConnected
       THEN /\ state' = "CONNECTED"
            /\ callbacks' = TRUE /\ reading' = open
            /\ starting' = "send"
       ELSE /\ starting' = "over"
            /\ UNCHANGED <<state, callbacks, reading>>
    /\ UNCHANGED <<type, attached, version, verack, timers, ping, idle, closing,
                   open, sendVars, writeVars, chunks, rx, at, past, fault>>

StartSendVersion ==
    /\ Reactor /\ starting = "send"
    /\ SendMessage("reactor")
    /\ starting' = "sent"
    /\ UNCHANGED <<type, state, attached, version, verack, timers, ping,
                   writeVars, readVars, fault>>

\* send_version() assigns state_ whatever became of the peer meanwhile, and
\* start() ends with start_handshake_timeout().
StartVersionSent ==
    /\ Reactor /\ starting = "sent"
    /\ state' = "VERSION_SENT"
    /\ timers' = timers \cup {"handshake"}
    /\ starting' = "over"
    /\ UNCHANGED <<type, attached, version, verack, ping, idle, closing, open,
                   sendVars, writeVars, readVars, past, fault>>

\* start() of an inbound peer runs on the transport thread.
StartInbound ==
    /\ Transport /\ starting = "accepted"
    /\ starting' = IF IsConnected THEN "checked" ELSE "over"
    /\ UNCHANGED <<type, state, attached, version, verack, timers, ping, idle,
                   closing, open, sendVars, writeVars, readVars, past, fault>>

\* It then uses connection_, which the reactor may have reset since the check.
StartReading ==
    /\ Transport /\ starting = "checked"
    /\ starting' = "over"
    /\ IF attached
       THEN /\ callbacks' = TRUE /\ reading' = open
            /\ timers' = timers \cup {"handshake"}
            /\ UNCHANGED fault
       ELSE /\ fault' = "crash"
            /\ UNCHANGED <<callbacks, reading, timers>>
    /\ UNCHANGED <<type, state, attached, version, verack, ping, idle, closing,
                   open, sendVars, writeVars, chunks, rx, at, past>>

-----------------------------------------------------------------------------
(* Receiving.                                                              *)

\* on_transport_receive.  Once it runs, the messages of the chunk are handled
\* even if the callbacks are cleared meanwhile.
ReceiveChunk ==
    /\ TransportIdle /\ reading /\ callbacks
    /\ chunks < MaxChunks
    /\ chunks' = chunks + 1
    /\ rx' \in 1..MaxChunk
    /\ idle' = 0
    /\ UNCHANGED <<type, state, attached, version, verack, timers, ping,
                   closing, starting, open, sendVars, writeVars, callbacks,
                   reading, at, past, fault>>

\* The next message of the loop of process_received_data; the read continues
\* after the last one.
InLoop == Transport /\ at = "loop" /\ rx > 0
Consume ==
    /\ rx' = rx - 1
    /\ reading' = (IF rx = 1 THEN reading /\ open ELSE reading)

\* A chunk over the flood limit, a bad header, magic, length, checksum or an
\* empty payload where none is allowed: the rest of the chunk is not read.
ReceiveGarbled ==
    /\ InLoop
    /\ rx' = 0
    /\ reading' = (reading /\ open)
    /\ closing' = TRUE
    /\ UNCHANGED <<type, state, attached, version, verack, timers, ping, idle,
                   starting, open, sendVars, writeVars, callbacks, chunks, at,
                   past, fault>>

\* A message before VERSION, one that does not deserialize, too many unknown
\* commands, an obsolete version, a self connection: the loop goes on.
ReceiveViolation(self) ==
    /\ InLoop
    /\ self => type = "INBOUND" /\ ~version
    /\ Consume
    /\ closing' = TRUE
    /\ version' = (version \/ self)
    /\ UNCHANGED <<type, state, attached, verack, timers, ping, idle, starting,
                   open, sendVars, writeVars, callbacks, chunks, at, past, fault>>

\* handle_version of the first VERSION: it asks for state_ and sends ours.
ReceiveVersion ==
    /\ InLoop /\ ~version
    /\ Consume
    /\ version' = TRUE
    /\ at' = IF type = "INBOUND" /\ state = "CONNECTED"
             THEN "version" ELSE "verack"
    /\ UNCHANGED <<type, state, attached, verack, timers, ping, idle, closing,
                   starting, open, sendVars, writeVars, callbacks, chunks,
                   past, fault>>

SendVersion ==
    /\ Transport /\ at = "version"
    /\ SendMessage("transport")
    /\ at' = "version_sent"
    /\ UNCHANGED <<type, state, attached, version, verack, timers, ping,
                   starting, writeVars, callbacks, reading, chunks, rx, fault>>

VersionSent ==
    /\ Transport /\ at = "version_sent"
    /\ state' = "VERSION_SENT"
    /\ at' = "verack"
    /\ UNCHANGED <<type, attached, version, verack, timers, ping, idle, closing,
                   starting, open, sendVars, writeVars, callbacks, reading,
                   chunks, rx, past, fault>>

\* Mutant: VERACK is sent only to a peer whose connection is still there.
SendVerackIfAttached ==
    /\ Transport /\ at = "verack"
    /\ IF attached THEN SendMessage("transport") ELSE UNCHANGED <<closing, past, open, sendVars, idle>>
    /\ at' = "loop"
    /\ UNCHANGED <<type, state, attached, version, verack, timers, ping,
                   starting, writeVars, callbacks, reading, chunks, rx, fault>>

\* The VERACK that ends handle_version.
SendVerack ==
    /\ Transport /\ at = "verack"
    /\ SendMessage("transport")
    /\ at' = "loop"
    /\ UNCHANGED <<type, state, attached, version, verack, timers, ping,
                   starting, writeVars, callbacks, reading, chunks, rx, fault>>

\* handle_verack; it does not ask whether the peer was disconnected meanwhile.
\* HandleVerack of the lifecycle manager then sends GETADDR.
HandleVerack ==
    /\ InLoop /\ version /\ ~verack /\ type # "FEELER"
    /\ Consume
    /\ state' = "READY"
    /\ verack' = TRUE
    /\ timers' = (timers \ {"handshake"}) \cup {"ping", "inactivity"}
    /\ at' = IF type = "OUTBOUND" THEN "getaddr" ELSE "loop"
    /\ UNCHANGED <<type, attached, version, ping, idle, closing, starting, open,
                   sendVars, writeVars, callbacks, chunks, past, fault>>

\* The VERACK of a feeler: the connection has served its purpose.
HandleFeelerVerack ==
    /\ InLoop /\ version /\ type = "FEELER"
    /\ Consume
    /\ closing' = TRUE
    /\ UNCHANGED <<type, state, attached, version, verack, timers, ping, idle,
                   starting, open, sendVars, writeVars, callbacks, chunks, at,
                   past, fault>>

SendGetAddr ==
    /\ Transport /\ at = "getaddr"
    /\ SendMessage("transport")
    /\ at' = "loop"
    /\ UNCHANGED <<type, state, attached, version, verack, timers, ping,
                   starting, writeVars, callbacks, reading, chunks, rx, fault>>

\* handle_pong with the outstanding nonce.
HandlePong ==
    /\ InLoop /\ version
    /\ Consume
    /\ ping' = 0
    /\ UNCHANGED <<type, state, attached, version, verack, timers, idle,
                   closing, starting, open, sendVars, writeVars, callbacks,
                   chunks, at, past, fault>>

\* A message that is answered: PING, or one that the node's handler replies to.
ReceiveAnswered ==
    /\ InLoop /\ version
    /\ Consume
    /\ SendMessage("transport")
    /\ UNCHANGED <<type, state, attached, version, verack, timers, ping,
                   starting, writeVars, callbacks, chunks, at, fault>>

\* A message without effect here: a duplicate VERSION or VERACK, a PONG with
\* another nonce, an unknown command within the limit, data for the handlers.
ReceiveIgnored ==
    /\ InLoop /\ version
    /\ Consume
    /\ UNCHANGED <<peerVars, open, sendVars, writeVars, callbacks, chunks, at,
                   past, fault>>

-----------------------------------------------------------------------------
(* Writing.                                                                *)

\* send_message outside of these handlers: an announcement by the timer of the
\* reactor, or by another thread, the miner's or one of RPC.
Announce(thread) ==
    /\ \/ thread = "reactor" /\ ReactorIdle
       \/ thread = "other" /\ fault # "crash" /\ "other" \notin past
    /\ state = "READY"
    /\ SendMessage(thread)
    /\ UNCHANGED <<type, state, attached, version, verack, timers, ping,
                   starting, writeVars, readVars, fault>>

\* do_write: nothing when closed, already writing or nothing queued.
DoWrite ==
    /\ TransportIdle /\ "write" \in posted
    /\ posted' = posted \ {"write"}
    /\ IF open /\ ~writing /\ queue # <<>>
       THEN writing' = TRUE /\ write' = "pending"
       ELSE UNCHANGED writeVars
    /\ UNCHANGED <<peerVars, open, queue, bytes, readVars, past, fault>>

\* The operating system finishes the write or reports an error.
WriteFinishes(result) ==
    /\ fault # "crash" /\ write = "pending"
    /\ write' = result
    /\ UNCHANGED <<peerVars, open, sendVars, writing, readVars, past, fault>>

\* front() and pop() on a queue that is empty.  The process may die; if it does
\* not, a size read from nowhere is subtracted and the queue is no queue any more.
PopEmpty ==
    \/ fault' = "crash" /\ UNCHANGED sendVars
    \/ /\ fault' = "corrupt"
       /\ bytes' \in 0..SIZE_MAX
       /\ posted' \in {posted, posted \cup {"write"}}
       /\ UNCHANGED queue

\* Mutant: the completion does not post do_write for what is still queued.
WriteDoneWithoutRepost ==
    /\ TransportIdle /\ write = "done"
    /\ write' = "none" /\ writing' = FALSE
    /\ IF queue = <<>>
       THEN PopEmpty
       ELSE /\ queue' = Tail(queue)
            /\ bytes' = bytes - Head(queue)
            /\ UNCHANGED <<posted, fault>>
    /\ UNCHANGED <<peerVars, open, readVars, past>>

\* The completion handler of a write that succeeded.  It takes the front of
\* the queue without asking whether close() emptied it since, and what it takes
\* may be a message that was queued after that.
WriteDone ==
    /\ TransportIdle /\ write = "done"
    /\ write' = "none" /\ writing' = FALSE
    /\ IF queue = <<>>
       THEN PopEmpty
       ELSE /\ queue' = Tail(queue)
            /\ bytes' = bytes - Head(queue)
            /\ posted' = IF Tail(queue) = <<>> THEN posted
                         ELSE posted \cup {"write"}
            /\ UNCHANGED fault
    /\ UNCHANGED <<peerVars, open, readVars, past>>

\* The completion handler of a write that failed calls close() while it holds
\* send_mutex_: when the connection is open, close() waits for that mutex.
WriteError ==
    /\ TransportIdle /\ write = "error"
    /\ write' = "none" /\ writing' = FALSE
    /\ IF open
       THEN /\ fault' = "relock"
            /\ open' = FALSE
            /\ callbacks' = FALSE
            /\ UNCHANGED <<state, timers, attached>>
       ELSE /\ IF callbacks
               THEN OnTransportDisconnect
               ELSE UNCHANGED <<state, timers, attached, callbacks>>
            /\ UNCHANGED <<fault, open>>
    /\ UNCHANGED <<type, version, verack, ping, idle, closing, starting,
                   sendVars, reading, chunks, rx, at, past>>

-----------------------------------------------------------------------------
(* Timers, on the reactor.                                                 *)

HandshakeTimeout ==
    /\ ReactorIdle /\ "handshake" \in timers
    /\ IF IsConnected /\ state # "READY"
       THEN DoDisconnect
       ELSE /\ timers' = timers \ {"handshake"}
            /\ UNCHANGED <<state, attached, callbacks, open, queue, bytes,
                           writeVars>>
    /\ UNCHANGED <<type, version, verack, ping, idle, closing, starting, posted,
                   reading, chunks, rx, at, past, fault>>

\* schedule_ping, no PING outstanding: send_ping and reschedule.
PingTimerSends ==
    /\ ReactorIdle /\ "ping" \in timers /\ IsConnected
    /\ ping = 0
    /\ ping' = 1
    /\ SendMessage("reactor")
    /\ UNCHANGED <<type, state, attached, version, verack, timers, starting,
                   writeVars, readVars, fault>>

\* Mutant: a new PING replaces the one that has no answer.
PingTimerRestarts ==
    /\ ReactorIdle /\ "ping" \in timers
    /\ ping > 0 \/ ~IsConnected
    /\ IF IsConnected THEN ping' = 1 /\ UNCHANGED timers
       ELSE timers' = timers \ {"ping"} /\ UNCHANGED ping
    /\ UNCHANGED <<type, state, attached, version, verack, idle, closing,
                   starting, open, sendVars, writeVars, readVars, past, fault>>

\* schedule_ping, a PING outstanding: disconnect after PING_TIMEOUT_SEC.
PingTimerWaits ==
    /\ ReactorIdle /\ "ping" \in timers
    /\ ping > 0 \/ ~IsConnected
    /\ IF IsConnected /\ ping > PING_TIMEOUT
       THEN DoDisconnect /\ UNCHANGED ping
       ELSE /\ ping' = IF IsConnected THEN ping + 1 ELSE ping
            /\ timers' = IF IsConnected THEN timers ELSE timers \ {"ping"}
            /\ UNCHANGED <<state, attached, callbacks, open, queue, bytes,
                           writeVars>>
    /\ UNCHANGED <<type, version, verack, idle, closing, starting, posted,
                   reading, chunks, rx, at, past, fault>>

InactivityTimer ==
    /\ ReactorIdle /\ "inactivity" \in timers
    /\ IF IsConnected /\ idle > INACTIVITY_TIMEOUT
       THEN DoDisconnect /\ UNCHANGED idle
       ELSE /\ idle' = IF IsConnected THEN idle + 1 ELSE idle
            /\ timers' = IF IsConnected THEN timers
                         ELSE timers \ {"inactivity"}
            /\ UNCHANGED <<state, attached, callbacks, open, queue, bytes,
                           writeVars>>
    /\ UNCHANGED <<type, version, verack, ping, closing, starting, posted,
                   reading, chunks, rx, at, past, fault>>

-----------------------------------------------------------------------------
MessageStep ==
    \/ ReceiveGarbled \/ (\E self \in BOOLEAN : ReceiveViolation(self))
    \/ ReceiveVersion \/ HandleVerack \/ HandleFeelerVerack
    \/ HandlePong \/ ReceiveAnswered \/ ReceiveIgnored

TransportStep ==
    \/ StartInbound \/ StartReading
    \/ MessageStep
    \/ SendVersion \/ VersionSent \/ SendVerack \/ SendGetAddr

ReactorStart == StartOutbound \/ StartSendVersion \/ StartVersionSent

Next ==
    \/ \E ok \in BOOLEAN : Connected(ok)
    \/ TransportStep \/ ReceiveChunk \/ ReadError \/ RunOverflow
    \/ DoWrite \/ WriteDone \/ WriteError
    \/ \E r \in {"done", "error"} : WriteFinishes(r)
    \/ ReactorStart \/ RunPostedDisconnect
    \/ HandshakeTimeout \/ PingTimerSends \/ PingTimerWaits \/ InactivityTimer
    \/ DisconnectRequested
    \/ \E thread \in {"reactor", "other"} : Announce(thread)
    \/ \E thread \in Threads : SendLocked(thread)

Spec == Init /\ [][Next]_vars

\* Each thread runs what is posted to it, in order, each timer fires, and a
\* mutex that is free is given to who waits for it.  Announcements may come for
\* ever and keep the reactor busy now and then, so the two handlers that have to
\* come through need strong fairness.  Nothing is assumed of the remote side: it may never read what we
\* write.
Fairness ==
    /\ WF_vars(TransportStep) /\ WF_vars(ReactorStart) /\ WF_vars(RunOverflow)
    /\ WF_vars(DoWrite) /\ WF_vars(WriteDone) /\ WF_vars(WriteError)
    /\ \A thread \in Threads : WF_vars(SendLocked(thread))
    /\ WF_vars(HandshakeTimeout) /\ WF_vars(InactivityTimer)
    /\ WF_vars(PingTimerSends) /\ SF_vars(PingTimerWaits)
    /\ SF_vars(RunPostedDisconnect)

FairSpec == Spec /\ Fairness
-----------------------------------------------------------------------------
(* Properties.                                                             *)

\* A disconnected peer holds no connection and its connection no callback:
\* each of the two threads that can disconnect it breaks the cycle of shared
\* pointers from the peer to the connection, its callbacks and back.
NoReferenceCycle == state = "DISCONNECTED" => ~attached /\ ~callbacks

\* The bytes of the messages in q, each with the place of its message.
QueuedBytes(q) == UNION {{i} \X (1..q[i]) : i \in DOMAIN q}

\* send_queue_bytes_ is the size of what is queued, within the limit, and the
\* message being written is still in the queue, also when a thread queues what
\* it has to send after another closed the connection.  The one exception is a
\* completion that comes after close(): it pops an empty queue, and then the
\* count may be anything, but of a connection that is closed for good.
SendQueueAccounted ==
    /\ fault \in {"none", "relock"} =>
          /\ bytes = Cardinality(QueuedBytes(queue))
          /\ bytes <= DEFAULT_SEND_QUEUE_SIZE
          /\ writing => write # "none" /\ queue # <<>>
    /\ fault = "corrupt" => ~open /\ ~writing /\ write = "none"

\* A sender on the reactor waits for a mutex that the transport thread will
\* never release.
ReactorBlocked == fault = "relock" /\ "reactor" \in past

\* A connection that is lost or told to close ends in DISCONNECTED, although
\* handle_version, handle_verack and start() assign state_ without looking at
\* what the other thread made of it, unless the process dies or the failed write
\* that waits for its own mutex has caught the reactor too.
LostConnectionEnds ==
    (closing \/ (starting = "over" /\ ~open))
        ~> (state = "DISCONNECTED" \/ fault = "crash" \/ ReactorBlocked)

\* A handshake does not hang: a started peer becomes READY or is disconnected,
\* also when the remote side sends nothing more, with the same two exceptions.
HandshakeEnds ==
    (starting = "over" /\ state \in {"CONNECTED", "VERSION_SENT"})
        ~> \/ state \in {"READY", "DISCONNECTED"}
           \/ fault = "crash" \/ ReactorBlocked

\* A PING is answered or the peer is disconnected, whatever else it sends, with
\* the same two exceptions.
SilentPeerDropped ==
    ping > 0 ~> \/ ping = 0 \/ state = "DISCONNECTED"
                \/ fault = "crash" \/ ReactorBlocked

\* Queued data never waits for nobody: a send that finds a write in progress
\* leaves the rest to its completion, and the completion posts do_write again.
NoLostWriteTrigger ==
    open /\ queue # <<>> /\ fault = "none" =>
        \/ "write" \in posted
        \/ writing /\ write # "none"

\* real_transport.cpp:295, "Don't call do_write() directly here - that would
\* cause a deadlock because we're already holding send_mutex_": the completion
\* of a write never waits for the mutex it holds.
NoRelock == fault # "relock"
=============================================================================
