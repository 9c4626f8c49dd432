------------------------------ MODULE McpClient ------------------------------
(***************************************************************************)
(* mcp_client.MCPClient: the task that runs connect(), the WebSocket to    *)
(* the MCC server, and disconnect() or a cancellation from other tasks.    *)
(*                                                                         *)
(*   idle -> created -> opening -> auth -> subscribe -> receive            *)
(*                         ^                               |               *)
(*                         +----------- backoff <----------+ (from any)    *)
(*                                                                         *)
(* A phase names the await the task is suspended in, created a task that   *)
(* has not run yet; a step takes it to the next one.  The server may send  *)
(* any frame at any time.  Frames carry what the client distinguishes:     *)
(*   success  a positive status      ack   one that names the event        *)
(*   failure  a negative status      junk  not decodable                   *)
(*   event    a chat event, numbered on its connection                     *)
(*                                                                         *)
(* The client runs with reconnect=True, as the runtime creates it.  Its    *)
(* callback on_state, PluginRuntime._on_mcp_state, does not suspend.       *)
(***************************************************************************)
EXTENDS Integers, Sequences

CONSTANTS
    InitialDelay,   \* reconnect_initial_delay
    MaxDelay,       \* reconnect_max_delay
    MaxFrames       \* bound on the unread frames, and on a connection's events

ASSUME ClientAssumption ==
    /\ InitialDelay \in Nat
    /\ MaxDelay \in Nat /\ MaxDelay >= InitialDelay
    /\ MaxFrames \in Nat

VARIABLES
    options,        \* auth: auth_mode and password ask for it; ack: subscribe_ack
    phase,          \* where the task of connect() is; idle = there is none
    stop,           \* _stop_event, set by disconnect()
    sock,           \* the socket: none, open, or closed by either side
    wire,           \* frames that arrived and are not read yet
    pending,        \* _pending_frames
    delay,          \* the local variable of connect()
    (* history variables, read by properties only *)
    sent,           \* events the server sent on this connection
    got,            \* numbers of the events given to the callback since it opened
    wanted          \* the task was made, neither disconnect() nor cancel since

linkVars == <<phase, sock, wire, sent, got>>
vars == <<linkVars, delay, stop, pending, wanted, options>>

Kinds == {"success", "ack", "failure", "junk", "event"}
Frame == [kind : Kinds, n : 0..MaxFrames]

TypeOK ==
    /\ options \in [auth : BOOLEAN, ack : BOOLEAN]
    /\ phase \in {"idle", "created", "opening", "auth", "subscribe", "receive", "backoff"}
    /\ {stop, wanted} \subseteq BOOLEAN
    /\ sock \in {"none", "open", "closed"}
    /\ wire \in Seq(Frame) /\ Len(wire) <= MaxFrames
    /\ pending \in Seq(Frame) /\ Len(pending) <= 1
    /\ delay \in InitialDelay..MaxDelay
    /\ sent \in 0..MaxFrames
    /\ got \in Seq(1..MaxFrames)

NoFrames == <<>>

Init ==
    /\ options \in [auth : BOOLEAN, ack : BOOLEAN]
    /\ phase = "idle"
    /\ stop = FALSE
    /\ sock = "none"
    /\ wire = NoFrames /\ pending = NoFrames
    /\ delay = InitialDelay
    /\ sent = 0 /\ got = <<>>
    /\ wanted = FALSE

-----------------------------------------------------------------------------
IsSuccess(f) == f.kind \in {"success", "ack"}
IsEvent(f) == f.kind \in {"event", "ack"}
IsFatal(f) == f.kind = "junk"

(* _receive_frame: a frame kept aside comes before those of the socket. *)
HasFrame == pending # NoFrames \/ wire # NoFrames
NextFrame == IF pending # NoFrames THEN Head(pending) ELSE Head(wire)
Kept == IF pending # NoFrames THEN Tail(pending) ELSE pending
Unread == IF pending # NoFrames THEN wire ELSE Tail(wire)

(* The attempt is over: the socket is closed, and the loop of connect() ends *)
(* or waits before the next attempt.                                         *)
Over ==
    /\ phase' = IF stop THEN "idle" ELSE "backoff"
    /\ sock' = "none"
    /\ wire' = NoFrames
    /\ sent' = 0 /\ got' = <<>>

Await(p, rest, events) ==
    /\ phase' = p
    /\ wire' = rest
    /\ got' = events
    /\ UNCHANGED <<sock, sent>>

(* Mutant of Loop: the loop does not look at _stop_event. *)
LoopForever(rest, events) == Await("receive", rest, events)

(* Head of the loop in _receive_loop. *)
Loop(rest, events) == IF stop THEN Over ELSE Await("receive", rest, events)

(* _subscribe sends its frame and waits for an answer if it is told to. *)
Subscribe(rest) == IF options.ack THEN Await("subscribe", rest, got) ELSE Loop(rest, got)

-----------------------------------------------------------------------------
(* PluginRuntime.start makes a new client and a task for its connect(): no   *)
(* frame is kept aside and no stop of an earlier client is left.             *)
Create ==
    /\ phase = "idle"
    /\ phase' = "created"
    /\ stop' = FALSE
    /\ wanted' = TRUE
    /\ pending' = NoFrames
    /\ UNCHANGED <<sock, wire, sent, got, delay>>

(* The task runs for the first time, to the first await of connect().  A     *)
(* client may be used again after disconnect(): an event that is already set *)
(* is replaced, also when disconnect() came after the task was made.         *)
Enter ==
    /\ phase = "created"
    /\ phase' = "opening"
    /\ stop' = FALSE
    /\ delay' = InitialDelay
    /\ UNCHANGED <<sock, wire, sent, got, pending, wanted>>

(* What the client waits for first on an open socket. *)
FirstAwait == IF options.auth THEN "auth" ELSE IF options.ack THEN "subscribe" ELSE "receive"

(* The socket opens and the frame of the first step is sent; without a       *)
(* handshake the loop of _receive_loop is next, and it looks at _stop_event. *)
Opened ==
    /\ phase = "opening"
    /\ IF stop /\ FirstAwait = "receive"
       THEN Over
       ELSE phase' = FirstAwait /\ sock' = "open" /\ UNCHANGED <<wire, sent, got>>
    /\ UNCHANGED <<delay, stop, pending, wanted>>

OpenFails ==
    /\ phase = "opening"
    /\ Over
    /\ UNCHANGED <<delay, stop, pending, wanted>>

(* Mutant of Authenticate: a rejection ends connect(). *)
AuthenticateOnce ==
    /\ phase = "auth" /\ HasFrame
    /\ pending' = Kept
    /\ IF IsSuccess(NextFrame)
       THEN Subscribe(Unread)
       ELSE /\ phase' = "idle"
            /\ sock' = "none" /\ wire' = NoFrames /\ sent' = 0 /\ got' = <<>>
    /\ UNCHANGED <<delay, stop, wanted>>

(* _authenticate: any other frame than a success ends the attempt. *)
Authenticate ==
    /\ phase = "auth" /\ HasFrame
    /\ pending' = Kept
    /\ IF IsSuccess(NextFrame)
       THEN Subscribe(Unread)
       ELSE Over
    /\ UNCHANGED <<delay, stop, wanted>>

(* Mutant of Subscribed: an event is taken for the answer and forgotten. *)
SubscribedForgetful ==
    /\ phase = "subscribe" /\ HasFrame
    /\ IF NextFrame.kind \in {"failure", "junk"} THEN Over ELSE Loop(Unread, got)
    /\ pending' = Kept
    /\ UNCHANGED <<delay, stop, wanted>>

(* _subscribe gets its answer; an event that comes first is kept aside. *)
Subscribed ==
    /\ phase = "subscribe" /\ HasFrame
    /\ IF NextFrame.kind \in {"failure", "junk"} THEN Over ELSE Loop(Unread, got)
    /\ pending' = IF IsEvent(NextFrame) THEN Append(Kept, NextFrame) ELSE Kept
    /\ UNCHANGED <<delay, stop, wanted>>

(* One turn of _receive_loop: an event goes to the callback, which may raise; *)
(* a frame without a chat message is passed over.                             *)
Receive ==
    /\ phase = "receive" /\ HasFrame
    /\ pending' = Kept
    /\ \/ /\ NextFrame.kind = "event"
          /\ Loop(Unread, Append(got, NextFrame.n)) \/ Over
       \/ /\ NextFrame.kind \in {"success", "ack", "failure"}
          /\ Loop(Unread, got)
       \/ /\ IsFatal(NextFrame)
          /\ Over
    /\ UNCHANGED <<delay, stop, wanted>>

(* A read or a write on a closed socket raises; a frame kept aside is taken *)
(* without a read.                                                          *)
Broken ==
    /\ phase \in {"auth", "subscribe", "receive"} /\ sock = "closed"
    /\ pending = NoFrames
    /\ Over
    /\ UNCHANGED <<delay, stop, pending, wanted>>

(* auth_timeout or subscribe_timeout. *)
Timeout ==
    /\ phase \in {"auth", "subscribe"}
    /\ Over
    /\ UNCHANGED <<delay, stop, pending, wanted>>

(* Mutant of Longer: no upper limit. *)
Unlimited == 2 * delay

(* The delay after this one. *)
Longer ==
    LET doubled == IF 2 * delay > InitialDelay THEN 2 * delay ELSE InitialDelay
    IN  IF doubled < MaxDelay THEN doubled ELSE MaxDelay

(* The wait ends, by its timeout or by _stop_event. *)
Backoff ==
    /\ phase = "backoff"
    /\ phase' = IF stop THEN "idle" ELSE "opening"
    /\ delay' = Longer
    /\ UNCHANGED <<sock, wire, sent, got, stop, pending, wanted>>

-----------------------------------------------------------------------------
(* disconnect(): the event is set and an open socket closed; what follows    *)
(* waits for the task.                                                       *)
Disconnect ==
    /\ stop' = TRUE
    /\ sock' = IF sock = "open" THEN "closed" ELSE sock
    /\ wanted' = FALSE
    /\ UNCHANGED <<phase, wire, sent, got, delay, pending>>

(* The task is cancelled, as PluginRuntime.stop does. *)
Cancel ==
    /\ phase # "idle"
    /\ phase' = "idle"
    /\ sock' = "none" /\ wire' = NoFrames /\ sent' = 0 /\ got' = <<>>
    /\ wanted' = FALSE
    /\ UNCHANGED <<delay, stop, pending>>

(* The server, or the network, closes the connection. *)
ServerCloses ==
    /\ sock = "open"
    /\ sock' = "closed"
    /\ UNCHANGED <<phase, wire, sent, got, delay, stop, pending, wanted>>

ServerSends(kind) ==
    /\ sock = "open" /\ Len(wire) < MaxFrames
    /\ kind = "event" => sent < MaxFrames
    /\ sent' = IF kind = "event" THEN sent + 1 ELSE sent
    /\ wire' = Append(wire, [kind |-> kind, n |-> IF kind = "event" THEN sent + 1 ELSE 0])
    /\ UNCHANGED <<phase, sock, got, delay, stop, pending, wanted>>

TaskStep ==
    /\ UNCHANGED options
    /\ \/ Enter \/ Opened \/ OpenFails
       \/ Authenticate \/ Subscribed \/ Receive
       \/ Broken \/ Timeout
       \/ Backoff

OtherStep ==
    /\ UNCHANGED options
    /\ \/ Create \/ Disconnect \/ Cancel
       \/ ServerCloses
       \/ \E kind \in Kinds : ServerSends(kind)

Next == TaskStep \/ OtherStep

(* connect_timeout, auth_timeout and subscribe_timeout are set, a read from *)
(* a closed socket raises, and the event loop runs the task.                *)
Spec == Init /\ [][Next]_vars /\ WF_vars(TaskStep)

-----------------------------------------------------------------------------
(* The frames in s hold the events m + 1 to n, each once and in this order. *)
HoldsEvents(s, m, n) ==
    LET At == {i \in DOMAIN s : s[i].kind = "event"} IN
    /\ {s[i].n : i \in At} = m + 1 .. n
    /\ \A i, j \in At : i < j => s[i].n < s[j].n

(* Every event of a connection that got through its handshake reaches the    *)
(* callback exactly once and in order, also one that arrives in place of the *)
(* answer to the subscription: those delivered are the first the server sent *)
(* and the others are unread, kept aside or on the wire, in their order.     *)
EventsInOrder ==
    phase \in {"subscribe", "receive"} =>
        /\ \A k \in DOMAIN got : got[k] = k
        /\ HoldsEvents(pending \o wire, Len(got), sent)

(* SPEC.md 4.1: the client reconnects by itself.  As long as nobody stops    *)
(* it, it never ceases to open connections or to read from an open one,      *)
(* whatever the server sends, omits or closes.                               *)
AutoReconnects ==
    []<>(wanted => phase = "opening" \/ (phase = "receive" /\ sock = "open"))

(* disconnect() is heeded and comes back: from the first step of connect()   *)
(* on, the task it waits for always ends, also when the call comes while the *)
(* socket is being opened and cannot be closed yet.                          *)
StopsEventually == stop /\ phase # "created" ~> phase = "idle"
=============================================================================
