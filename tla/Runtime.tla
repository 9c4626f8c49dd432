-------------------------------- MODULE Runtime --------------------------------
(***************************************************************************)
(* runtime.PluginRuntime as the host sees it: start(), stop(), reload()    *)
(* and the hooks of main.MCCTransferPlugin, called by tasks of the host at *)
(* any time and in any number, ordered by one asyncio.Lock; and the two    *)
(* tasks every start creates, the client (connect() of HTTPMCPClient or    *)
(* MCPClient) and the retry worker (_retry_loop).                          *)
(*                                                                         *)
(* What a call does between two awaits is one step.  Nothing start() awaits *)
(* suspends, so it is one step under the lock; stop() keeps the lock while *)
(* it awaits the tasks it has cancelled.  A call comes to the lock in one  *)
(* step and gets it in a later one, also when the lock is free.            *)
(*                                                                         *)
(* asyncio.Lock hands over in the order of arrival.  The clients are shown *)
(* by where they are and what they report; McpClient and HttpPolling show  *)
(* what they do, Delivery what the pipeline does between start and stop.   *)
(***************************************************************************)
EXTENDS Naturals, Sequences

LOCAL INSTANCE SequencesExt

CONSTANTS
    Callers,        \* tasks of the host that call the runtime
    Configs,        \* configurations it is given
    Tasks,          \* identities of a start's pair of tasks
    Nobody,         \* no caller, task or configuration
    StartFaults     \* TRUE: a start may also fail for an outside reason (disk)

(* transport: mcp.transport.  targeted: a group_id or UMO is set.  parsed:  *)
(* an AppConfig, as main.py makes one of every configuration, and not the   *)
(* plain mapping that PluginRuntime accepts too.                            *)
ASSUME RuntimeAssumption ==
    /\ Configs \subseteq [name : STRING, transport : {"http", "websocket"},
                          targeted : BOOLEAN, parsed : BOOLEAN]
    /\ Nobody \notin Callers \cup Tasks \cup Configs
    /\ StartFaults \in BOOLEAN

VARIABLES
    lock,           \* the stop() that holds _lock while it awaits, or Nobody
    waiters,        \* callers in the queue of _lock
    calls,          \* what each caller is in the middle of
    config,         \* PluginRuntime.config
    pipeline,       \* the configuration that the pipeline was built from
    started,        \* _started
    stop_event,     \* _stop_event
    current,        \* the pair in _mcp_task and _retry_task
    client,         \* where the client task of a pair is
    worker,         \* the retry worker of a pair
    status          \* RuntimeStatus, as far as it is about the lifecycle

callVars == <<lock, waiters, calls>>
taskVars == <<client, worker>>
ownVars == <<config, pipeline, started, stop_event, current>>
vars == <<callVars, taskVars, ownVars, status>>

(* Where a client task is: before or in initialize(), or opening a socket;   *)
(* waiting for an answer of the WebSocket handshake; polling or receiving.   *)
Working == {"opening", "handshake", "online"}

TypeOK ==
    /\ lock \in Callers \cup {Nobody}
    /\ waiters \in Seq(Callers)
    /\ \A i, j \in DOMAIN waiters : waiters[i] = waiters[j] => i = j
    /\ calls \in [Callers -> [op : {"none", "start", "stop", "reload"},
                              arg : Configs \cup {Nobody}]]
    /\ config \in Configs
    /\ pipeline \in Configs \cup {Nobody}
    /\ {started, stop_event} \subseteq BOOLEAN
    /\ current \in Tasks \cup {Nobody}
    /\ client \in [Tasks -> Working \cup {"ending", "dead", "none"}]
    /\ worker \in [Tasks -> {"running", "ending", "none"}]
    /\ status \in [running : BOOLEAN, connected : BOOLEAN,
                   lifecycle : {"created", "starting", "ready", "trouble",
                                "failed", "inactive", "stopped"}]

NoCall == [op |-> "none", arg |-> Nobody]

Init ==
    /\ lock = Nobody
    /\ waiters = <<>>
    /\ calls = [c \in Callers |-> NoCall]
    /\ config \in Configs
    /\ pipeline = Nobody
    /\ started = FALSE /\ stop_event = FALSE
    /\ current = Nobody
    /\ client = [t \in Tasks |-> "none"]
    /\ worker = [t \in Tasks |-> "none"]
    /\ status = [running |-> FALSE, connected |-> FALSE, lifecycle |-> "created"]

-----------------------------------------------------------------------------
(* resolve_target needs a target.  MCPClient takes protocol and parser as    *)
(* mappings and raises on the dataclasses of an AppConfig.                   *)
Buildable(cfg) == cfg.targeted /\ ~(cfg.transport = "websocket" /\ cfg.parsed)

StartOutcomes(cfg) ==
    IF ~Buildable(cfg) THEN {FALSE} ELSE IF StartFaults THEN BOOLEAN ELSE {TRUE}

Calling(c, op, cfg) == calls' = [calls EXCEPT ![c] = [op |-> op, arg |-> cfg]]
Return(c) == calls' = [calls EXCEPT ![c] = NoCall]

(* It is c's turn: the lock is free and c is the first in its queue.         *)
Turn(c) == lock = Nobody /\ waiters # <<>> /\ Head(waiters) = c

(* A call comes to the lock. *)
Request(c, op, cfg) ==
    /\ Calling(c, op, cfg)
    /\ waiters' = Append(waiters, c)

Call(c) ==
    /\ calls[c] = NoCall
    /\ \/ \E op \in {"start", "stop"} : Request(c, op, Nobody)
       \/ \E cfg \in Configs : Request(c, "reload", cfg)
    /\ UNCHANGED <<lock, taskVars, ownVars, status>>

(* initialize() and on_astrbot_loaded(): start(), or a note that there is no *)
(* target.  The test and the note do not wait for the lock.                  *)
StartIfConfigured(c) ==
    /\ calls[c] = NoCall
    /\ IF config.targeted
       THEN Request(c, "start", Nobody) /\ UNCHANGED status
       ELSE /\ status' = [running |-> FALSE, connected |-> FALSE, lifecycle |-> "inactive"]
            /\ UNCHANGED <<waiters, calls>>
    /\ UNCHANGED <<lock, taskVars, ownVars>>

-----------------------------------------------------------------------------
StartIgnored(c) ==
    /\ Turn(c) /\ calls[c].op = "start"
    /\ started
    /\ Return(c) /\ waiters' = Tail(waiters)
    /\ UNCHANGED <<lock, taskVars, ownVars, status>>

StartSucceeds(c) ==
    /\ Turn(c) /\ calls[c].op = "start"
    /\ ~started
    /\ TRUE \in StartOutcomes(config)
    /\ \E t \in Tasks :
          /\ client[t] = "none" /\ worker[t] = "none"
          /\ client' = [client EXCEPT ![t] = "opening"]
          /\ worker' = [worker EXCEPT ![t] = "running"]
          /\ current' = t
    /\ pipeline' = config
    /\ started' = TRUE /\ stop_event' = FALSE
    /\ status' = [running |-> TRUE, connected |-> status.connected, lifecycle |-> "starting"]
    /\ Return(c) /\ waiters' = Tail(waiters)
    /\ UNCHANGED <<lock, config>>

(* Mutant of StartFails: the state set at the head of start() stays. *)
StartFailsHalfway(c) ==
    /\ Turn(c) /\ calls[c].op = "start"
    /\ ~started
    /\ FALSE \in StartOutcomes(config)
    /\ stop_event' = FALSE
    /\ status' = [running |-> TRUE, connected |-> FALSE, lifecycle |-> "failed"]
    /\ Return(c) /\ waiters' = Tail(waiters)
    /\ UNCHANGED <<lock, config, pipeline, started, current, taskVars>>

(* The exception is raised before the pipeline is made, or, by MCPClient,    *)
(* after that.  What had been set is set back, and the caller gets it.       *)
StartFails(c) ==
    /\ Turn(c) /\ calls[c].op = "start"
    /\ ~started
    /\ FALSE \in StartOutcomes(config)
    /\ pipeline' \in IF config.targeted /\ ~Buildable(config) THEN {pipeline, config} ELSE {pipeline}
    /\ stop_event' = FALSE
    /\ status' = [running |-> FALSE, connected |-> FALSE, lifecycle |-> "failed"]
    /\ Return(c) /\ waiters' = Tail(waiters)
    /\ UNCHANGED <<lock, config, started, current, taskVars>>

-----------------------------------------------------------------------------
(* Mutant of CancelOutcomes: only a connected client is cancelled. *)
CancelConnected(t) == IF client[t] \in {"handshake", "online"} THEN {"ending"} ELSE {client[t]}

(* task.cancel() on a client.  asyncio.wait_for returns the answer of the    *)
(* server instead of the cancellation if it has just come: a client that     *)
(* waits in the handshake may go on as if nothing had happened.              *)
CancelOutcomes(t) ==
    CASE client[t] = "handshake" -> {"ending", "handshake"}
      [] client[t] \in {"opening", "online"} -> {"ending"}
      [] OTHER -> {client[t]}

CancelClient(t) == \E p \in CancelOutcomes(t) : client' = [client EXCEPT ![t] = p]

(* What follows a stop(): its return, or the second half of reload(), which  *)
(* goes to the end of the queue again.                                       *)
AfterStop(c, rest) ==
    IF calls[c].op = "reload"
    THEN /\ config' = calls[c].arg
         /\ Calling(c, "start", Nobody)
         /\ waiters' = Append(rest, c)
    ELSE /\ Return(c)
         /\ waiters' = rest
         /\ UNCHANGED config

StopIgnored(c) ==
    /\ Turn(c) /\ calls[c].op \in {"stop", "reload"}
    /\ ~started
    /\ AfterStop(c, Tail(waiters))
    /\ UNCHANGED <<lock, pipeline, started, stop_event, current, taskVars, status>>

StopBegins(c) ==
    /\ Turn(c) /\ calls[c].op \in {"stop", "reload"}
    /\ started
    /\ lock' = c /\ waiters' = Tail(waiters)
    /\ stop_event' = TRUE
    /\ CancelClient(current)
    /\ worker' = [worker EXCEPT ![current] = "ending"]
    /\ UNCHANGED <<calls, config, pipeline, started, current, status>>

(* Mutant of Ended: the client is cancelled and not awaited. *)
WorkerEnded(t) == worker[t] = "none"

(* stop() awaits the client task, then the worker. *)
Ended(t) == client[t] = "none" /\ worker[t] = "none"

StopFinishes(c) ==
    /\ lock = c
    /\ Ended(current)
    /\ lock' = Nobody
    /\ AfterStop(c, waiters)
    /\ started' = FALSE /\ current' = Nobody
    /\ status' = [running |-> FALSE, connected |-> FALSE, lifecycle |-> "stopped"]
    /\ UNCHANGED <<pipeline, stop_event, taskVars>>

(* Mutant of CancelCall: the caller is gone and its place in the queue stays. *)
CancelCallQueued(c) ==
    /\ \E i \in DOMAIN waiters : waiters[i] = c
    /\ Return(c)
    /\ UNCHANGED <<lock, waiters, taskVars, ownVars, status>>

(* The host cancels a call.  While it waits for the lock it ends; in stop()  *)
(* the cancellation is passed on to the task it awaits, and suppressed.      *)
CancelCall(c) ==
    \/ /\ \E i \in DOMAIN waiters : waiters[i] = c /\ waiters' = RemoveAt(waiters, i)
       /\ Return(c)
       /\ UNCHANGED <<lock, taskVars, ownVars, status>>
    \/ /\ lock = c
       /\ CancelClient(current)
       /\ UNCHANGED <<callVars, worker, ownVars, status>>

-----------------------------------------------------------------------------
(* _on_mcp_state: "ready" stands for socket_open, authenticated, auth_skipped *)
(* and ready, "trouble" for connecting, poll_failed, disconnected and        *)
(* reconnecting, "stopped" for the report in the finally of connect().       *)
Report(word) ==
    status' = [status EXCEPT !.connected = (word = "ready"), !.lifecycle = word]

IsHttp == pipeline.transport = "http"

Moves(t, p) == client' = [client EXCEPT ![t] = p]

ClientShakesHands(t) ==
    /\ client[t] = "opening" /\ ~IsHttp
    /\ Moves(t, "handshake") /\ Report("ready")

ClientGoesOnline(t) ==
    /\ client[t] \in {"opening", "handshake"}
    /\ Moves(t, "online") /\ Report("ready")

(* A WebSocket client tells nobody before it has waited for its next attempt. *)
ClientLosesSocket(t) ==
    /\ client[t] \in {"handshake", "online"} /\ ~IsHttp
    /\ Moves(t, "opening")
    /\ UNCHANGED status

ClientInTrouble(t) ==
    /\ client[t] = "opening" \/ (client[t] = "online" /\ IsHttp)
    /\ Report("trouble")
    /\ UNCHANGED client

(* HTTPMCPClient.connect ends with the exception of initialize(). *)
ClientFails(t) ==
    /\ client[t] = "opening" /\ IsHttp
    /\ Moves(t, "dead") /\ Report("stopped")

(* _mcp_done, called after the task has ended, says nothing during a stop.   *)
McpDone(t) ==
    /\ client[t] = "dead"
    /\ Moves(t, "none")
    /\ status' = [status EXCEPT !.connected = @ /\ stop_event]

(* The end of a cancelled task; connect() has no finally to run if the task  *)
(* was cancelled before its first step.                                      *)
ClientEnds(t) ==
    /\ client[t] = "ending"
    /\ Moves(t, "none")
    /\ Report("stopped") \/ UNCHANGED status

WorkerEnds(t) ==
    /\ worker[t] = "ending"
    /\ worker' = [worker EXCEPT ![t] = "none"]
    /\ UNCHANGED <<client, status>>

ClientStep(t) ==
    /\ \/ ClientShakesHands(t) \/ ClientGoesOnline(t) \/ ClientLosesSocket(t)
       \/ ClientInTrouble(t) \/ ClientFails(t) \/ McpDone(t) \/ ClientEnds(t)
    /\ UNCHANGED worker

HostStep(c) == Call(c) \/ StartIfConfigured(c) \/ CancelCall(c)

RuntimeStep(c) ==
    \/ StartIgnored(c) \/ StartSucceeds(c) \/ StartFails(c)
    \/ StopIgnored(c) \/ StopBegins(c) \/ StopFinishes(c)

TaskStep(t) ==
    /\ ClientStep(t) \/ WorkerEnds(t)
    /\ UNCHANGED <<callVars, ownVars>>

Next ==
    \/ \E c \in Callers : HostStep(c) \/ RuntimeStep(c)
    \/ \E t \in Tasks : TaskStep(t)

Spec == Init /\ [][Next]_vars

(* The event loop runs whatever is ready: a call whose turn it is, a task    *)
(* that was cancelled, a callback.  Nobody has to call the runtime, and no   *)
(* server has to answer.                                                     *)
FairSpec ==
    /\ Spec
    /\ \A c \in Callers : WF_vars(RuntimeStep(c))
    /\ \A t \in Tasks :
          /\ WF_vars((ClientEnds(t) \/ McpDone(t)) /\ UNCHANGED <<worker, callVars, ownVars>>)
          /\ WF_vars(WorkerEnds(t) /\ UNCHANGED <<callVars, ownVars>>)

-----------------------------------------------------------------------------
Runs(t) == client[t] # "none" \/ worker[t] # "none"
Stopping == lock # Nobody

(* A client task or retry worker that runs belongs to the start in force: no *)
(* interleaving of start, stop, reload and their cancellations leaves an old *)
(* one behind or makes a second one, which would share the state files and   *)
(* the sender with the first (runtime.py:104-171, 327-358).  Both were built *)
(* from the configuration that PluginRuntime.config shows, and while nobody  *)
(* stops the runtime its worker runs, and its client too unless the first    *)
(* requests of the HTTP transport failed.                                    *)
OneGeneration ==
    /\ \A t \in Tasks : Runs(t) => started /\ t = current
    /\ started => pipeline = config /\ Buildable(config)
    /\ started /\ ~Stopping =>
          /\ worker[current] = "running"
          /\ client[current] \in Working \/ (IsHttp /\ client[current] \in {"dead", "none"})

(* The status tells the truth about the lifecycle: running exactly while     *)
(* started, connected never without a client, and once the runtime is down   *)
(* no late report of a client replaces the final word (runtime.py:97-102,    *)
(* 163-171, 191-210, 348-353).                                               *)
StatusTruthful ==
    /\ status.running <=> started
    /\ status.connected => started /\ (Stopping \/ client[current] \in Working)
    /\ ~started => status.lifecycle \in {"created", "failed", "inactive", "stopped"}

(* The stop under way waits for a WebSocket client that swallowed its        *)
(* cancellation.  Nothing cancels it again but a cancellation of the stop.   *)
Deaf == Stopping /\ client[current] \in Working /\ ~IsHttp

(* Every call returns: none waits for ever at the lock, and a stop does not  *)
(* wait for a task that nothing ends (runtime.py:331-338), with the one      *)
(* exception of a WebSocket client that is deaf from then on.                *)
CallsReturn == <>[]Deaf \/ \A c \in Callers : []<>(calls[c] = NoCall)

(* README.md:5: the WebSocket transport can still be enabled explicitly.     *)
(* With it and a target, a start does not fail for an inside reason.         *)
ConfiguredStarts ==
    [][\A c \in Callers : StartFails(c) => ~config.targeted]_vars
=============================================================================
