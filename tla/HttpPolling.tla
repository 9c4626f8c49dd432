----------------------------- MODULE HttpPolling -----------------------------
(***************************************************************************)
(* http_mcp_client.HTTPMCPClient, the chat log of the MCC server it polls, *)
(* and the dedup store that stands between the poll and the target.        *)
(*                                                                         *)
(*   idle -> initialize -> notify -> poll -> dispatch -> wait -> poll ...  *)
(*                                                                         *)
(* A phase names the await the client's task is suspended in.  The tool    *)
(* "history" (mcc_chat_history, the default) answers with the newest lines *)
(* every time, so each line is seen by many polls and only the dedup store *)
(* keeps it from being forwarded again.  The tool "recent"                 *)
(* (mcc_recent_events) answers with what is newer than the cursor.         *)
(*                                                                         *)
(* A line is known by its number in the log.  What the store compares is   *)
(* its text, sender and message together: fingerprint_for does not read    *)
(* the field "id" of an entry.  The store keeps the CacheSize texts asked  *)
(* for last; its file may miss a save or be lost.                          *)
(***************************************************************************)
EXTENDS Integers, Sequences, FiniteSets

CONSTANTS
    Texts,          \* sender and message of a line
    Window,         \* chat_max_count
    CacheSize,      \* dedup.cache_size
    Ttl,            \* dedup.ttl_seconds, in ticks
    MaxQuiet,       \* bound on the ticks between two completed polls
    MaxLog,         \* bound on the lines of the log
    MaxClients,     \* bound on the starts of a client
    MaxFaults       \* bound on the saves that fail and the losses of the file

ASSUME PollingAssumption ==
    /\ Window \in Nat \ {0}
    /\ CacheSize \in Nat /\ Ttl \in Nat /\ MaxQuiet \in Nat
    /\ MaxLog \in Nat /\ MaxClients \in Nat /\ MaxFaults \in Nat

VARIABLES
    tool,           \* chat_tool
    phase,          \* where the task of connect() is; idle = there is none
    session,        \* the session the client uses, as the server sees it
    cursor,         \* _last_event_id
    batch,          \* lines of the last answer not given to on_message yet
    store,          \* DedupStore: for each text its age, and the texts put in after it
    file,           \* the store as its file has it
    faults,         \* saves that failed and losses of the file so far
    log,            \* the server's chat log
    quiet,          \* ticks since the last completed poll
    clients,        \* clients started so far
    (* history variables, read by properties only *)
    handled,        \* lines that were given to on_message
    forwarded,      \* lines the pipeline accepted, in order
    restored,       \* every client found in the file what the store held last
    wanted          \* started, not stopped since

clientVars == <<tool, phase, session, cursor, batch>>
storeVars == <<store, file, faults, restored>>
historyVars == <<handled, forwarded, wanted>>
vars == <<clientVars, storeVars, log, quiet, clients, historyVars>>

Lines == 1..MaxLog

(* An entry of the store; one that is expired, or has CacheSize newer ones, *)
(* is none.                                                                 *)
NoEntry == [age |-> Ttl, newer |-> {}]
Entry(age, newer) ==
    IF age < Ttl /\ Cardinality(newer) < CacheSize THEN [age |-> age, newer |-> newer]
                                                   ELSE NoEntry
Stores == [Texts -> [age : 0..Ttl, newer : SUBSET Texts]]
EmptyStore == [t \in Texts |-> NoEntry]

TypeOK ==
    /\ tool \in {"history", "recent"}
    /\ phase \in {"idle", "initialize", "notify", "poll", "dispatch", "wait"}
    /\ session \in {"none", "open", "expired"}
    /\ cursor \in 0..Len(log)
    /\ batch \in Seq(1..Len(log)) /\ Len(batch) <= Window
    /\ phase = "dispatch" <=> batch # <<>>
    /\ {store, file} \subseteq Stores
    /\ log \in Seq(Texts) /\ Len(log) <= MaxLog
    /\ quiet \in 0..MaxQuiet
    /\ clients \in 0..MaxClients /\ faults \in 0..MaxFaults
    /\ handled \subseteq Lines
    /\ forwarded \in Seq(handled)
    /\ {restored, wanted} \subseteq BOOLEAN

Init ==
    /\ tool \in {"history", "recent"}
    /\ phase = "idle"
    /\ session = "none"
    /\ cursor = 0
    /\ batch = <<>>
    /\ store = EmptyStore /\ file = EmptyStore /\ faults = 0
    /\ log = <<>>
    /\ quiet = 0
    /\ clients = 0
    /\ handled = {} /\ forwarded = <<>>
    /\ restored = TRUE
    /\ wanted = FALSE

-----------------------------------------------------------------------------
Larger(a, b) == IF a > b THEN a ELSE b

(* connect() of the new client that PluginRuntime.start makes, with a new    *)
(* store that loads the file.  A start that cannot load makes no client.     *)
Connect ==
    /\ phase = "idle" /\ clients < MaxClients
    /\ phase' = "initialize"
    /\ session' = "none"
    /\ cursor' = 0
    /\ clients' = clients + 1
    /\ store' = file
    /\ restored' = (restored /\ file = store)
    /\ wanted' = TRUE
    /\ UNCHANGED <<tool, batch, file, faults, log, quiet, handled, forwarded>>

Goto(p) ==
    /\ phase' = p
    /\ UNCHANGED <<tool, session, cursor, batch, storeVars, log, quiet, clients, historyVars>>

(* The answer to "initialize" assigns the session. *)
Initialized ==
    /\ phase = "initialize"
    /\ phase' = "notify"
    /\ session' = "open"
    /\ UNCHANGED <<tool, cursor, batch, storeVars, log, quiet, clients, historyVars>>

Notified == phase = "notify" /\ Goto("poll")

(* A request of initialize() raises: connect() ends, nothing catches it. *)
InitializeFails == phase \in {"initialize", "notify"} /\ Goto("idle")

(* Mutant of Answer: maxCount is one too large. *)
AnswerOneMore ==
    LET floor == IF tool = "recent" THEN cursor ELSE 0
        oldest == Larger(floor, Len(log) - Window - 1)
    IN  [k \in 1..(Len(log) - oldest) |-> oldest + k]

(* What the server returns for the arguments of poll_once: the newest lines, *)
(* at most maxCount of them, with "recent" those after afterId.              *)
Answer ==
    LET floor == IF tool = "recent" THEN cursor ELSE 0
        oldest == Larger(floor, Len(log) - Window)
    IN  [k \in 1..(Len(log) - oldest) |-> oldest + k]

(* poll_once gets its answer; an empty one is already dealt with. *)
PollAnswered ==
    /\ phase = "poll" /\ session = "open"
    /\ batch' = Answer
    /\ IF Answer = <<>> THEN phase' = "wait" /\ quiet' = 0
                        ELSE phase' = "dispatch" /\ UNCHANGED quiet
    /\ UNCHANGED <<tool, session, cursor, storeVars, log, clients, historyVars>>

(* Mutant of PollFails: the exception ends connect(). *)
PollFailsForGood == phase = "poll" /\ Goto("idle")

(* Any exception of the request or of its answer is logged, no more. *)
PollFails == phase = "poll" /\ Goto("wait")

(* check_and_add answers that t is a duplicate. *)
Known(t) == store[t].age < Ttl

(* Mutant of Asked: a duplicate stays where and as old as it is. *)
AskedUnrenewed(t) ==
    IF Known(t) THEN store
    ELSE [u \in Texts |-> IF u = t THEN Entry(0, {})
                                   ELSE Entry(store[u].age, store[u].newer \cup {t})]

(* check_and_add: a duplicate starts its time and its place afresh as a new  *)
(* entry does; the oldest entry above cache_size is dropped.                 *)
Asked(t) ==
    [u \in Texts |-> IF u = t THEN Entry(0, {})
                              ELSE Entry(store[u].age, store[u].newer \cup {t})]

Fault == faults < MaxFaults /\ faults' = faults + 1

(* The file is replaced, or saving raises and leaves it as it was. *)
Save(saved) == IF saved THEN file' = store' /\ UNCHANGED faults
                        ELSE Fault /\ UNCHANGED file

(* Mutant of Dispatch: a duplicate ends the turn instead of being passed over. *)
DispatchToDuplicate(saved) ==
    /\ phase = "dispatch"
    /\ LET n == Head(batch)
       IN  /\ cursor' = Larger(cursor, n)
           /\ store' = Asked(log[n])
           /\ Save(saved)
           /\ forwarded' = IF saved /\ ~Known(log[n]) THEN Append(forwarded, n) ELSE forwarded
           /\ handled' = handled \cup {n}
           /\ batch' = IF Known(log[n]) THEN <<>> ELSE Tail(batch)
    /\ IF batch' = <<>> THEN phase' = "wait" /\ quiet' = 0
                        ELSE UNCHANGED <<phase, quiet>>
    /\ UNCHANGED <<tool, session, restored, log, clients, wanted>>

(* One event of the answer: the cursor passes it, then on_message asks the   *)
(* dedup store and forwards it or not.  When the store cannot be saved,      *)
(* check_and_add raises and the message is dropped; the callback does not    *)
(* raise.                                                                    *)
Dispatch(saved) ==
    /\ phase = "dispatch"
    /\ LET n == Head(batch)
       IN  /\ cursor' = Larger(cursor, n)
           /\ store' = Asked(log[n])
           /\ Save(saved)
           /\ forwarded' = IF saved /\ ~Known(log[n]) THEN Append(forwarded, n) ELSE forwarded
           /\ handled' = handled \cup {n}
    /\ batch' = Tail(batch)
    /\ IF Len(batch) = 1 THEN phase' = "wait" /\ quiet' = 0
                         ELSE UNCHANGED <<phase, quiet>>
    /\ UNCHANGED <<tool, session, restored, log, clients, wanted>>

(* poll_interval is over. *)
WaitEnds == phase = "wait" /\ Goto("poll")

-----------------------------------------------------------------------------
(* PluginRuntime.stop cancels the task; what is left of the answer is dropped. *)
Stop ==
    /\ wanted
    /\ phase' = "idle"
    /\ batch' = <<>>
    /\ wanted' = FALSE
    /\ UNCHANGED <<tool, session, cursor, storeVars, log, quiet, clients, handled, forwarded>>

(* The server drops the session, as after a restart of its own. *)
SessionExpires ==
    /\ session = "open"
    /\ session' = "expired"
    /\ UNCHANGED <<tool, phase, cursor, batch, storeVars, log, quiet, clients, historyVars>>

(* A chat line. *)
Say(t) ==
    /\ Len(log) < MaxLog
    /\ log' = Append(log, t)
    /\ UNCHANGED <<clientVars, storeVars, quiet, clients, historyVars>>

(* The file is damaged or deleted; load() takes it for an empty one. *)
FileLost ==
    /\ Fault
    /\ file' = EmptyStore
    /\ UNCHANGED <<clientVars, store, restored, log, quiet, clients, historyVars>>

Older(entries) == [t \in Texts |-> Entry(entries[t].age + 1, entries[t].newer)]

(* Time passes.  The bound says that no outage of the server and no pause of *)
(* the plugin lasts longer than MaxQuiet.                                    *)
Tick ==
    /\ quiet < MaxQuiet
    /\ quiet' = quiet + 1
    /\ store' = Older(store) /\ file' = Older(file)
    /\ UNCHANGED <<clientVars, faults, restored, log, clients, historyVars>>

TaskStep ==
    \/ Initialized \/ Notified \/ InitializeFails
    \/ PollAnswered \/ PollFails
    \/ \E saved \in BOOLEAN : Dispatch(saved)
    \/ WaitEnds

Next ==
    \/ TaskStep
    \/ Connect \/ Stop
    \/ SessionExpires
    \/ FileLost
    \/ \E t \in Texts : Say(t)
    \/ Tick

(* Every request ends by its timeout and the event loop runs the task. *)
Spec == Init /\ [][Next]_vars /\ WF_vars(TaskStep)

-----------------------------------------------------------------------------
(* No line is forwarded twice and none before an older one, although the    *)
(* tool "history" returns the same lines again and again: the polls          *)
(* themselves keep the lines of the window from expiring, and from the end   *)
(* of the store.  It holds over restarts of the plugin that find the whole   *)
(* store in its file.  The cursor of the tool "recent" dies with its client, *)
(* so the claim for it covers one client.                                    *)
ForwardedInOrder ==
    (tool = "history" /\ restored) \/ (tool = "recent" /\ clients <= 1) =>
        \A i, j \in 1..Len(forwarded) : i < j => forwarded[i] < forwarded[j]

(* While the server goes on answering, every line reaches on_message or is   *)
(* pushed out of the window, also when polls in between fail.                *)
EveryLineHandled ==
    []<><<PollAnswered>>_vars =>
        \A n \in Lines : Len(log) >= n ~> n \in handled \/ Len(log) >= n + Window

(* A client that got through initialize() never stops polling, whatever     *)
(* fails, until it is stopped.                                               *)
PollingGoesOn ==
    [](phase = "poll" => []<>(phase = "poll") \/ <>~wanted)

(* SPEC.md 1: "supports reconnection".  A client that nobody stops polls     *)
(* again after every failure, the ones of initialize() included.             *)
HttpReconnects == [](wanted => <>(phase = "poll" \/ ~wanted))
=============================================================================
