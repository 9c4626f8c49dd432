------------------------------ MODULE MessagePath ------------------------------
(***************************************************************************)
(* The way of a message from the frame to the chunks the sender gets:      *)
(*                                                                         *)
(*   client (Parser) -> PluginRuntime._on_mcp_message -> handle_raw,       *)
(*   coerce_message, static rules (FilterChain) -> dedup store (SeenSet)   *)
(*   -> MessageFormatter (Formatter) -> DeliveryPipeline._send_item        *)
(*                                                                         *)
(* with the settings that PluginRuntime._build_pipeline really gives each  *)
(* of these, over restarts of the runtime with other settings.  A client   *)
(* awaits its callback, so one message is under way at a time; Delivery    *)
(* has what follows, with the retry worker beside it.  The template of the *)
(* formatter is "{message}".                                               *)
(***************************************************************************)
EXTENDS Parser, SequencesExt

CONSTANTS
    Scenarios,      \* what may happen, by name: the configs to start with and
                    \* to restart with, the frames, and how many may arrive
    DefaultLimit,   \* max_message_length where no section gives one; 500
    NoMessage

Configuration ==
    [filter : Settings,
     parser : [events : SUBSET STRING, require_marker : BOOLEAN,
               allow_missing_sender : BOOLEAN, allow_missing_message : BOOLEAN],
     target_section : BOOLEAN, max_message_length : Nat, split_long_messages : BOOLEAN]

(* A field of a frame may hold anything the parsers turn into a string; of   *)
(* the texts it matters that they are sequences.                             *)
ASSUME ScenariosAssumption ==
    \A name \in DOMAIN Scenarios :
        /\ Scenarios[name].configs \cup Scenarios[name].restarts \subseteq Configuration
        /\ \A frame \in Scenarios[name].frames :
              {frame.top.text, frame.inner.text} \subseteq {Missing} \cup MessageText

ASSUME LimitAssumption == DefaultLimit \in Nat \ {0}

VARIABLES
    scenario,       \* its name
    arrivals,       \* frames that may still arrive
    config,         \* the configuration in force
    seen, stable,   \* keys of the dedup store, and those in its file
    pc,             \* the await the runtime is in: down, idle, check, sending
    message,        \* the message under way, or the latest one
    verdict,        \* the reason in its FilterDecision
    parts,          \* the payloads under way
    recorded        \* history: messages whose fingerprint was new to the store

storeVars == <<seen, stable>>
vars == <<scenario, arrivals, config, storeVars, pc, message, verdict, parts, recorded>>

(* The actions taken from it quantify over no set of fingerprints. *)
Store == INSTANCE SeenSet WITH Fingerprints <- {}, DiskFaults <- TRUE

Init ==
    /\ scenario \in DOMAIN Scenarios
    /\ config \in Scenarios[scenario].configs
    /\ arrivals = Scenarios[scenario].arrivals
    /\ seen = {} /\ stable = {}
    /\ pc = "idle"
    /\ message = NoMessage /\ verdict = "none" /\ parts = <<>>
    /\ recorded = {}

-----------------------------------------------------------------------------
(* FilterChain gets the section filter alone: with the section dedup out of  *)
(* its sight the duplicate check is always on, whatever dedup.enabled says.  *)
DedupEnabled(cfg) == TRUE

(* MessageFormatter gets the section target if there is one, and in it looks *)
(* in vain for security.max_message_length and split_long_messages.          *)
LimitInForce(cfg) == IF cfg.target_section THEN DefaultLimit ELSE cfg.max_message_length
SplitInForce(cfg) == cfg.target_section \/ cfg.split_long_messages

Answer(reason) == pc' = "idle" /\ verdict' = reason

(* A client reads a frame and calls back if there is a message in it. *)
Arrive(frame) ==
    /\ pc = "idle" /\ arrivals > 0
    /\ arrivals' = arrivals - 1
    /\ \E found \in Extract(frame, config.parser) :
          message' = CoerceMessage(found.sender, found.text, frame)
    /\ pc' = "check"
    /\ verdict' = "none"
    /\ UNCHANGED <<scenario, config, storeVars, parts, recorded>>

Ignore(frame) ==
    /\ pc = "idle" /\ arrivals > 0
    /\ arrivals' = arrivals - 1
    /\ Extract(frame, config.parser) = {}
    /\ UNCHANGED <<scenario, config, storeVars, pc, message, verdict, parts, recorded>>

(* Mutant of Reject: the fingerprint is recorded before the rules are asked. *)
RejectRecorded ==
    /\ pc = "check"
    /\ ~Accepts(message, config.filter)
    /\ Store!Remember(FingerprintFor(message), TRUE)
    /\ Answer(StaticDecision(message, config.filter))
    /\ UNCHANGED <<scenario, arrivals, config, message, parts, recorded>>

Reject ==
    /\ pc = "check"
    /\ ~Accepts(message, config.filter)
    /\ Answer(StaticDecision(message, config.filter))
    /\ UNCHANGED <<scenario, arrivals, config, storeVars, message, parts, recorded>>

(* The store answers and remembers in one step.  If its save raises, the     *)
(* exception ends in _on_mcp_message, and the key stays in memory.           *)
Duplicate(saved) ==
    /\ pc = "check"
    /\ Accepts(message, config.filter) /\ DedupEnabled(config)
    /\ Store!Recall(FingerprintFor(message), saved)
    /\ Answer(IF saved THEN "duplicate" ELSE "none")
    /\ UNCHANGED <<scenario, arrivals, config, message, parts, recorded>>

Accept(saved) ==
    /\ pc = "check"
    /\ Accepts(message, config.filter) /\ DedupEnabled(config)
    /\ Store!Remember(FingerprintFor(message), saved)
    /\ IF saved
       THEN /\ pc' = "sending"
            /\ verdict' = StaticDecision(message, config.filter)
            /\ parts' = SplitMessage(message.text.chars, LimitInForce(config), SplitInForce(config))
       ELSE Answer("none") /\ UNCHANGED parts
    /\ recorded' = recorded \cup {message}
    /\ UNCHANGED <<scenario, arrivals, config, message>>

(* Every part is sent, or the item is queued for the retry worker. *)
Handled ==
    /\ pc = "sending"
    /\ pc' = "idle" /\ parts' = <<>>
    /\ UNCHANGED <<scenario, arrivals, config, storeVars, message, verdict, recorded>>

(* stop() and start(), with settings that may be others: what is under way   *)
(* is dropped and a new store reads the file, which it writes again.         *)
Restart(cfg, saved) ==
    /\ config' = cfg
    /\ Store!Load(saved)
    /\ pc' = IF saved THEN "idle" ELSE "down"
    /\ verdict' = "none" /\ parts' = <<>>
    /\ UNCHANGED <<scenario, arrivals, message, recorded>>

Next ==
    \/ \E frame \in Scenarios[scenario].frames : Arrive(frame) \/ Ignore(frame)
    \/ Reject
    \/ \E saved \in BOOLEAN :
          \/ Duplicate(saved) \/ Accept(saved)
          \/ \E cfg \in Scenarios[scenario].restarts : Restart(cfg, saved)
    \/ Handled

Spec == Init /\ [][Next]_vars

-----------------------------------------------------------------------------
(* The settings that are one step stricter: a rule switched on, the chain    *)
(* enabled, a name put on a list of the unwanted or taken off the whitelist. *)
Stricter(s, name) ==
    {[s EXCEPT !.on = @ \cup {rule}] : rule \in Rules}
    \cup {[s EXCEPT !.enabled = TRUE],
          [s EXCEPT !.bots = @ \cup {name}],
          [s EXCEPT !.blacklist = @ \cup {name}],
          [s EXCEPT !.whitelist = @ \ {name}]}

(* No rule overrides another: what a stricter filter lets through, the one   *)
(* in force lets through, so that switching a rule on can never open a way   *)
(* past an earlier one, as a whitelist past the blacklist could              *)
(* (filter_chain.py:211-213, 292-361).                                       *)
Tightening ==
    pc = "check" =>
        \A s \in Stricter(config.filter, message.sender) :
            Accepts(message, s) => Accepts(message, config.filter)

(* An event is told by the fingerprint its frame gives it, by its event id,  *)
(* or by sender, kind and content.                                           *)
SameEvent(m, n) ==
    IF Given(m.fingerprint) \/ Given(n.fingerprint) THEN m.fingerprint = n.fingerprint
    ELSE IF Given(m.event_id) \/ Given(n.event_id) THEN m.event_id = n.event_id
    ELSE m.sender = n.sender /\ m.kind = n.kind /\ m.text.chars = n.text.chars

(* A message is called a duplicate only of an earlier one that had passed    *)
(* the rules then in force: one that was rejected leaves nothing in the      *)
(* store that would reject it again after a restart with other settings, and *)
(* no other message is mistaken for it (filter_chain.py:142-170, 386-403).   *)
DuplicateHasOrigin ==
    verdict = "duplicate" => \E m \in recorded : SameEvent(m, message)

(* Where a chunk that starts at the k-th character may end. *)
CutAsLateAsPossible(s, chunk, k, limit) ==
    LET end == k + Len(chunk) - 1
        breaks == {i \in (k + 1)..(k + limit - 1) : s[i] \in Breaks}
    IN  IF breaks = {} THEN Len(chunk) = limit
        ELSE end \in breaks /\ \A i \in breaks : i <= end

(* The chunks put together are the text, none is empty or longer than the    *)
(* limit in force, the DefaultLimit with a section target (main.py:76-82     *)
(* always gives one) and max_message_length without, and each ends as late   *)
(* as possible behind a space or newline, a word being cut only where it     *)
(* fills the chunk (formatter.py:107-143, 167).                              *)
ChunksRebuild ==
    pc = "sending" =>
        LET s == message.text.chars
            limit == LimitInForce(config)
            Start(i) == Len(FlattenSeq(SubSeq(parts, 1, i - 1))) + 1
        IN  /\ FlattenSeq(parts) = s
            /\ limit > 0 /\ SplitInForce(config) /\ s # <<>> =>
                  /\ \A i \in DOMAIN parts : Len(parts[i]) \in 1..limit
                  /\ \A i \in 1..(Len(parts) - 1) :
                        CutAsLateAsPossible(s, parts[i], Start(i), limit)
=============================================================================
