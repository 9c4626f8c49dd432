----------------------------- MODULE MCMessagePath -----------------------------
(***************************************************************************)
(* MessagePath for TLC: scenarios that each vary one stage over all that   *)
(* it tells apart.                                                         *)
(***************************************************************************)
EXTENDS MessagePath, FiniteSets

Text(chars, marks) == [chars |-> chars, marks |-> marks]
Hello == Text(<<"h", "i">>, {})

Fields(event, type, sender, text, kind, id) ==
    [event |-> event, type |-> type, sender |-> sender, text |-> text,
     kind |-> kind, event_id |-> id, fingerprint |-> Missing]
NoFields == Fields(Missing, Missing, Missing, Missing, Missing, Missing)

Frame(transport, bot, top, inner) ==
    [transport |-> transport, bot |-> bot, top |-> top, inner |-> inner]

(* A record as an HTTP tool of the server returns it. *)
Plain(sender, text, kind, id) ==
    Frame("http", FALSE, Fields(Missing, Missing, sender, text, kind, id), NoFields)

DefaultParser ==
    [events |-> {"PlayerMessage"}, require_marker |-> FALSE,
     allow_missing_sender |-> FALSE, allow_missing_message |-> FALSE]

Filter(enabled, on, blacklist) ==
    [enabled |-> enabled, on |-> on, bots |-> {"bob"}, blacklist |-> blacklist,
     whitelist |-> {"alice", "dave"}]

Config(filter, parser) ==
    [filter |-> filter, parser |-> parser, target_section |-> TRUE,
     max_message_length |-> 2, split_long_messages |-> TRUE]

Scenario(configs, restarts, frames, count) ==
    [configs |-> configs, restarts |-> restarts, frames |-> frames, arrivals |-> count]

(* Every rule alone, every rule alone missing, all and none; every kind, the *)
(* senders in no list, in one and in two, and texts that several rules match. *)
SwitchSets ==
    {on \in SUBSET Rules : Cardinality(on) \in {0, 1, 12, 13}}

RuleFrames ==
    {[Plain(sender, text, kind, Missing) EXCEPT !.bot = bot] :
        sender \in {"alice", "bob", "carol"},
        text \in {Hello, Text(<<" ">>, {}), Text(<<"!">>, {"command"}),
                  Text(<<"b", "!">>, {"keyword", "regex"})},
        kind \in Kinds, bot \in BOOLEAN}

RuleConfigs ==
    {Config(Filter(enabled, on, {"alice"}), DefaultParser) : enabled \in BOOLEAN, on \in SwitchSets}

(* Frames of both transports with and without marker, event name and fields, *)
(* at the top or inside, for every setting of the parser.                    *)
ParserFrames ==
    {Frame(transport, FALSE,
           Fields(event, type, IF who = "top" THEN "bob" ELSE Missing,
                  IF what = "top" THEN Hello ELSE Missing, Missing, Missing),
           Fields(Missing, Missing, IF who = "inner" THEN "bob" ELSE Missing,
                  IF what = "inner" THEN Hello ELSE Missing, Missing, Missing)) :
        transport \in {"http", "websocket"},
        event \in {Missing, "PlayerMessage", "player_join"},
        type \in {Missing, "event", "join", "chat_public", "chat_raw"},
        who \in {"top", "inner", "none"}, what \in {"top", "inner", "none"}}

ParserConfigs ==
    {Config(Filter(TRUE, Rules, {}), p) :
        p \in [events : {{"PlayerMessage"}}, require_marker : BOOLEAN,
               allow_missing_sender : BOOLEAN, allow_missing_message : BOOLEAN]}

(* The same text again and again, from two players, without an event id or   *)
(* with a blank one, with one, and with a fingerprint, empty or one that two *)
(* events share; restarts with a blacklist, without one, and without filter. *)
DedupConfigs ==
    {Config(f, DefaultParser) : f \in {Filter(TRUE, {"blacklist"}, {"dave"}),
                                      Filter(TRUE, {"blacklist"}, {}),
                                      Filter(FALSE, {}, {})}}

DedupFrames ==
    {Plain("dave", Hello, "chat", Missing), Plain("alice", Hello, "chat", Missing),
     Plain("dave", Hello, "chat", "e1"),
     [Plain("alice", Hello, "chat", "e2") EXCEPT !.top.fingerprint = ""],
     [Plain("dave", Hello, "chat", "") EXCEPT !.top.fingerprint = "f"],
     [Plain("alice", Hello, "chat", "e2") EXCEPT !.top.fingerprint = "f"],
     Plain("alice", Hello, "chat", "")}

Texts == UNION {[1..n -> {"x", "y", " "}] : n \in 0..5} \cup [1..7 -> {"x", " "}]
             \cup {<<"x", "\n", " ", "x", "x", "\n", "y", "y">>}

LengthConfigs ==
    {[Config(Filter(FALSE, {}, {}), DefaultParser) EXCEPT
         !.target_section = section, !.max_message_length = limit,
         !.split_long_messages = split] :
        section \in BOOLEAN, limit \in 0..4, split \in BOOLEAN}

MCScenarios ==
    [rules |-> Scenario(RuleConfigs, {}, RuleFrames, 1),
     parser |-> Scenario(ParserConfigs, {}, ParserFrames, 1),
     repeats |-> Scenario(DedupConfigs, DedupConfigs, DedupFrames, 3),
     lengths |-> Scenario(LengthConfigs, {},
                          {Plain("bob", Text(chars, {}), "chat", Missing) : chars \in Texts}, 1)]
=============================================================================
