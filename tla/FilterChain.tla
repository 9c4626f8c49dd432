------------------------------ MODULE FilterChain ------------------------------
(***************************************************************************)
(* filter_chain.FilterChain without its store: the message that            *)
(* coerce_message makes of what the runtime hands over, the thirteen static *)
(* rules in their fixed order, and the fingerprint the last rule, the      *)
(* duplicate check, compares.                                              *)
(*                                                                         *)
(* A text is a record: chars, the sequence of its characters, and marks,   *)
(* the rules about wording that match it ("command": one of the prefixes;  *)
(* "keyword"; "regex").  A message is a record of sender, text, kind,      *)
(* event_id, fingerprint and bot, the flag is_bot of its frame.  The       *)
(* settings are a record: enabled, on (the rules whose switch is on), and  *)
(* the names in bots, blacklist and whitelist.                             *)
(***************************************************************************)
EXTENDS Naturals, Sequences

CONSTANT Missing    \* a value that a frame does not have

(* Characters that strip() removes and that a long text may be cut behind. *)
Breaks == {" ", "\n"}

Kinds == {"chat", "system", "join", "leave", "death", "advancement", "announcement",
          "command", "unknown"}

(* FILTER_ORDER without its last entry. *)
FilterOrder == <<"bot", "system", "join", "leave", "death", "advancement", "announcement",
                 "command", "blacklist", "whitelist", "keyword", "regex", "empty">>

Rules == {FilterOrder[i] : i \in DOMAIN FilterOrder}

MessageText == [chars : Seq(STRING), marks : SUBSET {"command", "keyword", "regex"}]

Settings == [enabled : BOOLEAN, on : SUBSET Rules,
             bots : SUBSET STRING, blacklist : SUBSET STRING, whitelist : SUBSET STRING]

(* coerce_message reads the kind from the top level of the frame, where the  *)
(* type stands in for it, and the event id and the fingerprint from the      *)
(* fields of these names.  The spellings of a kind (_KIND_ALIASES) are one   *)
(* value here.                                                               *)
NormaliseKind(name) == IF name \in Kinds THEN name ELSE "unknown"

CoerceMessage(sender, text, frame) ==
    [sender |-> sender, text |-> text, bot |-> frame.bot,
     kind |-> NormaliseKind(IF frame.top.kind # Missing THEN frame.top.kind ELSE frame.top.type),
     event_id |-> frame.top.event_id, fingerprint |-> frame.top.fingerprint]

(* An empty fingerprint and an event id of blanks, "" here, do not count; a  *)
(* null fingerprint does, as the text "None" that str() makes of it.         *)
Given(id) == id \notin {Missing, ""}

(* The fingerprint of the frame, if it has one, is the key as it stands; the *)
(* others are digests.                                                       *)
FingerprintFor(m) ==
    IF Given(m.fingerprint) THEN <<"explicit", m.fingerprint>>
    ELSE IF Given(m.event_id) THEN <<"event", m.event_id>>
    ELSE <<"content", m.sender, m.kind, m.text.chars>>

IsBlank(text) == \A i \in DOMAIN text.chars : text.chars[i] \in Breaks

(* Mutant of Matches: a player on the whitelist is not looked up on the      *)
(* blacklist.                                                                *)
MatchesListed(rule, m, s) ==
    CASE rule = "blacklist" ->
            m.sender \in s.blacklist /\ ~("whitelist" \in s.on /\ m.sender \in s.whitelist)
      [] rule = "whitelist" -> m.sender \notin s.whitelist
      [] OTHER -> FALSE

(* Whether a rule would reject the message if it is switched on. *)
Matches(rule, m, s) ==
    CASE rule = "bot"       -> m.bot \/ m.sender \in s.bots
      [] rule = "command"   -> m.kind = "command" \/ "command" \in m.text.marks
      [] rule = "blacklist" -> m.sender \in s.blacklist
      [] rule = "whitelist" -> m.sender \notin s.whitelist
      [] rule \in {"keyword", "regex"} -> rule \in m.text.marks
      [] rule = "empty"     -> IsBlank(m.text)
      [] OTHER              -> m.kind = rule

(* _static_decision: the reason of the first rule that rejects. *)
StaticDecision(m, s) ==
    LET rejecting == {i \in DOMAIN FilterOrder :
                         FilterOrder[i] \in s.on /\ Matches(FilterOrder[i], m, s)}
    IN  IF ~s.enabled THEN "filters_disabled"
        ELSE IF rejecting = {} THEN "accepted"
        ELSE FilterOrder[CHOOSE i \in rejecting : \A j \in rejecting : i <= j]

Accepts(m, s) == StaticDecision(m, s) \in {"filters_disabled", "accepted"}
=============================================================================
