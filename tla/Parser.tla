-------------------------------- MODULE Parser --------------------------------
(***************************************************************************)
(* What the two clients make of a frame: parser.MessageParser for the      *)
(* WebSocket, HTTPMCPClient._event_message and PluginRuntime._on_http_event *)
(* for HTTP.  A frame is a record: transport, bot, and two containers, top *)
(* (the fields of the object itself) and inner (those of its payload, data, *)
(* ...), each with event, type, sender, text, kind, event_id and           *)
(* fingerprint.                                                            *)
(*                                                                         *)
(* Only sender, text and the frame are handed on to the pipeline: the kind, *)
(* event id and fingerprint of a ParsedMessage end in MCPClient._dispatch  *)
(* and are not modelled.                                                   *)
(***************************************************************************)
EXTENDS Formatter

EmptyText == [chars |-> <<>>, marks |-> {}]

Or(value, default) == IF value = Missing THEN default ELSE value

(* _path_value: the top level comes first. *)
PathValue(frame, field) == Or(frame.top[field], frame.inner[field])

Has(frame, field) == PathValue(frame, field) # Missing

MarkerPresent(frame) == Has(frame, "event") \/ Has(frame, "type")

AcceptedEventName(frame, p) ==
    IF Has(frame, "event") THEN PathValue(frame, "event") \in p.events ELSE ~p.require_marker

Incomplete(frame, p) ==
    \/ ~Has(frame, "sender") /\ ~p.allow_missing_sender
    \/ ~Has(frame, "text") /\ ~p.allow_missing_message

(* The message in a frame, if there is one, as a set.  Where the parser      *)
(* raises ParseError instead (ignore_unknown_events off), the connection     *)
(* ends and the frame is lost as well.                                       *)
Parse(frame, p) ==
    IF /\ p.require_marker => MarkerPresent(frame)
       /\ AcceptedEventName(frame, p)
       /\ ~Incomplete(frame, p)
    THEN {[sender |-> Or(PathValue(frame, "sender"), ""),
           text |-> Or(PathValue(frame, "text"), EmptyText)]}
    ELSE {}

(* The envelopes of mcc_recent_events keep the chat in data; a record        *)
(* without one of their types is read as it is.                              *)
EventType(frame) == Or(frame.top.type, frame.top.event)

EventSender(frame) ==
    CASE EventType(frame) = "chat_public" -> Or(frame.inner.sender, "MCC")
      [] EventType(frame) = "chat_raw" -> "MCC"
      [] OTHER -> Or(frame.top.sender, "MCC")

EventText(frame) ==
    IF EventType(frame) \in {"chat_public", "chat_raw"} THEN frame.inner.text ELSE frame.top.text

(* _on_http_event hands on no message whose text is empty. *)
EventMessage(frame) ==
    {[sender |-> EventSender(frame), text |-> text] :
        text \in {t \in {EventText(frame)} \ {Missing} : t.chars # <<>>}}

Extract(frame, p) == IF frame.transport = "http" THEN EventMessage(frame) ELSE Parse(frame, p)
=============================================================================
