------------------------------- MODULE MCRuntime -------------------------------
(***************************************************************************)
(* Runtime for TLC: the configurations.  A second one of the HTTP transport *)
(* makes a reload of one by another visible; the plain mapping is the only *)
(* one with which the WebSocket transport starts.                          *)
(***************************************************************************)
EXTENDS Runtime

Config(name, transport, targeted, parsed) ==
    [name |-> name, transport |-> transport, targeted |-> targeted, parsed |-> parsed]

WebSocketConfigs == {Config("websocket", "websocket", TRUE, TRUE)}

MCConfigs ==
    WebSocketConfigs \cup
    {Config("first", "http", TRUE, TRUE),
     Config("second", "http", TRUE, TRUE),
     Config("no target", "http", FALSE, TRUE),
     Config("mapping", "websocket", TRUE, FALSE)}
=============================================================================
