---------------------------- MODULE MCWsRequestor ----------------------------
(* Small websocket applications for TLC.                                    *)
EXTENDS WsRequestor, TLC

(* Retry policy 'ct', the default.                                          *)
ConnectionErrors == {"network"}
==============================================================================
