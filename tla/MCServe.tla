------------------------------ MODULE MCServe -------------------------------
(* A Qwen and a Kimi model; tokens that are a letter of two bytes, a        *)
(* special token, and the two halves of a character of four bytes.          *)
EXTENDS Serve, TLC

CONSTANTS qwen, kimik

Ask(op, model, chat, valid) == [op |-> op, model |-> model, chat |-> chat, valid |-> valid]

MCRequests ==
  {Ask("stream", qwen, TRUE, TRUE), Ask("stream", kimik, FALSE, TRUE),
   Ask("plain", kimik, TRUE, TRUE), Ask("plain", "other", FALSE, TRUE),
   Ask("plain", qwen, FALSE, FALSE),
   Ask("query", qwen, FALSE, TRUE), Ask("unknown", qwen, FALSE, TRUE)}

MCTokens == {"e", "pad", "g1", "g2"}
MCBytes ==
  "e" :> <<<<"e", 1>>, <<"e", 2>>>> @@ "pad" :> <<>>
  @@ "g1" :> <<<<"g", 1>>, <<"g", 2>>>> @@ "g2" :> <<<<"g", 3>>, <<"g", 4>>>>
MCWidth == "e" :> 2 @@ "g" :> 4
=============================================================================
