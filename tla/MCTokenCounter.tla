--------------------------- MODULE MCTokenCounter ---------------------------
(***************************************************************************)
(* TokenCounter for TLC: one body of each form the engines produce.  The   *)
(* tail holds twelve symbols, just enough for the fields of the first one. *)
(***************************************************************************)
EXTENDS TokenCounter

Reply(text, tokens, ms) == [text |-> text, tokens |-> tokens, ms |-> ms]

Event(s) == <<"data", ":">> \o s \o <<"nl", "nl">>

MCBodies ==
  { \* Ollama, streamed: 12 tokens in 96 units
    Reply(<<"x", "nl", "x", "nl", "ec", "sep", "1", "2", "x", "x", "ed", "sep", "9", "6", "x", "nl">>, 12, 4),
    \* Ollama, at once, less than a millisecond per token
    Reply(<<"x", "ec", "sep", "4", "ed", "sep", "2", "nl">>, 4, 1),
    \* Ollama, nothing generated
    Reply(<<"x", "nl", "ec", "sep", "0", "nl">>, 0, 0),
    \* vLLM, streamed without usage
    Reply(Event(<<"x">>) \o Event(<<"x">>) \o Event(<<"x">>), 0, 0),
    \* vLLM, with a running count in every event
    Reply(Event(<<"ct", "sep", "1">>) \o Event(<<"ct", "sep", "3">>), 3, 0),
    \* vLLM, at once
    Reply(<<"x", "ct", "sep", "7", "x">>, 7, 0),
    \* a count beyond the largest int, and a usable one
    Reply(<<"ec", "sep", "1", "2", "8", "ct", "sep", "5", "nl">>, 5, 0),
    \* an error page
    Reply(<<"x", "x">>, 0, 0), Reply(<<>>, 0, 0) }

=============================================================================
