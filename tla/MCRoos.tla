------------------------------- MODULE MCRoos -------------------------------
(* Roos for TLC: one agent run of two steps, two requests, short texts. *)
EXTENDS Roos

CONSTANTS r1, q1, q2

MCMaxBatch == r1 :> 2

\* Every text of at most four characters, and some with a placeholder behind another.
Chars == {"$", "{", "}", "x"}
OfX == <<"$", "{", "x", "}">>
MCFileTexts ==
    UNION {[1 .. k -> Chars] : k \in 0 .. 4}
    \cup {OfX \o <<"x">> \o behind :
            behind \in {OfX, <<"$", "{">>, <<"$", "{", "x">>, <<"$", "{", "}">>}}

\* The value of x looks like a placeholder, and that of $ is its own.
MCEnvironment == <<"x">> :> <<"$", "{", "}">> @@ <<"$">> :> <<"$", "{", "$", "}">>

Call(tool, args) == [tool |-> tool, args |-> args]
Post == Call("http_post", "fits")
MCBatches ==
    {<<>>, <<Post>>, <<Call("write_file", "fits"), Post>>,
     <<Call("write_file", "garbled")>>,
     <<Call("read_file", "fits"), Call("execute_shell", "fits")>>}

\* Answers that ask for tools, that end the turn, and that were cut off; the finish
\* words of one provider mean nothing to another.
MCWireAnswers ==
    {a \in Answers({"tool_use", "tool_calls", "TOOL_CALL"}, MCBatches, {1}) :
        a.choices /\ a.text # "none"}
    \cup {a \in Answers({"end_turn"}, {<<>>}, {1, 2}) :
        a.input = a.output /\ (a.choices \/ (a.input = 1 /\ a.text = "none"))}
    \cup {a \in Answers({"max_tokens", "length", "MAX_TOKENS", "content_filter"},
                        {<<>>}, {1}) :
        a.choices /\ a.text = "some"}

Get(route, run, bearer) == RequestHead(route, run, bearer, "none", "none", FALSE, "none")
Trigger(bearer, hub, roos, json, body) ==
    RequestHead("trigger", "none", bearer, hub, roos, json, body)

MCHeads ==
    {Get("health", "none", "none"), Get("agents", "none", "right"),
     Get("agents", "none", "wrong"), Get("runs", q1, "right"),
     Get("runs", q2, "right"), Get("runs", "malformed", "right"),
     Trigger("right", "prefixed", "none", TRUE, "trigger"),
     Trigger("right", "none", "bare", TRUE, "trigger"),
     Trigger("right", "bare", "bare", TRUE, "trigger"),
     Trigger("right", "none", "none", TRUE, "trigger"),
     Trigger("wrong", "prefixed", "none", TRUE, "trigger"),
     Trigger("right", "prefixed", "none", TRUE, "other"),
     Trigger("right", "none", "bare", FALSE, "broken"),
     Trigger("right", "none", "bare", TRUE, "broken")}

=============================================================================
