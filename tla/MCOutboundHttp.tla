--------------------------- MODULE MCOutboundHttp ---------------------------
(* Answers of the name server and tasks for TLC runs of OutboundHttp. *)
EXTENDS OutboundHttp

MixedAnswers ==
    {<<"public", "public">>, <<"public", "private">>, <<"private">>, <<"special">>,
     <<"sixtofour">>, <<"public", "teredo">>, <<"local">>, <<>>}

Step(ph, required, needs, gives, offers) ==
    [phase |-> ph, required |-> required, needs |-> needs, gives |-> gives, offers |-> offers]

\* a login that gives a token, something optional set up with it, the request, and
\* two steps that undo what was set up, each of them required or not
Tasks ==
    {<<Step("before", r[1], {}, {"token"}, {}), Step("before", r[2], {"token"}, {}, {"id"}),
       Step("main", TRUE, {"token"}, {"order"}, {}),
       Step("after", r[3], {"order"}, {}, {}), Step("after", r[4], {"id"}, {}, {})>> : r \in [1..4 -> BOOLEAN]}
    \cup {<<Step("main", TRUE, {}, {}, {})>>}
=============================================================================
