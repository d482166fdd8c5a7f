----------------------------- MODULE EventStream -----------------------------
(***************************************************************************)
(* From the rows of run_events to the execution page: the attempts of a    *)
(* run append events (sql_repository.py), the server lists them and        *)
(* streams them (routes.py), and the page (ExecutionCenter.vue, runs.ts)   *)
(* fetches what there is and subscribes to the rest.  Run 1 is under way,  *)
(* run 2 has ended.  The browser's EventSource is external: when its       *)
(* connection ends it connects again with the last cursor it was sent, and *)
(* gives up when the server refuses it.                                    *)
(***************************************************************************)
EXTENDS RequestThreads, Sequences, FiniteSets

CONSTANTS MaxCursor   \* bound: rows of run_events

ASSUME StreamAssumption == MaxCursor \in Nat \ {0}

VARIABLES
    rows,        \* committed events: cursor, run, attempt, type
    cursors,     \* cursors handed out
    inserting,   \* the row each attempt of run 1 has flushed and not committed
    overtaken,   \* cursors committed after a higher one of their run
    attempt,     \* the last attempt of run 1
    ended,       \* runs in a terminal state
    page,        \* selected run, token of the selection, connectionState, events shown
    fetches,     \* requests for a run's events on their way, and their answers
    stream       \* the connection: its run, where the server is, cursor, listing

streamVars == <<rows, cursors, inserting, overtaken, attempt, ended, page, fetches, stream>>
writers == <<rows, cursors, inserting, overtaken, attempt, ended>>

Attempts == {1, 2}
NoRow == [cursor |-> 0]
NoStream == [run |-> 0, at |-> "none", cursor |-> 0, listing |-> {}]
Of(r) == {e \in rows : e.run = r}
Least(s) == CHOOSE e \in s : \A d \in s : e.cursor <= d.cursor
Last(s) == CHOOSE c \in {e.cursor : e \in s} \cup {0} : \A e \in s : e.cursor <= c

StreamInit ==
    /\ rows = {[cursor |-> 1, run |-> 2, attempt |-> 1, type |-> "finished"]}
    /\ cursors = 1 /\ inserting = [a \in Attempts |-> NoRow] /\ overtaken = {}
    /\ attempt = 1 /\ ended = {2}
    /\ page = [run |-> 0, token |-> 0, state |-> "idle", shown |-> {}]
    /\ fetches = {} /\ stream = NoStream

-----------------------------------------------------------------------------
(* The writers *)

Finished(a) == \E e \in Of(1) : e.attempt = a /\ e.type = "finished"

\* append_event flushes its row, which takes the next cursor.  An attempt
\* appends one event at a time, and one may still be on its way when the
\* attempt is over.
Flush(a) ==
    /\ "events" \in workload /\ a <= attempt /\ inserting[a] = NoRow /\ ~Finished(a)
    /\ cursors < MaxCursor /\ cursors' = cursors + 1
    /\ \E type \in {"log", "extraction", "finished"} :
          inserting' = [inserting EXCEPT ![a] =
              [cursor |-> cursors + 1, run |-> 1, attempt |-> a, type |-> type]]
    /\ UNCHANGED <<rows, overtaken, attempt, ended, page, fetches, stream>>

Commit(a) ==
    /\ inserting[a] # NoRow
    /\ rows' = rows \cup {inserting[a]} /\ inserting' = [inserting EXCEPT ![a] = NoRow]
    /\ overtaken' = overtaken \cup
          {c \in {inserting[a].cursor} : \E e \in Of(1) : e.cursor > c}
    /\ UNCHANGED <<cursors, attempt, ended, page, fetches, stream>>

\* The foreign keys of an uncommitted row keep its attempt and its run as
\* they are: neither ends before it is committed.
Retry ==
    /\ "events" \in workload /\ 1 \notin ended /\ attempt = 1 /\ inserting[1] = NoRow
    /\ attempt' = 2
    /\ UNCHANGED <<rows, cursors, inserting, overtaken, ended, page, fetches, stream>>

RunEnds ==
    /\ "events" \in workload /\ 1 \notin ended /\ \A a \in Attempts : inserting[a] = NoRow
    /\ ended' = ended \cup {1}
    /\ UNCHANGED <<rows, cursors, inserting, overtaken, attempt, page, fetches, stream>>

-----------------------------------------------------------------------------
(* The server *)

\* list_events: the rows behind a cursor, in one transaction
ListEvents(r, after) == {e \in Of(r) : e.cursor > after}

\* Mutant: next_cursor is read after the events.
LatestCursor(f) == Last(Of(f.run))

\* next_cursor of an answer is the cursor of its last event, or `after`
NextCursor(f) == Last(f.items)

AnswerFetch ==
    /\ \E f \in fetches : ~f.answered
          /\ fetches' = (fetches \ {f}) \cup {[f EXCEPT !.answered = TRUE, !.items = ListEvents(f.run, 0)]}
    /\ UNCHANGED <<writers, page, stream>>

StreamList ==
    /\ stream.at = "list"
    /\ stream' = [stream EXCEPT !.at = "send", !.listing = ListEvents(stream.run, stream.cursor)]
    /\ UNCHANGED <<writers, page, fetches>>

\* The run's state is read after its events were listed and sent.
StreamState ==
    /\ stream.at = "send" /\ stream.listing = {}
    /\ stream' = [stream EXCEPT !.at = IF stream.run \in ended THEN "closed" ELSE "list"]
    /\ UNCHANGED <<writers, page, fetches>>

-----------------------------------------------------------------------------
(* The page *)

\* the types EventSource listens to and parseRunEvent accepts
Understood(e) == e.type # "extraction"

CompleteOf(p) == [p EXCEPT !.state = "complete"]
Connected(r, after) == [NoStream EXCEPT !.run = r, !.at = "list", !.cursor = after]

\* stopEventConnection aborts a fetch, unless its answer is already there
Unabortable == {f \in fetches : f.answered}

\* selectRun: a token of its own, what was shown gone, the connection closed
Select(r) ==
    /\ "events" \in workload /\ page.run # r /\ Happens
    /\ page' = [run |-> r, token |-> page.token + 1, state |-> "loading", shown |-> {}]
    /\ \E listed \in {FALSE, (r \in ended)} :      \* the list of runs may be older
          fetches' = Unabortable \cup {[run |-> r, token |-> page.token + 1, ended |-> listed,
                                        answered |-> FALSE, items |-> {}]}
    /\ stream' = NoStream
    /\ UNCHANGED writers

CloseDetails ==
    /\ page.run # 0 /\ Happens
    /\ page' = [run |-> 0, token |-> page.token + 1, state |-> "idle", shown |-> {}]
    /\ fetches' = Unabortable /\ stream' = NoStream
    /\ UNCHANGED writers

\* The answer is used only by the selection that asked for it.  An event type
\* the page does not know makes it an error, and the page reads the stream from
\* its beginning.
Fetched(f) ==
    LET whole == \A e \in f.items : Understood(e)
        over == f.ended \/ \E e \in f.items : e.type = "finished"
    IN  IF ~whole
        THEN /\ page' = [page EXCEPT !.state = "connecting"]
             /\ stream' = Connected(f.run, 0)
        ELSE /\ page' = [page EXCEPT !.shown = f.items, !.state = IF over THEN "complete" ELSE "connecting"]
             /\ stream' = IF over THEN NoStream ELSE Connected(f.run, NextCursor(f))

FetchAnswered ==
    /\ \E f \in fetches : f.answered /\ fetches' = fetches \ {f}
          /\ IF f.token = page.token THEN Fetched(f) ELSE UNCHANGED <<page, stream>>
    /\ UNCHANGED writers

FetchFails ==
    /\ Happens
    /\ \E f \in fetches :
          /\ fetches' = fetches \ {f}
          /\ IF f.token = page.token
             THEN page' = [page EXCEPT !.state = "connecting"] /\ stream' = Connected(f.run, 0)
             ELSE UNCHANGED <<page, stream>>
    /\ UNCHANGED writers

\* onEvent: merged, and the first finished event closes the stream
StreamSend ==
    /\ stream.at = "send" /\ stream.listing # {}
    /\ LET e == Least(stream.listing)
           shown == [page EXCEPT !.shown = IF Understood(e) THEN @ \cup {e} ELSE @, !.state = "live"]
       IN  IF e.type = "finished"
           THEN page' = CompleteOf(shown) /\ stream' = NoStream
           ELSE /\ page' = shown
                /\ stream' = [stream EXCEPT !.cursor = e.cursor, !.listing = @ \ {e}]
    /\ UNCHANGED <<writers, fetches>>

ConnectionLost ==
    /\ stream.at \in {"list", "send"} /\ Happens
    /\ stream' = [stream EXCEPT !.at = "closed", !.listing = {}]
    /\ page' = [page EXCEPT !.state = "reconnecting"]
    /\ UNCHANGED <<writers, fetches>>

\* Mutant: the page does not come back once the run has ended.
ReconnectWhileRunning ==
    /\ stream.at = "closed" /\ stream.run \notin ended
    /\ stream' = [stream EXCEPT !.at = "list"]
    /\ page' = [page EXCEPT !.state = "live"]
    /\ UNCHANGED <<writers, fetches>>

\* EventSource connects again; stream_events starts behind the greater of
\* `after` and Last-Event-ID, which is the cursor of the last event sent if any.
Reconnect ==
    /\ stream.at = "closed"
    /\ stream' = [stream EXCEPT !.at = "list"]
    /\ page' = [page EXCEPT !.state = "live"]
    /\ UNCHANGED <<writers, fetches>>

ReconnectRefused ==
    /\ stream.at = "closed" /\ Happens
    /\ stream' = [stream EXCEPT !.at = "refused"]
    /\ page' = [page EXCEPT !.state = "reconnecting"]
    /\ UNCHANGED <<writers, fetches>>

StreamStep == AnswerFetch \/ StreamList \/ StreamState \/ FetchAnswered \/ StreamSend \/ Reconnect

StreamNext ==
    \/ /\ \/ \E a \in Attempts : Flush(a) \/ Commit(a)
          \/ Retry \/ RunEnds \/ StreamStep
       /\ UNCHANGED world
    \/ \E r \in {1, 2} : Select(r)
    \/ CloseDetails \/ FetchFails \/ ConnectionLost \/ ReconnectRefused

-----------------------------------------------------------------------------
\* What the page shows belongs to the selected run, however late an answer to
\* an earlier selection arrives.
ShownIsSelected == \A e \in page.shown : e.run = page.run

\* Across fetch, stream and reconnections nothing of the selected run is passed
\* over: an event at or below the cursor the page has been sent is shown, save
\* those of a type it does not know and those committed after a higher cursor.
NothingPassedOver ==
    stream.run # 0 =>
        \A e \in Of(stream.run) :
            e.cursor <= stream.cursor /\ Understood(e) /\ e.cursor \notin overtaken => e \in page.shown

\* An event of the selected run reaches the page, although the stream may end
\* between an event's commit and the end of the run: unless the page is closed,
\* complete or refused by the server.
EventsArrive ==
    \A c \in 1..MaxCursor :
        (\E e \in Of(page.run) : e.cursor = c /\ Understood(e) /\ c \notin overtaken)
            ~> \/ \E e \in page.shown : e.cursor = c
               \/ page.state = "complete" \/ stream.at = "refused"
               \/ ~\E e \in Of(page.run) : e.cursor = c
=============================================================================
