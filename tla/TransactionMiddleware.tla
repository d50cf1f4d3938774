------------------------- MODULE TransactionMiddleware -------------------------
(***************************************************************************)
(* Requests through the transaction middleware                             *)
(* (server/middleware/transaction/transaction.go), served concurrently.    *)
(* Each request gets its own committed flag (new(bool) in its context)     *)
(* and its own response buffer; its handler runs in a database             *)
(* transaction.  The transaction commits when the handler called           *)
(* MustCommit or the response is a success, and rolls back otherwise.  A   *)
(* begin, commit or rollback error resets the buffer to a 500.  The        *)
(* buffer is flushed to the client only by the middleware that created     *)
(* it, after this, so the reset cannot meet a flushed buffer and its       *)
(* failure branch (lines 74-77) is not reachable.                          *)
(*                                                                         *)
(* The handler may also add notification events to the request's event    *)
(* context (pkg/notification/notification.go, AddEvent).  The notification *)
(* middleware, outside this repository and outside the transaction         *)
(* middleware, installs the context and, once the response is written,     *)
(* publishes the events if the response is a success or MustNotify is set  *)
(* (the "sent by the notification middleware eventually" of AddEvent).     *)
(***************************************************************************)
EXTENDS Integers

CONSTANTS
    Requests,   \* requests in flight at the same time
    MaxCalls    \* AddEvent calls per handler

VARIABLES
    pc,         \* [Requests -> "start", "begun", "served", "txdone", "done"]
    committed,  \* [Requests -> the *bool MustCommit sets]
    calledMustCommit, \* [Requests -> the handler of this request called MustCommit]
    response,   \* [Requests -> status in the buffer]
    writes,     \* [Requests -> "none", "pending", "committed", "discarded"]
    txErr,      \* [Requests -> error of WithTransaction: "none", "nonSuccess", "db"]
    client,     \* [Requests -> status the client received, or "none"]
    hasCtx,     \* [Requests -> an *EventCtx is in the request context]
    eventCtx,   \* [Requests -> [events: events in the list, mustNotify: MustNotify]]
    calls,      \* [Requests -> AddEvent calls made]
    published,  \* [Requests -> events published, or -1 before the notification middleware ran]
    lastFlag    \* [Requests -> the last notify argument passed with an event, or "none"]

txVars == <<pc, committed, calledMustCommit, response, writes, txErr, client>>
evVars == <<hasCtx, eventCtx, calls, published, lastFlag>>
vars == <<txVars, evVars>>

\* NewEventCtx: an empty event list, MustNotify false.
NewEventCtx == [events |-> 0, mustNotify |-> FALSE]

Init ==
    /\ pc = [r \in Requests |-> "start"]
    /\ committed = [r \in Requests |-> FALSE]
    /\ calledMustCommit = [r \in Requests |-> FALSE]
    /\ response = [r \in Requests |-> "none"]
    /\ writes = [r \in Requests |-> "none"]
    /\ txErr = [r \in Requests |-> "none"]
    /\ client = [r \in Requests |-> "none"]
    /\ hasCtx \in [Requests -> BOOLEAN]
    /\ eventCtx = [r \in Requests |-> NewEventCtx]
    /\ calls = [r \in Requests |-> 0]
    /\ published = [r \in Requests |-> -1]
    /\ lastFlag = [r \in Requests |-> "none"]

\* WithTransaction begins the transaction; a begin error skips the handler.
Begin(r) ==
    /\ pc[r] = "start"
    /\ \/ pc' = [pc EXCEPT ![r] = "begun"] /\ UNCHANGED txErr
       \/ pc' = [pc EXCEPT ![r] = "txdone"] /\ txErr' = [txErr EXCEPT ![r] = "db"]
    /\ UNCHANGED <<committed, calledMustCommit, response, writes, client, evVars>>

\* Mutant: one committed flag shared by all requests of the middleware.
MustCommitShared(r) == committed' = [q \in Requests |-> TRUE]

\* MustCommit sets the flag found in the request's own context.
MustCommit(r) == committed' = [committed EXCEPT ![r] = TRUE]

\* h: next.ServeHTTP with a fresh committed flag in the context.  The
\* handler writes in the transaction, may call MustCommit, and writes a
\* success or a failure into the buffer.
Serve(r) ==
    /\ pc[r] = "begun"
    /\ \E mustCommit \in BOOLEAN, status \in {"success", "failure"} :
         /\ IF mustCommit THEN MustCommit(r) ELSE UNCHANGED committed
         /\ calledMustCommit' = [calledMustCommit EXCEPT ![r] = mustCommit]
         /\ response' = [response EXCEPT ![r] = status]
    /\ writes' = [writes EXCEPT ![r] = "pending"]
    /\ pc' = [pc EXCEPT ![r] = "served"]
    /\ UNCHANGED <<txErr, client, evVars>>

\* h returns errNonSuccess unless committed or a success; WithTransaction
\* then rolls back, else commits; either can fail with a database error.
EndTransaction(r) ==
    /\ pc[r] = "served"
    /\ IF committed[r] \/ response[r] = "success"
       THEN \/ /\ writes' = [writes EXCEPT ![r] = "committed"]
               /\ txErr' = [txErr EXCEPT ![r] = "none"]
            \/ /\ writes' = [writes EXCEPT ![r] = "discarded"]
               /\ txErr' = [txErr EXCEPT ![r] = "db"]
       ELSE /\ writes' = [writes EXCEPT ![r] = "discarded"]
            /\ \E e \in {"nonSuccess", "db"} : txErr' = [txErr EXCEPT ![r] = e]
    /\ pc' = [pc EXCEPT ![r] = "txdone"]
    /\ UNCHANGED <<committed, calledMustCommit, response, client, evVars>>

\* A database error resets the buffer and sends a 500 in it; errNonSuccess
\* leaves the handler's response.  Then the buffer reaches the client.
Respond(r) ==
    /\ pc[r] = "txdone"
    /\ LET final == IF txErr[r] = "db" THEN "500" ELSE response[r]
       IN /\ response' = [response EXCEPT ![r] = final]
          /\ client' = [client EXCEPT ![r] = final]
    /\ pc' = [pc EXCEPT ![r] = "done"]
    /\ UNCHANGED <<committed, calledMustCommit, writes, txErr, evVars>>

\* Mutant: AddEvent without a notify argument sets MustNotify.
AddEventDefaultNotify(ec, m, notify) ==
    IF m = "nil" THEN ec
    ELSE [ec EXCEPT !.mustNotify = notify # "false",
                    !.events = @ + 1]

\* AddEvent(ctx, m, notify...) on the request's EventCtx: a nil event is
\* ignored; an explicit notify flag overwrites MustNotify; the event is
\* pushed to the back of the list.
AddEvent(ec, m, notify) ==
    IF m = "nil" THEN ec
    ELSE [ec EXCEPT !.mustNotify = IF notify = "none" THEN @ ELSE notify = "true",
                    !.events = @ + 1]

\* The handler calls AddEvent; without an EventCtx in the context the call
\* only logs.
HandlerAddEvent(r) ==
    /\ pc[r] = "begun"
    /\ calls[r] < MaxCalls
    /\ \E m \in {"nil", "event"}, notify \in {"none", "true", "false"} :
         /\ eventCtx' = IF hasCtx[r]
                        THEN [eventCtx EXCEPT ![r] = AddEvent(@, m, notify)]
                        ELSE eventCtx
         /\ lastFlag' = IF notify = "none" \/ m = "nil" THEN lastFlag
                        ELSE [lastFlag EXCEPT ![r] = notify]
    /\ calls' = [calls EXCEPT ![r] = @ + 1]
    /\ UNCHANGED <<txVars, hasCtx, published>>

\* The notification middleware, after the response is written.
Publish(r) ==
    /\ pc[r] = "done"
    /\ published[r] = -1
    /\ published' = [published EXCEPT ![r] =
                        IF client[r] = "success" \/ eventCtx[r].mustNotify
                        THEN eventCtx[r].events ELSE 0]
    /\ UNCHANGED <<txVars, hasCtx, eventCtx, calls, lastFlag>>

Done ==
    /\ \A r \in Requests : pc[r] = "done" /\ published[r] # -1
    /\ UNCHANGED vars

Next ==
    \/ \E r \in Requests :
         \/ Begin(r) \/ HandlerAddEvent(r) \/ Serve(r) \/ EndTransaction(r)
         \/ Respond(r) \/ Publish(r)
    \/ Done

Spec == Init /\ [][Next]_vars

(***************************************************************************)
(* Properties.                                                             *)
(***************************************************************************)
\* What each client is told matches what the database kept of its request:
\* a success only for committed writes, and writes of a request that did
\* not succeed are committed only if that request's own handler called
\* MustCommit.
ResponseMatchesOutcome ==
    \A r \in Requests :
        pc[r] = "done" =>
            /\ client[r] = "success" => writes[r] = "committed"
            /\ (writes[r] = "committed" /\ client[r] # "success") => calledMustCommit[r]

\* The events a handler added are published only for a request whose
\* writes the database kept, unless the last notify flag the handler
\* passed along with an event was true; and for a request answered with
\* success all of them are published.
EventsFollowOutcome ==
    \A r \in Requests :
        published[r] # -1 =>
            /\ published[r] > 0 => writes[r] = "committed" \/ lastFlag[r] = "true"
            /\ client[r] = "success" => published[r] = eventCtx[r].events
=============================================================================
