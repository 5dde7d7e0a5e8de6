------------------------------ MODULE HttpServer ------------------------------
(***************************************************************************)
(* serve_http of src/src/http_server.cpp: completion handlers on the       *)
(* threads of an HTTP library, each with a lease on the ResponseDrain, and *)
(* the monitor that stops the service: no new leases, engine.stop(), a     *)
(* bounded wait for the leases, server.stop().  Of the library we use      *)
(* that a chunked response ends early when the listening socket is closed  *)
(* between two chunks, and that listen() returns when the socket is closed *)
(* and all handlers are over; of the Engine, that it ends every request    *)
(* and that stop() waits for that (module Engine).                         *)
(***************************************************************************)
EXTENDS Naturals, Sequences, FiniteSets

CONSTANTS Requests,
          Streams,    \* those that ask for a stream
          MaxTokens   \* bound: the tokens the Engine emits for one of them

ASSUME HttpAssumption == Streams \subseteq Requests /\ MaxTokens \in Nat

VARIABLES
  interrupted,        \* the signal, or the shutdown marker
  stopping, active,   \* ResponseDrain
  monitor, main,      \* where those threads are
  gaveUp,             \* the wait for the leases ran out
  at,                 \* where each handler is
  gone,               \* the clients that left, or read too slowly
  engineStopping,
  accepted, ended,    \* the requests the Engine took, and those it ended
  cancelled,
  given,              \* how many tokens the Engine has put into each handle
  events,             \* what a handle has to give
  text,               \* what a handler without a stream has collected
  sent                \* what the client was sent

drainVars == <<stopping, active>>
engineVars == <<engineStopping, accepted, ended, cancelled, given>>
answerVars == <<text, sent>>
httpVars == <<interrupted, drainVars, monitor, main, gaveUp, at, gone, engineVars, events, answerVars>>

\* The events of a handle, the tokens numbered, and the mark of a stream's end.
Token(n) == [kind |-> "token", n |-> n]
End == [kind |-> "end", n |-> 0]
Done == [kind |-> "[DONE]", n |-> 0]

Listening == main = "listening"

HttpInit ==
  /\ interrupted = FALSE /\ stopping = FALSE /\ active = 0 /\ gaveUp = FALSE
  /\ monitor = "watch" /\ main = "listening"
  /\ at = [r \in Requests |-> "new"] /\ gone = {}
  /\ engineStopping = FALSE /\ accepted = {} /\ ended = {} /\ cancelled = {}
  /\ given = [r \in Requests |-> 0] /\ events = [r \in Requests |-> <<>>]
  /\ text = [r \in Requests |-> <<>>] /\ sent = [r \in Requests |-> <<>>]

Goes(r, from, to) == at[r] = from /\ at' = [at EXCEPT ![r] = to]

-----------------------------------------------------------------------------
\* Slip: leases are given while the service stops.
GrantedAlways == TRUE
Granted == ~stopping

\* ResponseLease(), or 503.
Lease(r) ==
  /\ Listening
  /\ IF Granted THEN Goes(r, "new", "leased") /\ active' = active + 1
                ELSE Goes(r, "new", "over") /\ UNCHANGED active
  /\ UNCHANGED <<interrupted, stopping, monitor, main, gaveUp, gone, engineVars, events, answerVars>>

\* ~ResponseLease()
Unlease == active' = active - 1

\* submit() accepts the request ...
Submit(r) ==
  /\ ~engineStopping
  /\ Goes(r, "leased", IF r \in Streams THEN "between" ELSE "collect")
  /\ accepted' = accepted \cup {r}
  /\ UNCHANGED <<interrupted, drainVars, monitor, main, gaveUp, gone, engineStopping, ended,
                 cancelled, given, events, answerVars>>

\* ... or the body or submit() is bad, and the lease goes with the exception.
SubmitThrows(r) ==
  /\ Goes(r, "leased", "over") /\ Unlease
  /\ UNCHANGED <<interrupted, stopping, monitor, main, gaveUp, gone, engineVars, events, answerVars>>

-----------------------------------------------------------------------------
\* The library calls the content provider until it is done or, between two
\* calls, the listening socket is gone.
NextChunk(r) ==
  /\ Goes(r, "between", IF Listening THEN "provide" ELSE "closing")
  /\ UNCHANGED <<interrupted, drainVars, monitor, main, gaveUp, gone, engineVars, events, answerVars>>

Leaves(r) ==
  /\ r \in gone
  /\ cancelled' = cancelled \cup {r}

\* The provider finds the connection closed, or cannot write.
ProvideFails(r) ==
  /\ Goes(r, "provide", "closing") /\ Leaves(r)
  /\ UNCHANGED <<interrupted, drainVars, monitor, main, gaveUp, gone, engineStopping, accepted,
                 ended, given, events, answerVars>>

Marked(event) == IF event = End THEN <<End, Done>> ELSE <<event>>

\* The provider writes an event; a terminal one is followed by [DONE].
Provide(r) ==
  /\ r \notin gone /\ events[r] # <<>>
  /\ Goes(r, "provide", IF Head(events[r]) = End THEN "closing" ELSE "between")
  /\ events' = [events EXCEPT ![r] = Tail(@)]
  /\ sent' = [sent EXCEPT ![r] = @ \o Marked(Head(events[r]))]
  /\ UNCHANGED <<interrupted, drainVars, monitor, main, gaveUp, gone, engineVars, text>>

\* The library cannot write to a client that left, and asks for nothing more.
GiveUp(r) ==
  /\ r \in gone /\ Goes(r, "between", "closing")
  /\ UNCHANGED <<interrupted, drainVars, monitor, main, gaveUp, gone, engineVars, events, answerVars>>

\* Slip: the request is left to the provider to cancel.
FinishedAlways(r) == TRUE
Finished(r) == r \in ended

\* The library lets go of the response: the releaser cancels what has not
\* finished, and drops the lease.
Release(r) ==
  /\ Goes(r, "closing", "over") /\ Unlease
  /\ cancelled' = IF Finished(r) THEN cancelled ELSE cancelled \cup {r}
  /\ UNCHANGED <<interrupted, stopping, monitor, main, gaveUp, gone, engineStopping, accepted,
                 ended, given, events, answerVars>>

-----------------------------------------------------------------------------
\* Slip: the text of an event takes the place of what was collected.
CollectedLast(r) == <<Head(events[r])>>
Collected(r) == Append(text[r], Head(events[r]))

\* Without a stream, the handler collects the tokens; its lease ends when it
\* returns, and then the library writes the response.
Collect(r) ==
  /\ events[r] # <<>>
  /\ IF Head(events[r]) = End
       THEN Goes(r, "collect", "reply") /\ Unlease /\ UNCHANGED text
       ELSE /\ Goes(r, "collect", "collect") /\ UNCHANGED active
            /\ text' = [text EXCEPT ![r] = Collected(r)]
  /\ events' = [events EXCEPT ![r] = Tail(@)]
  /\ UNCHANGED <<interrupted, stopping, monitor, main, gaveUp, gone, engineVars, sent>>

CollectFails(r) ==
  /\ Goes(r, "collect", "over") /\ Leaves(r) /\ Unlease
  /\ UNCHANGED <<interrupted, stopping, monitor, main, gaveUp, gone, engineStopping, accepted,
                 ended, given, events, answerVars>>

Reply(r) ==
  /\ Goes(r, "reply", "over")
  /\ sent' = IF r \in gone THEN sent ELSE [sent EXCEPT ![r] = Append(text[r], End)]
  /\ UNCHANGED <<interrupted, drainVars, monitor, main, gaveUp, gone, engineVars, events, text>>

Handler(r) ==
  \/ Submit(r) \/ SubmitThrows(r)
  \/ NextChunk(r) \/ ProvideFails(r) \/ Provide(r) \/ GiveUp(r) \/ Release(r)
  \/ Collect(r) \/ CollectFails(r) \/ Reply(r)

-----------------------------------------------------------------------------
\* The monitor
MonitorGoes(from, to) == monitor = from /\ monitor' = to

Refuse ==
  /\ interrupted /\ MonitorGoes("watch", "engine")
  /\ stopping' = TRUE
  /\ UNCHANGED <<interrupted, active, main, gaveUp, at, gone, engineVars, events, answerVars>>

StopEngine ==
  /\ MonitorGoes("engine", "ending") /\ engineStopping' = TRUE
  /\ UNCHANGED <<interrupted, drainVars, main, gaveUp, at, gone, accepted, ended, cancelled, given, events, answerVars>>

EngineStopped ==
  /\ MonitorGoes("ending", "drain") /\ accepted = ended
  /\ UNCHANGED <<interrupted, drainVars, main, gaveUp, at, gone, engineVars, events, answerVars>>

\* Slip: the monitor does not wait.
NoLeaseAlways == TRUE
NoLease == active = 0

Drain ==
  /\ NoLease /\ MonitorGoes("drain", "stop")
  /\ UNCHANGED <<interrupted, drainVars, main, gaveUp, at, gone, engineVars, events, answerVars>>

\* Six seconds pass.
DrainTimeout ==
  /\ ~NoLease /\ MonitorGoes("drain", "stop") /\ gaveUp' = TRUE
  /\ UNCHANGED <<interrupted, drainVars, main, at, gone, engineVars, events, answerVars>>

\* Slip: the server is left open when the wait ran out.
ClosedIfDrained == IF gaveUp THEN main ELSE "closed"
Closed == "closed"

StopServer ==
  /\ MonitorGoes("stop", "over") /\ main' = Closed
  /\ UNCHANGED <<interrupted, drainVars, gaveUp, at, gone, engineVars, events, answerVars>>

Monitor == Refuse \/ StopEngine \/ EngineStopped \/ Drain \/ DrainTimeout \/ StopServer

\* listen() returns when its handlers are over; the monitor is joined.
Quiet(r) == at[r] \in {"new", "over"}
Return ==
  /\ main = "closed" /\ \A r \in Requests : Quiet(r)
  /\ main' = "returned"
  /\ UNCHANGED <<interrupted, drainVars, monitor, gaveUp, at, gone, engineVars, events, answerVars>>

-----------------------------------------------------------------------------
\* The world: signals, clients, DELETE /v1/requests, and the Engine.
Interrupt ==
  /\ ~interrupted /\ interrupted' = TRUE
  /\ UNCHANGED <<drainVars, monitor, main, gaveUp, at, gone, engineVars, events, answerVars>>

Disconnect(r) ==
  /\ at[r] # "new" /\ gone' = gone \cup {r}
  /\ UNCHANGED <<interrupted, drainVars, monitor, main, gaveUp, at, engineVars, events, answerVars>>

Delete(r) ==
  /\ Listening /\ r \in accepted \ ended
  /\ cancelled' = cancelled \cup {r}
  /\ UNCHANGED <<interrupted, drainVars, monitor, main, gaveUp, at, gone, engineStopping, accepted,
                 ended, given, events, answerVars>>

EngineToken(r) ==
  /\ r \in accepted \ ended /\ given[r] < MaxTokens
  /\ given' = [given EXCEPT ![r] = @ + 1]
  /\ events' = [events EXCEPT ![r] = Append(@, Token(given[r] + 1))]
  /\ UNCHANGED <<interrupted, drainVars, monitor, main, gaveUp, at, gone, engineStopping, accepted,
                 ended, cancelled, answerVars>>

EngineEnds(r) ==
  /\ r \in accepted \ ended
  /\ ended' = ended \cup {r} /\ events' = [events EXCEPT ![r] = Append(@, End)]
  /\ UNCHANGED <<interrupted, drainVars, monitor, main, gaveUp, at, gone, engineStopping, accepted,
                 cancelled, given, answerVars>>

Served == main = "returned" /\ UNCHANGED httpVars

HttpNext ==
  \/ \E r \in Requests : \/ Lease(r) \/ Handler(r) \/ Disconnect(r) \/ Delete(r)
                         \/ EngineToken(r) \/ EngineEnds(r)
  \/ Monitor \/ Return \/ Interrupt \/ Served

HttpSpec == HttpInit /\ [][HttpNext]_httpVars

\* Threads run, and the Engine ends what it accepted; clients and signals owe
\* nothing.
HttpFairSpec ==
  /\ HttpSpec /\ WF_httpVars(Monitor) /\ WF_httpVars(Return)
  /\ \A r \in Requests : WF_httpVars(Handler(r)) /\ WF_httpVars(EngineEnds(r))

-----------------------------------------------------------------------------
Holding(r) == at[r] \in {"leased", "between", "provide", "closing", "collect"}

Events == {Token(n) : n \in 1..MaxTokens} \cup {End}

HttpTypeOK ==
  /\ {interrupted, stopping, gaveUp, engineStopping} \subseteq BOOLEAN
  /\ monitor \in {"watch", "engine", "ending", "drain", "stop", "over"}
  /\ main \in {"listening", "closed", "returned"}
  /\ at \in [Requests -> {"new", "leased", "between", "provide", "closing", "collect", "reply", "over"}]
  /\ {gone, accepted, ended, cancelled} \subseteq SUBSET Requests
  /\ given \in [Requests -> 0..MaxTokens]
  /\ {events, text} \subseteq [Requests -> Seq(Events)]
  /\ sent \in [Requests -> Seq(Events \cup {Done})]
  /\ active = Cardinality({r \in Requests : Holding(r)})

\* A client that stays gets the whole response of a request the Engine
\* accepted, though the service is stopped at any moment, unless the bounded
\* wait ran out: every token the Engine put into the handle, once and in order,
\* then the terminal event, and [DONE] on a stream.
Complete(r) ==
  sent[r] = [i \in 1..given[r] |-> Token(i)] \o (IF r \in Streams THEN <<End, Done>> ELSE <<End>>)
AcceptedAreAnswered ==
  \A r \in accepted \ gone : at[r] = "over" /\ ~gaveUp => Complete(r)

\* The Engine never works for nobody: when a handler is over, however it came
\* to its end, its request has ended or been cancelled.
NoRequestIsAbandoned ==
  \A r \in accepted : at[r] = "over" => r \in ended \cup cancelled

\* Once the service waits for leases there are none to come: the wait is for
\* handlers that have begun, and what it saw stays true.
DrainIsFinal ==
  [][stopping /\ active = 0 => active' = 0]_httpVars

\* A service that is told to stop stops, whatever its clients do.
StopIsObeyed == interrupted ~> main = "returned"
===============================================================================
