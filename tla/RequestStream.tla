---------------------------- MODULE RequestStream ----------------------------
(***************************************************************************)
(* What the Engine promises a client about one request: submit() either    *)
(* refuses it or opens a stream; the stream carries tokens, then exactly   *)
(* one terminal event, after which nothing follows; the client takes the   *)
(* events in the order they were put; the buffer of undelivered tokens     *)
(* never exceeds its capacity, however slow the client is.                 *)
(***************************************************************************)
EXTENDS Naturals, Sequences

CONSTANTS Requests,     \* the calls of submit()
          Terminals,    \* the kinds of terminal event
          Capacity      \* EngineConfig::event_buffer_size

ASSUME StreamAssumption == Capacity \in Nat \ {0} /\ "token" \notin Terminals

VARIABLES phase,        \* "new", "rejected", "open" or "closed"
          buffer        \* the events put and not taken yet

streamVars == <<phase, buffer>>

StreamTypeOK ==
  /\ phase \in [Requests -> {"new", "rejected", "open", "closed"}]
  /\ buffer \in [Requests -> Seq(Terminals \cup {"token"})]

StreamInit ==
  /\ phase = [r \in Requests |-> "new"]
  /\ buffer = [r \in Requests |-> <<>>]

Submit(r) ==
  /\ phase[r] = "new"
  /\ phase' = [phase EXCEPT ![r] = "open"]
  /\ UNCHANGED buffer

Reject(r) ==
  /\ phase[r] = "new"
  /\ phase' = [phase EXCEPT ![r] = "rejected"]
  /\ UNCHANGED buffer

PutToken(r) ==
  /\ phase[r] = "open"
  /\ Len(buffer[r]) < Capacity
  /\ buffer' = [buffer EXCEPT ![r] = Append(@, "token")]
  /\ UNCHANGED phase

\* The terminal event finds room in a full buffer too.
PutTerminal(r) ==
  /\ phase[r] = "open"
  /\ \E kind \in Terminals : buffer' = [buffer EXCEPT ![r] = Append(@, kind)]
  /\ phase' = [phase EXCEPT ![r] = "closed"]

Take(r) ==
  /\ buffer[r] # <<>>
  /\ buffer' = [buffer EXCEPT ![r] = Tail(@)]
  /\ UNCHANGED phase

StreamNext ==
  \E r \in Requests : Submit(r) \/ Reject(r) \/ PutToken(r) \/ PutTerminal(r) \/ Take(r)

StreamSpec == StreamInit /\ [][StreamNext]_streamVars

(***************************************************************************)
(* What follows for a client that reads the stream.                        *)
(***************************************************************************)
\* Nothing follows a terminal event, a stream that is not closed holds
\* tokens only, and a closed stream that still has events ends in its
\* terminal event: a reader that takes everything sees it last, once.
TerminalComesLast ==
  \A r \in Requests : \A i \in 1..Len(buffer[r]) :
    (buffer[r][i] \in Terminals) <=> (phase[r] = "closed" /\ i = Len(buffer[r]))

\* However slow the client, at most Capacity tokens and a terminal wait.
BufferIsBounded == \A r \in Requests : Len(buffer[r]) <= Capacity + 1
=============================================================================
