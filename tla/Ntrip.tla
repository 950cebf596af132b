------------------------------- MODULE Ntrip -------------------------------
(***************************************************************************)
(* Class NtripClient (extras/rtkNmea/ntrip.cpp): one thread runs the       *)
(* completion handlers of a connection to an NTRIP caster, of the timer    *)
(* that reconnects after 5 s, and of the watchdog that gives a stream up   *)
(* after 10 s without data.                                                *)
(*                                                                         *)
(* A handler that is ready cannot be taken back: a timer that is cancelled *)
(* or set again after it has expired still runs its handler.  An aborted   *)
(* wait of a timer does nothing and is left out.                           *)
(*                                                                         *)
(* The bytes of a connection are items: the response headers are one, each *)
(* later piece of the stream is one.  send_gga() writes to the socket and  *)
(* changes nothing else of the client.                                     *)
(***************************************************************************)
EXTENDS Naturals, Sequences

CONSTANTS
  MaxItems,        \* bound: how many items the caster sends in all
  PromptHandlers   \* what is ready is run before the 5 s of timer_ are over

ASSUME NtripAssumption == MaxItems \in Nat /\ PromptHandlers \in BOOLEAN

VARIABLES
  ops,         \* the asynchronous operations under way
  ready,       \* the handlers to be run, in order
  reconnect,   \* timer_ is being waited for
  watchdog,    \* watchdog_timer_ is being waited for
  caster,      \* the caster's end of the connection
  wire,        \* items sent and not yet read
  sent,        \* how many items have been sent and not lost with a connection
  response_,   \* items read and not yet handed to the callback
  forwarded    \* items handed to the callback

timerVars == << reconnect, watchdog >>
wireVars  == << caster, wire, sent >>
dataVars  == << response_, forwarded >>
vars == << ops, ready, timerVars, wireVars, dataVars >>

SocketOps == {"connect", "write", "headers", "stream"}
Item      == [head : BOOLEAN, n : Nat]
Handler   == [of : SocketOps \cup {"resolve", "reconnect", "watchdog"},
              ok : BOOLEAN, size : Nat]

TypeOK ==
  /\ ops \subseteq SocketOps \cup {"resolve"}
  /\ ready \in Seq(Handler)
  /\ reconnect \in BOOLEAN /\ watchdog \in BOOLEAN
  /\ caster \in {"none", "accepted", "streaming", "shut"}
  /\ wire \in Seq(Item) /\ sent \in Nat
  /\ response_ \in Seq(Item) /\ forwarded \in Seq(Item)

\* start()
Init ==
  /\ ops = {"resolve"} /\ ready = << >>
  /\ reconnect = FALSE /\ watchdog = FALSE
  /\ caster = "none" /\ wire = << >> /\ sent = 0
  /\ response_ = << >> /\ forwarded = << >>

Done(op)    == [of |-> op, ok |-> TRUE, size |-> 0]
Failed(op)  == [of |-> op, ok |-> FALSE, size |-> 0]
HasRead(k)  == [of |-> "stream", ok |-> TRUE, size |-> k]

\* Closing the socket: the operation on it ends with a handler of its own, what
\* has not been read is lost.
Aborted ==
  IF ops \cap SocketOps = {} THEN << >>
  ELSE << Failed(CHOOSE op \in ops : op \in SocketOps) >>

\* Mutant: what has not been read is counted as lost twice.
CloseSocketTwice ==
  /\ ready' = Tail(ready) \o Aborted
  /\ caster' = "none" /\ wire' = << >> /\ sent' = sent - 2 * Len(wire)

CloseSocket ==
  /\ ready' = Tail(ready) \o Aborted
  /\ caster' = "none" /\ wire' = << >> /\ sent' = sent - Len(wire)

-----------------------------------------------------------------------------
(* Operations that complete, timers that expire, and the caster.           *)

\* Operation op ends with handler h.
Complete(op, h) ==
  /\ op \in ops
  /\ ops' = ops \ {op}
  /\ ready' = Append(ready, h)
  /\ UNCHANGED timerVars

Resolve ==
  /\ Complete("resolve", Done("resolve")) \/ Complete("resolve", Failed("resolve"))
  /\ UNCHANGED << wireVars, dataVars >>

Connect ==
  /\ \/ Complete("connect", Done("connect")) /\ caster' = "accepted"
     \/ Complete("connect", Failed("connect")) /\ UNCHANGED caster
  /\ UNCHANGED << wire, sent, dataVars >>

Write ==
  /\ Complete("write", Done("write")) \/ Complete("write", Failed("write"))
  /\ UNCHANGED << wireVars, dataVars >>

HeadersFound == \E i \in DOMAIN response_ : response_[i].head

\* async_read_until() looks at what response_ holds before it reads: headers
\* of an earlier connection satisfy it.
FindHeaders ==
  /\ HeadersFound
  /\ Complete("headers", Done("headers"))
  /\ UNCHANGED << wireVars, dataVars >>

Read(k) ==
  /\ response_' = response_ \o SubSeq(wire, 1, k)
  /\ wire' = SubSeq(wire, k + 1, Len(wire))
  /\ UNCHANGED << caster, sent, forwarded >>

ReadTowardsHeaders ==
  /\ "headers" \in ops /\ ~HeadersFound
  /\ \E k \in 1 .. Len(wire) : Read(k)
  /\ UNCHANGED << ops, ready, timerVars >>

ReadStream ==
  \E k \in 1 .. Len(wire) : Complete("stream", HasRead(k)) /\ Read(k)

\* The end of the connection is seen once all before it is read.
ReadEnd ==
  /\ caster = "shut" /\ wire = << >>
  /\ \/ ~HeadersFound /\ Complete("headers", Failed("headers"))
     \/ Complete("stream", Failed("stream"))
  /\ UNCHANGED << wireVars, dataVars >>

Retry ==
  /\ reconnect /\ (PromptHandlers => ready = << >>)
  /\ reconnect' = FALSE
  /\ ready' = Append(ready, Done("reconnect"))
  /\ UNCHANGED << ops, watchdog, wireVars, dataVars >>

WatchdogExpires ==
  /\ watchdog
  /\ watchdog' = FALSE
  /\ ready' = Append(ready, Done("watchdog"))
  /\ UNCHANGED << ops, reconnect, wireVars, dataVars >>

\* The caster answers with headers and then streams, until it closes.
CasterSends ==
  /\ caster \in {"accepted", "streaming"} /\ sent < MaxItems
  /\ sent' = sent + 1 /\ caster' = "streaming"
  /\ wire' = Append(wire, [head |-> caster = "accepted", n |-> sent + 1])
  /\ UNCHANGED << ops, ready, timerVars, dataVars >>

\* An orderly end leaves what has been sent to be read, a reset does not.
CasterCloses ==
  /\ caster \in {"accepted", "streaming"} /\ caster' = "shut"
  /\ \/ UNCHANGED << wire, sent >>
     \/ wire' = << >> /\ sent' = sent - Len(wire)
  /\ UNCHANGED << ops, ready, timerVars, dataVars >>

-----------------------------------------------------------------------------
(* Handlers.                                                               *)

\* The next handler to be run is that of op.
Runs(op) == ready # << >> /\ Head(ready).of = op

Fails(op)    == Runs(op) /\ ~Head(ready).ok
Succeeds(op) == Runs(op) /\ Head(ready).ok

\* Mutant: stop() cancels the timers and leaves the socket alone.
StopTimersOnly ==
  /\ ready' = Tail(ready)
  /\ watchdog' = FALSE
  /\ UNCHANGED << ops, wireVars >>

\* timer_ is cancelled as well, and set again by schedule_reconnect().
stop ==
  /\ CloseSocket
  /\ ops' = ops \ SocketOps
  /\ watchdog' = FALSE

\* Mutant: a request that could not be written is not tried again.
RescheduleUnlessWriting ==
  /\ \E op \in {"resolve", "connect", "write", "headers"} :
       Fails(op) /\ reconnect' = (op # "write")
  /\ ready' = Tail(ready)
  /\ UNCHANGED << ops, watchdog, wireVars, dataVars >>

\* An operation of the chain has failed: schedule_reconnect().
Reschedule ==
  /\ \E op \in {"resolve", "connect", "write", "headers"} : Fails(op)
  /\ reconnect' = TRUE
  /\ ready' = Tail(ready)
  /\ UNCHANGED << ops, watchdog, wireVars, dataVars >>

\* The next operation of the chain.  A new connection closes the old socket.
do_connect ==
  /\ Runs("reconnect")
  /\ ops' = ops \cup {"resolve"}
  /\ ready' = Tail(ready)
  /\ UNCHANGED << timerVars, wireVars, dataVars >>

StartConnect ==
  /\ Succeeds("resolve")
  /\ CloseSocket
  /\ ops' = (ops \ SocketOps) \cup {"connect"}
  /\ UNCHANGED << timerVars, dataVars >>

send_request ==
  /\ Succeeds("connect")
  /\ ops' = ops \cup {"write"}
  /\ ready' = Tail(ready)
  /\ UNCHANGED << timerVars, wireVars, dataVars >>

read_headers ==
  /\ Succeeds("write")
  /\ ops' = ops \cup {"headers"}
  /\ ready' = Tail(ready)
  /\ UNCHANGED << timerVars, wireVars, dataVars >>

\* On a closed socket the read fails at once.
read_stream ==
  IF caster = "none"
    THEN ready' = Append(Tail(ready), Failed("stream")) /\ UNCHANGED ops
    ELSE ready' = Tail(ready) /\ ops' = ops \cup {"stream"}

StartStream ==
  /\ Succeeds("headers")
  /\ read_stream
  /\ UNCHANGED << timerVars, wireVars, dataVars >>

\* Mutant: the items are copied out of response_.
ForwardCopy ==
  /\ Succeeds("stream")
  /\ watchdog' = TRUE
  /\ forwarded' = forwarded \o SubSeq(response_, 1, Head(ready).size)
  /\ read_stream
  /\ UNCHANGED << reconnect, wireVars, response_ >>

\* As many items as the read has brought are taken from the front of response_.
Forward ==
  /\ Succeeds("stream")
  /\ watchdog' = TRUE
  /\ forwarded' = forwarded \o SubSeq(response_, 1, Head(ready).size)
  /\ response_' = SubSeq(response_, Head(ready).size + 1, Len(response_))
  /\ read_stream
  /\ UNCHANGED << reconnect, wireVars >>

\* Mutant: the error path calls stop() alone.
EndStreamStops ==
  /\ Fails("stream")
  /\ stop
  /\ reconnect' = FALSE
  /\ UNCHANGED dataVars

EndStream ==
  /\ Fails("stream")
  /\ watchdog' = FALSE
  /\ reconnect' = TRUE
  /\ ready' = Tail(ready)
  /\ UNCHANGED << ops, wireVars, dataVars >>

Watchdog ==
  /\ Runs("watchdog")
  /\ stop
  /\ reconnect' = TRUE
  /\ UNCHANGED dataVars

RunHandler ==
  \/ Reschedule \/ do_connect \/ StartConnect \/ send_request \/ read_headers
  \/ StartStream \/ Forward \/ EndStream \/ Watchdog

Next ==
  \/ RunHandler
  \/ Resolve \/ Connect \/ Write
  \/ FindHeaders \/ ReadTowardsHeaders \/ ReadStream \/ ReadEnd
  \/ Retry \/ WatchdogExpires
  \/ CasterSends \/ CasterCloses

Spec == Init /\ [][Next]_vars

\* Handlers are run, timers expire, and operations other than reads end; data
\* that has arrived is read.  A caster may be silent for ever.
Fairness ==
  /\ WF_vars(RunHandler)
  /\ WF_vars(Resolve) /\ WF_vars(Connect) /\ WF_vars(Write)
  /\ WF_vars(FindHeaders \/ ReadTowardsHeaders \/ ReadStream \/ ReadEnd)
  /\ WF_vars(Retry) /\ WF_vars(WatchdogExpires)

FairSpec == Spec /\ Fairness

-----------------------------------------------------------------------------
\* The client has one connection to a caster, or one attempt at it, at a time:
\* a watchdog that fires while a read fails, and a timer_ that is set while it is
\* waited for, never start a second chain of operations on the same socket and
\* the same response_ (schedule_reconnect(), start_watchdog(), stop()).
OneChain ==
  /\ \A op, other \in ops : op = other
  /\ reconnect => ops = {}

\* The client never runs out of things to wait for: whichever operation fails,
\* and whatever the watchdog has cancelled, leads back to do_connect().
NeverAbandoned == ops # {} \/ ready # << >> \/ reconnect

\* The callback is given what was read, every item once and in its order, over
\* all connections, although response_ keeps the headers and what came with them
\* (read_headers(), read_stream()).
ForwardedInOrder == \A i \in DOMAIN forwarded : forwarded[i].n = i

DataReady == \E i \in DOMAIN ready : ready[i].of = "stream" /\ ready[i].ok

\* A caster that has streamed and falls silent is left for a new connection.
\* One that is silent from the start may be waited for without end.
SilentStreamIsLeft == watchdog ~> (DataReady \/ "resolve" \in ops)

=============================================================================
