---------------------------- MODULE Ntrip_proofs ----------------------------
(***************************************************************************)
(* Proofs about Ntrip, for any number of items and of connections, under   *)
(* the assumption PromptHandlers: the client keeps to one chain of         *)
(* operations, never runs out of things to wait for, and forwards the      *)
(* stream in order.                                                        *)
(***************************************************************************)
EXTENDS Ntrip, TLAPS

\* A handler of the chain of operations, of the one that reads the stream, and
\* the part of the client that concerns the stream.
OfChain(i)    == i \in DOMAIN ready /\ ready[i].of # "watchdog"
OfStream(i)   == i \in DOMAIN ready /\ ready[i].of = "stream"
StreamReady   == \E i \in DOMAIN ready : OfStream(i)
WatchdogReady == \E i \in DOMAIN ready : ready[i].of = "watchdog"
Streaming     == "stream" \in ops \/ StreamReady

\* The chain is in one place: an operation, a handler that is ready, or timer_.
\* Only the end of the stream may be still to be handled while timer_ is waited
\* for, after the watchdog, and then the socket is closed.
ChainInv ==
  /\ \A op, other \in ops : op = other
  /\ \A i, j \in DOMAIN ready : OfChain(i) /\ OfChain(j) => i = j
  /\ ops # {} => \A i \in DOMAIN ready : ~OfChain(i)
  /\ reconnect => ops = {} /\ \A i \in DOMAIN ready : OfChain(i) => OfStream(i)
  /\ ~reconnect => ops # {} \/ \E i \in DOMAIN ready : OfChain(i)
  /\ reconnect /\ StreamReady => caster = "none"

\* The watchdog is set while the stream is read, and an expired one runs while it
\* is, or when the chain waits for timer_.
WatchdogInv ==
  /\ watchdog => Streaming
  /\ WatchdogReady => Streaming \/ reconnect

\* What the caster has sent is in three places, numbered through; a read tells of
\* no more than there is.
Numbered ==
  /\ \A i \in DOMAIN forwarded : forwarded[i].n = i
  /\ \A i \in DOMAIN response_ : response_[i].n = Len(forwarded) + i
  /\ \A i \in DOMAIN wire : wire[i].n = Len(forwarded) + Len(response_) + i
  /\ sent = Len(forwarded) + Len(response_) + Len(wire)

SizesFit ==
  \A i \in DOMAIN ready :
    ready[i].size <= Len(response_) /\ (ready[i].of # "stream" => ready[i].size = 0)

NtripInv == TypeOK /\ ChainInv /\ WatchdogInv /\ Numbered /\ SizesFit

-----------------------------------------------------------------------------
(* Sequences.                                                              *)

LEMMA FirstTaken ==
  ASSUME NEW S, NEW s \in Seq(S), s # << >>
  PROVE  /\ 1 \in DOMAIN s /\ Head(s) = s[1] /\ Tail(s) \in Seq(S)
         /\ \A i \in DOMAIN Tail(s) : i + 1 \in DOMAIN s /\ Tail(s)[i] = s[i + 1] /\ i + 1 # 1
         /\ \A i \in DOMAIN s : i # 1 => i - 1 \in DOMAIN Tail(s) /\ Tail(s)[i - 1] = s[i]
         /\ \A i, j \in DOMAIN Tail(s) : i + 1 = j + 1 => i = j
  OBVIOUS

LEMMA LastAdded ==
  ASSUME NEW S, NEW s \in Seq(S), NEW x \in S
  PROVE  /\ Append(s, x) \in Seq(S)
         /\ DOMAIN Append(s, x) = DOMAIN s \cup {Len(s) + 1}
         /\ \A i \in DOMAIN s : Append(s, x)[i] = s[i] /\ i # Len(s) + 1
         /\ Append(s, x)[Len(s) + 1] = x
         /\ Len(Append(s, x)) = Len(s) + 1 /\ Len(s) \in Nat
         /\ DOMAIN s = 1 .. Len(s)
  OBVIOUS

LEMMA Split ==
  ASSUME NEW S, NEW s \in Seq(S), NEW k \in Nat, k <= Len(s)
  PROVE  /\ SubSeq(s, 1, k) \in Seq(S) /\ Len(SubSeq(s, 1, k)) = k
         /\ \A i \in DOMAIN SubSeq(s, 1, k) : i \in DOMAIN s /\ SubSeq(s, 1, k)[i] = s[i]
         /\ SubSeq(s, k + 1, Len(s)) \in Seq(S) /\ Len(SubSeq(s, k + 1, Len(s))) = Len(s) - k
         /\ \A i \in DOMAIN SubSeq(s, k + 1, Len(s)) :
              k + i \in DOMAIN s /\ SubSeq(s, k + 1, Len(s))[i] = s[k + i]
         /\ Len(s) \in Nat
<1>1. SubSeq(s, 1, k) \in Seq(S) /\ Len(SubSeq(s, 1, k)) = k
  OBVIOUS
<1>2. SubSeq(s, k + 1, Len(s)) \in Seq(S) /\ Len(SubSeq(s, k + 1, Len(s))) = Len(s) - k
  OBVIOUS
<1>3. \A i \in DOMAIN SubSeq(s, 1, k) : i \in DOMAIN s /\ SubSeq(s, 1, k)[i] = s[i]
  BY <1>1
<1>4. \A i \in DOMAIN SubSeq(s, k + 1, Len(s)) :
        k + i \in DOMAIN s /\ SubSeq(s, k + 1, Len(s))[i] = s[k + i]
  BY <1>2
<1> QED
  BY <1>1, <1>2, <1>3, <1>4

LEMMA Joined ==
  ASSUME NEW S, NEW s \in Seq(S), NEW t \in Seq(S)
  PROVE  /\ s \o t \in Seq(S) /\ Len(s \o t) = Len(s) + Len(t)
         /\ \A i \in DOMAIN s : (s \o t)[i] = s[i]
         /\ \A i \in DOMAIN t : (s \o t)[Len(s) + i] = t[i]
         /\ \A i \in DOMAIN (s \o t) :
              i \in DOMAIN s \/ (i - Len(s) \in DOMAIN t /\ i = Len(s) + (i - Len(s)))
         /\ Len(s) \in Nat /\ Len(t) \in Nat
  OBVIOUS

LEMMA Handlers ==
  /\ \A op \in SocketOps \cup {"resolve", "reconnect", "watchdog"} :
       Done(op) \in Handler /\ Failed(op) \in Handler
  /\ \A k \in Nat : HasRead(k) \in Handler
  BY DEF Handler, Done, Failed, HasRead, SocketOps

-----------------------------------------------------------------------------
(* The chain.                                                              *)

\* The three places of the chain, each enough for the invariant.
LEMMA AsOperation ==
  ASSUME NEW op, ops' = {op}, ~reconnect', \A i \in DOMAIN ready' : ready'[i].of = "watchdog"
  PROVE  ChainInv'
  BY DEF ChainInv, OfChain, OfStream, StreamReady

LEMMA AsHandler ==
  ASSUME ops' = {}, ~reconnect', NEW k \in DOMAIN ready', ready'[k].of # "watchdog",
         \A i \in DOMAIN ready' : i # k => ready'[i].of = "watchdog"
  PROVE  ChainInv'
  BY DEF ChainInv, OfChain, OfStream, StreamReady

LEMMA AsTimer ==
  ASSUME ops' = {}, reconnect',
         \A i, j \in DOMAIN ready' : ready'[i].of # "watchdog" /\ ready'[j].of # "watchdog" => i = j,
         \A i \in DOMAIN ready' : ready'[i].of # "watchdog" => ready'[i].of = "stream",
         (\E i \in DOMAIN ready' : ready'[i].of = "stream") => caster' = "none"
  PROVE  ChainInv'
  BY DEF ChainInv, OfChain, OfStream, StreamReady

\* When a handler of the chain runs, the chain is nowhere else.
LEMMA RunsOfChain ==
  ASSUME TypeOK, ChainInv, ready # << >>, Head(ready).of # "watchdog"
  PROVE  /\ ops = {} /\ Tail(ready) \in Seq(Handler)
         /\ \A i \in DOMAIN Tail(ready) : Tail(ready)[i].of = "watchdog"
         /\ DOMAIN Tail(ready) # {} => WatchdogReady
         /\ reconnect => Head(ready).of = "stream" /\ caster = "none"
         /\ Head(ready).of = "stream" => StreamReady
<1>1. ready \in Seq(Handler)
  BY DEF TypeOK
<1>2. /\ 1 \in DOMAIN ready /\ Head(ready) = ready[1] /\ Tail(ready) \in Seq(Handler)
      /\ \A i \in DOMAIN Tail(ready) : i + 1 \in DOMAIN ready /\ Tail(ready)[i] = ready[i + 1] /\ i + 1 # 1
  BY <1>1, FirstTaken
<1> QED
  BY <1>2 DEF ChainInv, OfChain, OfStream, StreamReady, WatchdogReady

\* An operation that ends hands the chain to its handler.
LEMMA CompleteKeepsChain ==
  ASSUME TypeOK, ChainInv, WatchdogInv, NEW op, NEW h \in Handler,
         h.of = op, op # "watchdog", Complete(op, h)
  PROVE  ChainInv' /\ WatchdogInv'
<1>1. /\ op \in ops /\ ops' = ops \ {op} /\ ready' = Append(ready, h)
      /\ reconnect' = reconnect /\ watchdog' = watchdog
  BY DEF Complete, timerVars
<1>2. /\ ops = {op} /\ ops' = {} /\ ~reconnect
      /\ \A i \in DOMAIN ready : ready[i].of = "watchdog"
  BY <1>1 DEF ChainInv, OfChain
<1>3. /\ DOMAIN ready' = DOMAIN ready \cup {Len(ready) + 1}
      /\ \A i \in DOMAIN ready : ready'[i] = ready[i]
      /\ ready'[Len(ready) + 1] = h
  BY <1>1, LastAdded DEF TypeOK
<1>4. ChainInv'
  BY <1>1, <1>2, <1>3, AsHandler
<1>5. watchdog \/ WatchdogReady => op = "stream"
  BY <1>2 DEF WatchdogInv, Streaming, StreamReady, OfStream
<1>6. op = "stream" => Streaming'
  BY <1>3 DEF Streaming, StreamReady, OfStream
<1>7. WatchdogReady' => WatchdogReady
  BY <1>3 DEF WatchdogReady
<1> QED
  BY <1>1, <1>4, <1>5, <1>6, <1>7 DEF WatchdogInv

\* The next operation of the chain.
LEMMA NextOperation ==
  ASSUME TypeOK, ChainInv, WatchdogInv, ready # << >>,
         Head(ready).of \notin {"watchdog", "stream"},
         ready' = Tail(ready), UNCHANGED timerVars, NEW op, ops' = {op}
  PROVE  ChainInv' /\ WatchdogInv'
<1>1. /\ ops = {} /\ ~reconnect
      /\ \A i \in DOMAIN ready' : ready'[i].of = "watchdog"
      /\ DOMAIN ready' # {} => WatchdogReady
  BY RunsOfChain
<1>2. ~StreamReady
  <2>1. ready \in Seq(Handler) /\ 1 \in DOMAIN ready /\ Head(ready) = ready[1]
    BY FirstTaken DEF TypeOK
  <2> QED
    BY <2>1 DEF ChainInv, OfChain, OfStream, StreamReady
<1>3. ~watchdog /\ ~WatchdogReady
  BY <1>1, <1>2 DEF WatchdogInv, Streaming
<1>4. ChainInv'
  BY <1>1, AsOperation DEF timerVars
<1> QED
  BY <1>1, <1>3, <1>4 DEF WatchdogInv, WatchdogReady, timerVars

\* The chain waits for timer_ when its handler has given up.
LEMMA ToTimer ==
  ASSUME TypeOK, ChainInv, WatchdogInv, ready # << >>, Head(ready).of # "watchdog",
         ready' = Tail(ready), ops' = ops, reconnect',
         ~watchdog' \/ (watchdog' = watchdog /\ Head(ready).of # "stream")
  PROVE  ChainInv' /\ WatchdogInv'
<1>1. /\ ops = {}
      /\ \A i \in DOMAIN ready' : ready'[i].of = "watchdog"
  BY RunsOfChain
<1>2. Head(ready).of # "stream" => ~StreamReady
  <2>1. ready \in Seq(Handler) /\ 1 \in DOMAIN ready /\ Head(ready) = ready[1]
    BY FirstTaken DEF TypeOK
  <2> QED
    BY <2>1 DEF ChainInv, OfChain, OfStream, StreamReady
<1>3. ~watchdog'
  BY <1>1, <1>2 DEF WatchdogInv, Streaming
<1>4. ChainInv'
  BY <1>1, AsTimer
<1> QED
  BY <1>3, <1>4 DEF WatchdogInv

\* The end of a stream that cannot be read any more, or its next read.
LEMMA ReadOn ==
  ASSUME TypeOK, ChainInv, WatchdogInv, ready # << >>,
         Head(ready).of # "watchdog", Head(ready).of = "stream" \/ ~reconnect,
         read_stream, reconnect' = reconnect, caster' = caster
  PROVE  ChainInv' /\ WatchdogInv'
<1>1. /\ ops = {} /\ Tail(ready) \in Seq(Handler)
      /\ \A i \in DOMAIN Tail(ready) : Tail(ready)[i].of = "watchdog"
      /\ reconnect => caster = "none"
  BY RunsOfChain
<1>2. CASE caster = "none"
  <2>1. ready' = Append(Tail(ready), Failed("stream")) /\ ops' = ops
    BY <1>2 DEF read_stream
  <2>2. Failed("stream") \in Handler /\ Failed("stream").of = "stream"
    BY Handlers DEF Failed, SocketOps
  <2> DEFINE k == Len(Tail(ready)) + 1
  <2>3. /\ DOMAIN ready' = DOMAIN Tail(ready) \cup {k}
        /\ \A i \in DOMAIN Tail(ready) : ready'[i] = Tail(ready)[i] /\ i # k
        /\ ready'[k].of = "stream"
    BY <1>1, <2>1, <2>2, LastAdded
  <2> HIDE DEF k
  <2>4. StreamReady'
    BY <2>3 DEF StreamReady, OfStream
  <2>a. /\ k \in DOMAIN ready' /\ ready'[k].of # "watchdog" /\ ops' = {}
        /\ \A i \in DOMAIN ready' : i # k => ready'[i].of = "watchdog"
    BY <1>1, <2>1, <2>3
  <2>b. \A i \in DOMAIN ready' : ready'[i].of # "watchdog" => i = k /\ ready'[i].of = "stream"
    BY <2>3, <2>a
  <2>5. ASSUME reconnect PROVE ChainInv'
    <3>1. reconnect'
      BY <2>5
    <3> QED
      BY <1>2, <2>a, <2>b, <3>1, AsTimer
  <2>6. ASSUME ~reconnect PROVE ChainInv'
    <3>1. ~reconnect'
      BY <2>6
    <3> QED
      BY <2>a, <3>1, AsHandler
  <2> QED
    BY <2>4, <2>5, <2>6 DEF WatchdogInv, Streaming
<1>3. CASE caster # "none"
  <2>1. ready' = Tail(ready) /\ ops' = {"stream"} /\ ~reconnect
    BY <1>1, <1>3 DEF read_stream
  <2>2. ChainInv'
    BY <1>1, <2>1, AsOperation
  <2> QED
    BY <2>1, <2>2 DEF WatchdogInv, Streaming
<1> QED
  BY <1>2, <1>3

\* The watchdog closes the socket, and the chain waits for timer_, if for nothing
\* but to handle the end of the stream.
LEMMA WatchdogKeepsChain ==
  ASSUME TypeOK, ChainInv, WatchdogInv, Watchdog
  PROVE  ChainInv' /\ WatchdogInv'
<1>1. /\ ready # << >> /\ Head(ready).of = "watchdog" /\ ready \in Seq(Handler)
      /\ ready' = Tail(ready) \o Aborted /\ caster' = "none"
      /\ ops' = ops \ SocketOps /\ ~watchdog' /\ reconnect'
  BY DEF Watchdog, Runs, stop, CloseSocket, TypeOK
<1>2. /\ 1 \in DOMAIN ready /\ Head(ready) = ready[1] /\ Tail(ready) \in Seq(Handler)
      /\ \A i \in DOMAIN Tail(ready) : i + 1 \in DOMAIN ready /\ Tail(ready)[i] = ready[i + 1]
      /\ \A i, j \in DOMAIN Tail(ready) : i + 1 = j + 1 => i = j
  BY <1>1, FirstTaken
<1>3. Streaming \/ reconnect
  BY <1>1, <1>2 DEF WatchdogInv, WatchdogReady
<1>4. CASE "stream" \in ops
  <2>1. ops = {"stream"} /\ \A i \in DOMAIN ready : ready[i].of = "watchdog"
    BY <1>4 DEF ChainInv, OfChain
  <2>2. Aborted = << Failed("stream") >>
    <3>1. "stream" \in SocketOps
      BY DEF SocketOps
    <3>2. (CHOOSE op \in ops : op \in SocketOps) = "stream"
      BY <2>1, <3>1
    <3> QED
      BY <2>1, <3>1, <3>2 DEF Aborted
  <2>3. Failed("stream") \in Handler /\ Failed("stream").of = "stream"
    BY Handlers DEF Failed, SocketOps
  <2>4. ready' = Append(Tail(ready), Failed("stream"))
    BY <1>1, <1>2, <2>2, <2>3
  <2>5. /\ DOMAIN ready' = DOMAIN Tail(ready) \cup {Len(Tail(ready)) + 1}
        /\ \A i \in DOMAIN Tail(ready) : ready'[i].of = "watchdog"
        /\ ready'[Len(Tail(ready)) + 1].of = "stream"
    BY <1>2, <2>1, <2>3, <2>4, LastAdded
  <2>6. ops' = {}
    BY <1>1, <2>1 DEF SocketOps
  <2>7. ChainInv'
    BY <1>1, <2>5, <2>6, AsTimer
  <2> QED
    BY <1>1, <2>7 DEF WatchdogInv
<1>5. CASE "stream" \notin ops
  <2>1. ops = {}
    BY <1>3, <1>5 DEF Streaming, StreamReady, OfStream, OfChain, ChainInv
  <2>2. ready' = Tail(ready) /\ ops' = {}
    BY <1>1, <1>2, <2>1 DEF Aborted
  <2>3. \A i \in DOMAIN ready : OfChain(i) => OfStream(i)
    BY <1>3, <1>5 DEF Streaming, StreamReady, OfStream, OfChain, ChainInv
  <2>4. /\ \A i \in DOMAIN ready' : ready'[i].of # "watchdog" => ready'[i].of = "stream"
        /\ \A i, j \in DOMAIN ready' :
             ready'[i].of # "watchdog" /\ ready'[j].of # "watchdog" => i = j
    BY <1>2, <2>2, <2>3 DEF ChainInv, OfChain, OfStream
  <2>5. ChainInv'
    BY <1>1, <2>2, <2>4, AsTimer
  <2> QED
    BY <1>1, <2>5 DEF WatchdogInv
<1> QED
  BY <1>4, <1>5

\* An expired watchdog is one more handler outside the chain.
LEMMA ExpiryKeepsChain ==
  ASSUME TypeOK, ChainInv, WatchdogInv, WatchdogExpires
  PROVE  ChainInv' /\ WatchdogInv'
<1>1. /\ watchdog /\ ~watchdog' /\ ready' = Append(ready, Done("watchdog"))
      /\ ops' = ops /\ reconnect' = reconnect /\ caster' = caster
  BY DEF WatchdogExpires, wireVars
<1>2. Done("watchdog") \in Handler /\ Done("watchdog").of = "watchdog"
  BY Handlers DEF Done
<1>3. /\ DOMAIN ready' = DOMAIN ready \cup {Len(ready) + 1}
      /\ \A i \in DOMAIN ready : ready'[i] = ready[i]
      /\ ready'[Len(ready) + 1].of = "watchdog"
  BY <1>1, <1>2, LastAdded DEF TypeOK
<1>4. \A i \in DOMAIN ready' : OfChain(i)' => i \in DOMAIN ready /\ OfChain(i) /\ (OfStream(i)' <=> OfStream(i))
  BY <1>3 DEF OfChain, OfStream
<1>5. \A i \in DOMAIN ready : i \in DOMAIN ready' /\ (OfChain(i) => OfChain(i)') /\ (OfStream(i) => OfStream(i)')
  BY <1>3 DEF OfChain, OfStream
<1>6. StreamReady' <=> StreamReady
  BY <1>4, <1>5 DEF StreamReady, OfChain, OfStream
<1>7. reconnect' <=> reconnect
  BY <1>1
<1>8. ChainInv'
  BY <1>1, <1>4, <1>5, <1>6, <1>7 DEF ChainInv
<1> QED
  BY <1>1, <1>6, <1>8 DEF WatchdogInv, Streaming

LEMMA RetryKeepsChain ==
  ASSUME PromptHandlers, TypeOK, ChainInv, WatchdogInv, Retry
  PROVE  ChainInv' /\ WatchdogInv'
<1>1. /\ reconnect /\ ready = << >> /\ ops = {} /\ ops' = {}
      /\ ~reconnect' /\ ready' = << Done("reconnect") >> /\ watchdog' = watchdog
  BY DEF Retry, ChainInv
<1>2. ready' = << Done("reconnect") >> /\ Done("reconnect").of = "reconnect"
  BY <1>1 DEF Done
<1>3. ~watchdog
  BY <1>1 DEF WatchdogInv, Streaming, StreamReady, OfStream
<1>4. /\ 1 \in DOMAIN ready' /\ ready'[1].of = "reconnect"
      /\ \A i \in DOMAIN ready' : i = 1
  BY <1>2
<1>5. ChainInv'
  BY <1>1, <1>4, AsHandler
<1> QED
  BY <1>1, <1>3, <1>4, <1>5 DEF WatchdogInv, WatchdogReady

LEMMA ChainStep ==
  ASSUME PromptHandlers, TypeOK, ChainInv, WatchdogInv, [Next]_vars
  PROVE  ChainInv' /\ WatchdogInv'
<1>1. CASE Resolve \/ Connect \/ Write \/ FindHeaders \/ ReadStream \/ ReadEnd
  <2>1. PICK op \in SocketOps \cup {"resolve"} :
          \/ Complete(op, Done(op)) \/ Complete(op, Failed(op))
          \/ op = "stream" /\ \E k \in 1 .. Len(wire) : Complete(op, HasRead(k))
    BY <1>1 DEF Resolve, Connect, Write, FindHeaders, ReadStream, ReadEnd, SocketOps
  <2>2. op # "watchdog" /\ Done(op).of = op /\ Failed(op).of = op
        /\ \A k \in Nat : HasRead(k).of = "stream"
    BY DEF SocketOps, Done, Failed, HasRead
  <2>3. 1 .. Len(wire) \subseteq Nat
    BY DEF TypeOK
  <2> QED
    BY <2>1, <2>2, <2>3, Handlers, CompleteKeepsChain
<1>2. CASE ReadTowardsHeaders \/ CasterSends \/ CasterCloses \/ UNCHANGED vars
  <2>1. /\ UNCHANGED << ops, ready, reconnect, watchdog >>
        /\ caster = "none" => caster' = "none"
    BY <1>2 DEF ReadTowardsHeaders, Read, CasterSends, CasterCloses, vars, timerVars, wireVars
  <2> QED
    BY <2>1 DEF ChainInv, WatchdogInv, OfChain, OfStream, StreamReady, WatchdogReady, Streaming
<1>3. CASE Retry
  BY <1>3, RetryKeepsChain
<1>4. CASE WatchdogExpires
  BY <1>4, ExpiryKeepsChain
<1>5. CASE Watchdog
  BY <1>5, WatchdogKeepsChain
<1>6. CASE Reschedule \/ EndStream
  <2>1. /\ ready # << >> /\ Head(ready).of # "watchdog" /\ ready' = Tail(ready) /\ ops' = ops
        /\ reconnect'
        /\ ~watchdog' \/ (watchdog' = watchdog /\ Head(ready).of # "stream")
    BY <1>6 DEF Reschedule, EndStream, Fails, Runs
  <2> QED
    BY <2>1, ToTimer
<1>7. CASE do_connect \/ StartConnect \/ send_request \/ read_headers
  <2>1. /\ ready # << >> /\ Head(ready).of \notin {"watchdog", "stream"} /\ UNCHANGED timerVars
    BY <1>7 DEF do_connect, StartConnect, send_request, read_headers, Succeeds, Runs
  <2>2. ops = {} /\ Tail(ready) \in Seq(Handler)
    BY <2>1, RunsOfChain
  <2>3. ready' = Tail(ready) \/ ready' = Tail(ready) \o << >>
    BY <1>7, <2>2 DEF do_connect, StartConnect, send_request, read_headers, CloseSocket, Aborted
  <2>4. ready' = Tail(ready)
    BY <2>2, <2>3
  <2>5. \E op : ops' = {op}
    BY <1>7, <2>2 DEF do_connect, StartConnect, send_request, read_headers
  <2> QED
    BY <2>1, <2>4, <2>5, NextOperation
<1>8. CASE StartStream \/ Forward
  <2>1. /\ ready # << >> /\ Head(ready).of \in {"headers", "stream"} /\ read_stream
        /\ reconnect' = reconnect /\ caster' = caster
    BY <1>8 DEF StartStream, Forward, Succeeds, Runs, timerVars, wireVars
  <2>2. Head(ready).of = "stream" \/ ~reconnect
    BY <2>1, RunsOfChain
  <2> QED
    BY <2>1, <2>2, ReadOn
<1> QED
  BY <1>1, <1>2, <1>3, <1>4, <1>5, <1>6, <1>7, <1>8 DEF Next, RunHandler

-----------------------------------------------------------------------------
(* The data.                                                               *)

DataTypes ==
  /\ wire \in Seq(Item) /\ sent \in Nat
  /\ response_ \in Seq(Item) /\ forwarded \in Seq(Item)

\* Bytes move from the connection to response_ and from there to the callback.
LEMMA ReadKeepsNumbers ==
  ASSUME DataTypes, Numbered, NEW k \in 1 .. Len(wire), Read(k)
  PROVE  DataTypes' /\ Numbered' /\ Len(response_') = Len(response_) + k
<1>0. /\ Len(wire) \in Nat /\ Len(response_) \in Nat /\ Len(forwarded) \in Nat
      /\ k \in Nat /\ k <= Len(wire)
  BY DEF DataTypes
<1> DEFINE read == SubSeq(wire, 1, k)
           left == SubSeq(wire, k + 1, Len(wire))
<1>1. /\ read \in Seq(Item) /\ Len(read) = k /\ left \in Seq(Item) /\ Len(left) = Len(wire) - k
      /\ \A i \in DOMAIN read : i \in DOMAIN wire /\ read[i] = wire[i]
      /\ \A i \in DOMAIN left : k + i \in DOMAIN wire /\ left[i] = wire[k + i]
  BY <1>0, Split DEF DataTypes
<1> HIDE DEF read, left
<1>2. /\ response_ \o read \in Seq(Item) /\ Len(response_ \o read) = Len(response_) + k
      /\ \A i \in DOMAIN response_ : (response_ \o read)[i] = response_[i]
      /\ \A i \in DOMAIN read : (response_ \o read)[Len(response_) + i] = read[i]
      /\ \A i \in DOMAIN (response_ \o read) :
           i \in DOMAIN response_ \/ (i - Len(response_) \in DOMAIN read
                                        /\ i = Len(response_) + (i - Len(response_)))
  <2>1. response_ \in Seq(Item) /\ read \in Seq(Item)
    BY <1>1 DEF DataTypes
  <2>2. Len(response_ \o read) = Len(response_) + Len(read)
    BY <2>1, Joined
  <2>3. Len(response_ \o read) = Len(response_) + k
    BY <1>1, <2>2
  <2> QED
    BY <2>1, <2>3, Joined
<1>3. response_' = response_ \o read /\ wire' = left /\ sent' = sent /\ forwarded' = forwarded
  BY DEF Read, read, left
<1>4. DataTypes'
  BY <1>1, <1>2, <1>3 DEF DataTypes
<1>5. \A i \in DOMAIN response_' : response_'[i].n = Len(forwarded) + i
  <2> SUFFICES ASSUME NEW i \in DOMAIN response_' PROVE response_'[i].n = Len(forwarded) + i
    OBVIOUS
  <2>1. CASE i \in DOMAIN response_
    BY <1>2, <1>3, <2>1 DEF Numbered
  <2>2. CASE i - Len(response_) \in DOMAIN read /\ i = Len(response_) + (i - Len(response_))
    <3>1. response_'[i] = wire[i - Len(response_)] /\ i - Len(response_) \in DOMAIN wire
      BY <1>1, <1>2, <1>3, <2>2
    <3>2. response_'[i].n = Len(forwarded) + Len(response_) + (i - Len(response_))
      BY <3>1 DEF Numbered
    <3>3. i \in Nat
      BY <1>2, <1>3
    <3> QED
      BY <1>0, <3>2, <3>3
  <2> QED
    BY <1>2, <1>3, <2>1, <2>2
<1>6. \A i \in DOMAIN wire' : wire'[i].n = Len(forwarded) + Len(response_') + i
  <2> SUFFICES ASSUME NEW i \in DOMAIN left
               PROVE  left[i].n = Len(forwarded) + Len(response_') + i
    BY <1>3
  <2>1. left[i].n = Len(forwarded) + Len(response_) + (k + i)
    BY <1>1 DEF Numbered
  <2>2. i \in Nat
    BY <1>1
  <2> QED
    BY <1>0, <1>2, <1>3, <2>1, <2>2
<1>7. Len(response_') = Len(response_) + k
      /\ sent' = Len(forwarded) + Len(response_') + Len(wire')
  <2>1. Len(response_') = Len(response_) + k
    BY <1>2, <1>3
  <2>2. Len(wire') = Len(wire) - k
    BY <1>1, <1>3
  <2>3. sent' = Len(forwarded) + Len(response_) + Len(wire)
    BY <1>3 DEF Numbered
  <2> QED
    BY <1>0, <2>1, <2>2, <2>3
<1>8. Numbered'
  BY <1>3, <1>5, <1>6, <1>7 DEF Numbered
<1> QED
  BY <1>4, <1>7, <1>8

LEMMA ForwardKeepsNumbers ==
  ASSUME DataTypes, Numbered, NEW k \in Nat, k <= Len(response_),
         forwarded' = forwarded \o SubSeq(response_, 1, k),
         response_' = SubSeq(response_, k + 1, Len(response_)),
         UNCHANGED << wire, sent >>
  PROVE  DataTypes' /\ Numbered'
<1>0. Len(wire) \in Nat /\ Len(response_) \in Nat /\ Len(forwarded) \in Nat
  BY DEF DataTypes
<1> DEFINE read == SubSeq(response_, 1, k)
           left == SubSeq(response_, k + 1, Len(response_))
<1>1. /\ read \in Seq(Item) /\ Len(read) = k
      /\ left \in Seq(Item) /\ Len(left) = Len(response_) - k
      /\ \A i \in DOMAIN read : i \in DOMAIN response_ /\ read[i] = response_[i]
      /\ \A i \in DOMAIN left : k + i \in DOMAIN response_ /\ left[i] = response_[k + i]
  BY Split DEF DataTypes
<1> HIDE DEF read, left
<1>2. /\ forwarded \o read \in Seq(Item) /\ Len(forwarded \o read) = Len(forwarded) + k
      /\ \A i \in DOMAIN forwarded : (forwarded \o read)[i] = forwarded[i]
      /\ \A i \in DOMAIN read : (forwarded \o read)[Len(forwarded) + i] = read[i]
      /\ \A i \in DOMAIN (forwarded \o read) :
           i \in DOMAIN forwarded \/ (i - Len(forwarded) \in DOMAIN read
                                        /\ i = Len(forwarded) + (i - Len(forwarded)))
  <2>1. forwarded \in Seq(Item) /\ read \in Seq(Item)
    BY <1>1 DEF DataTypes
  <2>2. Len(forwarded \o read) = Len(forwarded) + Len(read)
    BY <2>1, Joined
  <2>3. Len(forwarded \o read) = Len(forwarded) + k
    BY <1>1, <2>2
  <2> QED
    BY <2>1, <2>3, Joined
<1>3. forwarded' = forwarded \o read /\ response_' = left /\ sent' = sent /\ wire' = wire
  BY DEF read, left
<1>4. DataTypes'
  BY <1>1, <1>2, <1>3 DEF DataTypes
<1>5. \A i \in DOMAIN forwarded' : forwarded'[i].n = i
  <2> SUFFICES ASSUME NEW i \in DOMAIN forwarded' PROVE forwarded'[i].n = i
    OBVIOUS
  <2>1. CASE i \in DOMAIN forwarded
    BY <1>2, <1>3, <2>1 DEF Numbered
  <2>2. CASE i - Len(forwarded) \in DOMAIN read /\ i = Len(forwarded) + (i - Len(forwarded))
    <3>1. forwarded'[i] = response_[i - Len(forwarded)] /\ i - Len(forwarded) \in DOMAIN response_
      BY <1>1, <1>2, <1>3, <2>2
    <3> QED
      BY <2>2, <3>1 DEF Numbered
  <2> QED
    BY <1>2, <1>3, <2>1, <2>2
<1>6. \A i \in DOMAIN response_' : response_'[i].n = Len(forwarded') + i
  <2> SUFFICES ASSUME NEW i \in DOMAIN left PROVE left[i].n = Len(forwarded') + i
    BY <1>3
  <2>1. left[i].n = Len(forwarded) + (k + i)
    BY <1>1 DEF Numbered
  <2>2. i \in Nat
    BY <1>1
  <2> QED
    BY <1>0, <1>2, <1>3, <2>1, <2>2
<1>7. Len(forwarded') + Len(response_') = Len(forwarded) + Len(response_)
  <2>1. Len(forwarded') = Len(forwarded) + k
    BY <1>2, <1>3
  <2>2. Len(response_') = Len(response_) - k
    BY <1>1, <1>3
  <2>3. (Len(forwarded) + k) + (Len(response_) - k) = Len(forwarded) + Len(response_)
    BY <1>0
  <2> QED
    BY <2>1, <2>2, <2>3
<1>8. \A i \in DOMAIN wire' : wire'[i].n = Len(forwarded') + Len(response_') + i
  BY <1>3, <1>7 DEF Numbered
<1>9. sent' = Len(forwarded') + Len(response_') + Len(wire')
  BY <1>3, <1>7 DEF Numbered
<1> QED
  BY <1>4, <1>5, <1>6, <1>8, <1>9 DEF Numbered

\* What is lost with a connection is sent again, under the same numbers.
LEMMA LossKeepsNumbers ==
  ASSUME DataTypes, Numbered, wire' = << >>, sent' = sent - Len(wire), UNCHANGED dataVars
  PROVE  DataTypes' /\ Numbered'
<1>1. /\ Len(wire) \in Nat /\ Len(response_) \in Nat /\ Len(forwarded) \in Nat
      /\ sent' = Len(forwarded) + Len(response_)
  BY DEF DataTypes, Numbered
<1> QED
  BY <1>1 DEF DataTypes, Numbered, dataVars

LEMMA SendKeepsNumbers ==
  ASSUME DataTypes, Numbered, NEW x \in Item, x.n = sent + 1,
         sent' = sent + 1, wire' = Append(wire, x), UNCHANGED dataVars
  PROVE  DataTypes' /\ Numbered'
<1>1. /\ Append(wire, x) \in Seq(Item) /\ Len(Append(wire, x)) = Len(wire) + 1
      /\ DOMAIN Append(wire, x) = DOMAIN wire \cup {Len(wire) + 1}
      /\ \A i \in DOMAIN wire : Append(wire, x)[i] = wire[i]
      /\ Append(wire, x)[Len(wire) + 1] = x
  BY LastAdded DEF DataTypes
<1>2. Len(wire) \in Nat /\ Len(response_) \in Nat /\ Len(forwarded) \in Nat
  BY DEF DataTypes
<1>3. x.n = Len(forwarded) + Len(response_) + (Len(wire) + 1)
  BY <1>2 DEF Numbered
<1>4. \A i \in DOMAIN wire' : wire'[i].n = Len(forwarded) + Len(response_) + i
  BY <1>1, <1>3 DEF Numbered
<1>5. sent' = Len(forwarded) + Len(response_) + Len(wire')
  BY <1>1, <1>2 DEF Numbered
<1>6. DataTypes'
  BY <1>1 DEF DataTypes, dataVars
<1> QED
  BY <1>4, <1>5, <1>6 DEF Numbered, dataVars

\* Handlers that tell of no more than n items, and one more behind them.
Fits(h, n)        == h.size <= n /\ (h.of # "stream" => h.size = 0)
HandlersFit(s, n) == s \in Seq(Handler) /\ \A i \in DOMAIN s : Fits(s[i], n)

LEMMA OneMoreFits ==
  ASSUME NEW n \in Nat, NEW s, HandlersFit(s, n), NEW h \in Handler, Fits(h, n)
  PROVE  HandlersFit(Append(s, h), n)
<1>1. /\ Append(s, h) \in Seq(Handler)
      /\ DOMAIN Append(s, h) = DOMAIN s \cup {Len(s) + 1}
      /\ \A i \in DOMAIN s : Append(s, h)[i] = s[i]
      /\ Append(s, h)[Len(s) + 1] = h
  BY LastAdded DEF HandlersFit
<1> QED
  BY <1>1 DEF HandlersFit, Fits

LEMMA TailFits ==
  ASSUME NEW n \in Nat, NEW s, HandlersFit(s, n), s # << >>
  PROVE  /\ HandlersFit(Tail(s), n)
         /\ Head(s) \in Handler /\ Fits(Head(s), n)
<1>1. /\ 1 \in DOMAIN s /\ Head(s) = s[1] /\ Tail(s) \in Seq(Handler)
      /\ \A i \in DOMAIN Tail(s) : i + 1 \in DOMAIN s /\ Tail(s)[i] = s[i + 1]
  BY FirstTaken DEF HandlersFit
<1>2. \A i \in DOMAIN s : s[i] \in Handler
  BY DEF HandlersFit
<1> QED
  BY <1>1, <1>2 DEF HandlersFit

\* More items may have been read, or all, as far as no handler tells of any.
LEMMA FitsMore ==
  ASSUME NEW n \in Nat, NEW m \in Nat, NEW s, HandlersFit(s, n),
         n <= m \/ \A i \in DOMAIN s : s[i].of # "stream"
  PROVE  HandlersFit(s, m)
<1>1. \A i \in DOMAIN s : s[i] \in Handler
  BY DEF HandlersFit
<1>2. \A i \in DOMAIN s : s[i].size \in Nat
  BY <1>1 DEF Handler
<1> QED
  BY <1>2 DEF HandlersFit, Fits

LEMMA NoSizeFits ==
  ASSUME NEW n \in Nat
  PROVE  /\ \A op : Fits(Done(op), n) /\ Fits(Failed(op), n)
         /\ \A k \in Nat : k <= n => Fits(HasRead(k), n)
  BY DEF Fits, Done, Failed, HasRead

-----------------------------------------------------------------------------
(* The steps.                                                              *)

ReadyInv == HandlersFit(ready, Len(response_))

\* What holds of the data in every step but that of the handler of a read.
LEMMA DataStep ==
  ASSUME DataTypes, Numbered, [Next]_vars, ~Forward
  PROVE  DataTypes' /\ Numbered' /\ Len(response_) <= Len(response_') /\ Len(response_') \in Nat
<1>0. Len(response_) \in Nat /\ Len(wire) \in Nat
  BY DEF DataTypes
<1>1. CASE ReadTowardsHeaders \/ ReadStream
  <2>1. PICK k \in 1 .. Len(wire) : Read(k)
    BY <1>1 DEF ReadTowardsHeaders, ReadStream
  <2>2. DataTypes' /\ Numbered' /\ Len(response_') = Len(response_) + k
    BY <2>1, ReadKeepsNumbers
  <2>3. k \in Nat
    BY <1>0
  <2> QED
    BY <1>0, <2>2, <2>3
<1>2. CASE CasterSends
  <2> DEFINE x == [head |-> caster = "accepted", n |-> sent + 1]
  <2>1. x \in Item
    BY DEF Item, DataTypes
  <2>2. x.n = sent + 1 /\ sent' = sent + 1 /\ wire' = Append(wire, x) /\ UNCHANGED dataVars
    BY <1>2 DEF CasterSends
  <2> HIDE DEF x
  <2>3. DataTypes' /\ Numbered'
    BY <2>1, <2>2, SendKeepsNumbers
  <2> QED
    BY <1>0, <2>2, <2>3 DEF dataVars
<1>3. CASE wire' = << >> /\ sent' = sent - Len(wire) /\ UNCHANGED dataVars
  <2>1. DataTypes' /\ Numbered'
    BY <1>3, LossKeepsNumbers
  <2> QED
    BY <1>0, <1>3, <2>1 DEF dataVars
<1>4. CASE UNCHANGED << wire, sent, dataVars >>
  BY <1>0, <1>4 DEF DataTypes, Numbered, dataVars
<1>5. CASE CasterCloses \/ StartConnect \/ Watchdog
  BY <1>3, <1>4, <1>5 DEF CasterCloses, StartConnect, Watchdog, stop, CloseSocket
<1>6. CASE Resolve \/ Connect \/ Write \/ FindHeaders \/ ReadEnd \/ Retry \/ WatchdogExpires
           \/ Reschedule \/ do_connect \/ send_request \/ read_headers \/ StartStream \/ EndStream
           \/ UNCHANGED vars
  BY <1>4, <1>6 DEF Resolve, Connect, Write, FindHeaders, ReadEnd, Retry, WatchdogExpires,
    Reschedule, do_connect, send_request, read_headers, StartStream, EndStream, vars, wireVars
<1> QED
  BY <1>1, <1>2, <1>5, <1>6 DEF Next, RunHandler

LEMMA ForwardStep ==
  ASSUME DataTypes, Numbered, ReadyInv, Forward
  PROVE  DataTypes' /\ Numbered'
<1> DEFINE k == Head(ready).size
<1>1. ready # << >> /\ Len(response_) \in Nat
  BY DEF Forward, Succeeds, Runs, DataTypes
<1>2. Head(ready) \in Handler /\ Fits(Head(ready), Len(response_))
  BY <1>1, TailFits DEF ReadyInv
<1>3. k \in Nat /\ k <= Len(response_)
  BY <1>2 DEF Handler, Fits
<1>4. /\ forwarded' = forwarded \o SubSeq(response_, 1, k)
      /\ response_' = SubSeq(response_, k + 1, Len(response_))
      /\ UNCHANGED << wire, sent >>
  BY DEF Forward, wireVars
<1> HIDE DEF k
<1> QED
  BY <1>3, <1>4, ForwardKeepsNumbers

\* Closing the socket adds the handler of one operation, or none.
LEMMA AbortedFits ==
  ASSUME NEW n \in Nat, NEW s, HandlersFit(s, n)
  PROVE  HandlersFit(s \o Aborted, n)
<1>1. s \in Seq(Handler)
  BY DEF HandlersFit
<1>2. CASE ops \cap SocketOps = {}
  <2>1. s \o Aborted = s
    BY <1>1, <1>2 DEF Aborted
  <2> QED
    BY <2>1
<1>3. CASE ops \cap SocketOps # {}
  <2> DEFINE op == CHOOSE op \in ops : op \in SocketOps
  <2>1. op \in SocketOps
    BY <1>3
  <2> HIDE DEF op
  <2>2. Failed(op) \in Handler /\ Fits(Failed(op), n)
    BY <2>1, Handlers, NoSizeFits
  <2>3. Aborted = << Failed(op) >>
    BY <1>3 DEF Aborted, op
  <2>4. s \o Aborted = Append(s, Failed(op))
    BY <1>1, <2>2, <2>3
  <2> QED
    BY <2>2, <2>4, OneMoreFits
<1> QED
  BY <1>2, <1>3

LEMMA ReadStreamFits ==
  ASSUME NEW n \in Nat, HandlersFit(Tail(ready), n), read_stream
  PROVE  HandlersFit(ready', n)
<1>1. Failed("stream") \in Handler /\ Fits(Failed("stream"), n)
  BY Handlers, NoSizeFits DEF SocketOps
<1>2. ready' = Tail(ready) \/ ready' = Append(Tail(ready), Failed("stream"))
  BY DEF read_stream
<1> QED
  BY <1>1, <1>2, OneMoreFits

LEMMA ReadyStep ==
  ASSUME TypeOK, ChainInv, Numbered, ReadyInv, [Next]_vars
  PROVE  ReadyInv'
<1>0. DataTypes /\ Len(response_) \in Nat
  BY DEF TypeOK, DataTypes
<1>1. Len(response_') \in Nat
  BY <1>0, DataStep, ForwardStep DEF DataTypes
<1>2. ready # << >> => HandlersFit(Tail(ready), Len(response_))
  BY <1>0, TailFits DEF ReadyInv
<1>3. ASSUME NEW h \in Handler, ready' = Append(ready, h), Fits(h, Len(response_')),
             Len(response_) <= Len(response_')
      PROVE  ReadyInv'
  <2>1. HandlersFit(ready, Len(response_'))
    BY <1>0, <1>1, <1>3, FitsMore DEF ReadyInv
  <2>2. HandlersFit(Append(ready, h), Len(response_'))
    BY <1>1, <1>3, <2>1, OneMoreFits
  <2> QED
    BY <1>3, <2>2 DEF ReadyInv
<1>4. CASE Resolve \/ Connect \/ Write \/ FindHeaders \/ ReadEnd \/ Retry \/ WatchdogExpires
  <2>1. PICK op \in SocketOps \cup {"resolve", "reconnect", "watchdog"} :
          ready' = Append(ready, Done(op)) \/ ready' = Append(ready, Failed(op))
    BY <1>4 DEF Resolve, Connect, Write, FindHeaders, ReadEnd, Retry, WatchdogExpires, Complete,
      SocketOps
  <2>2. Done(op) \in Handler /\ Failed(op) \in Handler
        /\ Fits(Done(op), Len(response_')) /\ Fits(Failed(op), Len(response_'))
    BY <1>1, Handlers, NoSizeFits
  <2>3. response_' = response_
    BY <1>4 DEF Resolve, Connect, Write, FindHeaders, ReadEnd, Retry, WatchdogExpires, dataVars
  <2> QED
    BY <1>0, <1>3, <2>1, <2>2, <2>3
<1>5. CASE ReadStream
  <2>1. PICK k \in 1 .. Len(wire) : ready' = Append(ready, HasRead(k)) /\ Read(k)
    BY <1>5 DEF ReadStream, Complete
  <2>2. k \in Nat /\ Len(response_') = Len(response_) + k
    BY <1>0, <2>1, ReadKeepsNumbers DEF DataTypes
  <2>3. HasRead(k) \in Handler /\ Fits(HasRead(k), Len(response_'))
    BY <1>0, <1>1, <2>2, Handlers, NoSizeFits
  <2> QED
    BY <1>0, <1>3, <2>1, <2>2, <2>3
<1>6. CASE ReadTowardsHeaders \/ CasterSends \/ CasterCloses \/ UNCHANGED vars
  <2>1. ready' = ready /\ Len(response_) <= Len(response_')
    <3>1. CASE ReadTowardsHeaders
      <4>1. PICK k \in 1 .. Len(wire) : Read(k)
        BY <3>1 DEF ReadTowardsHeaders
      <4>2. k \in Nat /\ Len(response_') = Len(response_) + k
        BY <1>0, <4>1, ReadKeepsNumbers DEF DataTypes
      <4> QED
        BY <1>0, <3>1, <4>2 DEF ReadTowardsHeaders
    <3>2. CASE CasterSends \/ CasterCloses \/ UNCHANGED vars
      BY <1>0, <3>2 DEF CasterSends, CasterCloses, vars, dataVars
    <3> QED
      BY <1>6, <3>1, <3>2
  <2> QED
    BY <1>0, <1>1, <2>1, FitsMore DEF ReadyInv
<1>7. CASE Reschedule \/ do_connect \/ send_request \/ read_headers \/ EndStream
  <2>1. ready # << >> /\ ready' = Tail(ready) /\ response_' = response_
    BY <1>7 DEF Reschedule, do_connect, send_request, read_headers, EndStream, Fails, Succeeds,
      Runs, dataVars
  <2> QED
    BY <1>2, <2>1 DEF ReadyInv
<1>8. CASE StartConnect \/ Watchdog
  <2>1. ready # << >> /\ ready' = Tail(ready) \o Aborted /\ response_' = response_
    BY <1>8 DEF StartConnect, Watchdog, stop, CloseSocket, Succeeds, Runs, dataVars
  <2>2. HandlersFit(Tail(ready) \o Aborted, Len(response_))
    BY <1>0, <1>2, <2>1, AbortedFits
  <2> QED
    BY <2>1, <2>2 DEF ReadyInv
<1>9. CASE StartStream
  <2>1. ready # << >> /\ read_stream /\ response_' = response_
    BY <1>9 DEF StartStream, Succeeds, Runs, dataVars
  <2> QED
    BY <1>0, <1>2, <2>1, ReadStreamFits DEF ReadyInv
<1>10. CASE Forward
  <2>1. ready # << >> /\ read_stream /\ Head(ready).of = "stream"
    BY <1>10 DEF Forward, Succeeds, Runs
  <2>2. \A i \in DOMAIN Tail(ready) : Tail(ready)[i].of # "stream"
    BY <2>1, RunsOfChain
  <2>3. HandlersFit(Tail(ready), Len(response_'))
    BY <1>0, <1>1, <1>2, <2>1, <2>2, FitsMore
  <2> QED
    BY <1>1, <2>1, <2>3, ReadStreamFits DEF ReadyInv
<1> QED
  BY <1>4, <1>5, <1>6, <1>7, <1>8, <1>9, <1>10 DEF Next, RunHandler

\* The other variables keep their types whatever the order of handlers is.
FlagTypes ==
  /\ ops \subseteq SocketOps \cup {"resolve"}
  /\ reconnect \in BOOLEAN /\ watchdog \in BOOLEAN
  /\ caster \in {"none", "accepted", "streaming", "shut"}

LEMMA FlagStep == ASSUME FlagTypes, [Next]_vars PROVE FlagTypes'
<1>1. (ops \subseteq SocketOps \cup {"resolve"})'
  BY DEF FlagTypes, SocketOps, Next, RunHandler, Reschedule, do_connect, StartConnect, send_request,
    read_headers, StartStream, Forward, EndStream, Watchdog, stop, CloseSocket, read_stream,
    Resolve, Connect, Write, FindHeaders, ReadTowardsHeaders, ReadStream, ReadEnd, Retry,
    WatchdogExpires, CasterSends, CasterCloses, Complete, vars
<1>2. (reconnect \in BOOLEAN /\ watchdog \in BOOLEAN)'
  BY DEF FlagTypes, Next, RunHandler, Reschedule, do_connect, StartConnect, send_request,
    read_headers, StartStream, Forward, EndStream, Watchdog, stop,
    Resolve, Connect, Write, FindHeaders, ReadTowardsHeaders, ReadStream, ReadEnd, Retry,
    WatchdogExpires, CasterSends, CasterCloses, Complete, vars, timerVars
<1>3. (caster \in {"none", "accepted", "streaming", "shut"})'
  BY DEF FlagTypes, Next, RunHandler, Reschedule, do_connect, StartConnect, send_request,
    read_headers, StartStream, Forward, EndStream, Watchdog, stop, CloseSocket,
    Resolve, Connect, Write, FindHeaders, ReadTowardsHeaders, ReadStream, ReadEnd, Read, Retry,
    WatchdogExpires, CasterSends, CasterCloses, vars, wireVars
<1> QED
  BY <1>1, <1>2, <1>3 DEF FlagTypes

LEMMA NtripInvHolds == ASSUME PromptHandlers PROVE Spec => []NtripInv
<1> DEFINE Inv == FlagTypes /\ DataTypes /\ ReadyInv /\ Numbered /\ ChainInv /\ WatchdogInv
<1>1. Inv <=> NtripInv
  BY DEF FlagTypes, DataTypes, ReadyInv, HandlersFit, Fits, NtripInv, TypeOK, SizesFit
<1>2. Init => Inv
  <2> SUFFICES ASSUME Init PROVE Inv
    OBVIOUS
  <2>0. DataTypes
    BY DEF Init, DataTypes
  <2>1. FlagTypes
    BY DEF Init, FlagTypes
  <2>2. ReadyInv /\ Numbered
    BY DEF Init, ReadyInv, HandlersFit, Numbered
  <2>3. ChainInv /\ WatchdogInv
    BY DEF Init, ChainInv, WatchdogInv, OfChain, OfStream, StreamReady, WatchdogReady, Streaming
  <2> QED
    BY <2>0, <2>1, <2>2, <2>3
<1>3. Inv /\ [Next]_vars => Inv'
  <2> SUFFICES ASSUME Inv, [Next]_vars PROVE Inv'
    OBVIOUS
  <2>1. TypeOK
    BY <1>1 DEF NtripInv
  <2>2. DataTypes' /\ Numbered'
    BY DataStep, ForwardStep
  <2>3. ChainInv' /\ WatchdogInv'
    BY <2>1, ChainStep
  <2>4. ReadyInv' /\ FlagTypes'
    BY <2>1, ReadyStep, FlagStep
  <2> QED
    BY <2>2, <2>3, <2>4
<1> QED
  BY <1>1, <1>2, <1>3, PTL DEF Spec

\* Every variable of the client keeps its type.
THEOREM TypeCorrect == ASSUME PromptHandlers PROVE Spec => []TypeOK
<1>1. NtripInv => TypeOK
  BY DEF NtripInv
<1> QED
  BY <1>1, NtripInvHolds, PTL

\* Whatever fails, expires or is aborted, and in whatever order: there is one chain
\* of operations at a time.
THEOREM ChainIsOne == ASSUME PromptHandlers PROVE Spec => []OneChain
<1>1. NtripInv => OneChain
  BY DEF NtripInv, ChainInv, OneChain
<1> QED
  BY <1>1, NtripInvHolds, PTL

\* There is always an operation, a handler or timer_ to go on with.
THEOREM GoesOn == ASSUME PromptHandlers PROVE Spec => []NeverAbandoned
<1>1. NtripInv => NeverAbandoned
  BY DEF NtripInv, ChainInv, OfChain, NeverAbandoned
<1> QED
  BY <1>1, NtripInvHolds, PTL

\* Over any number of connections the stream is forwarded without a gap.
THEOREM StreamForwarded == ASSUME PromptHandlers PROVE Spec => []ForwardedInOrder
<1>1. NtripInv => ForwardedInOrder
  BY DEF NtripInv, Numbered, ForwardedInOrder
<1> QED
  BY <1>1, NtripInvHolds, PTL

=============================================================================
