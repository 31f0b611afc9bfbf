--------------------------- MODULE RedisSubscriber ----------------------------
(***************************************************************************)
(* The subscriber connection of ChatServer's RedisMgr.  One thread runs    *)
(* subscriberLoop: it blocks in redisGetReply and hands messages to the    *)
(* callback.  Logins and ends of sessions call subscribe and unsubscribe,  *)
(* which send a command on the same redisContext and call redisGetReply    *)
(* for its answer: _subscribeMutex keeps the callers apart, not the loop.  *)
(* redisGetReply (hiredis) is                                              *)
(*   parse  take a reply from the reader's buffer if one is there;         *)
(*   write  otherwise send the commands in the output buffer,              *)
(*   read   read, blocking, what the socket has, and parse again           *)
(* so that a thread may get a reply meant for another, and what one thread *)
(* read too much of stays in the buffer of another that blocks in read.    *)
(* Two threads in the buffer at once is a data race: it may go well or     *)
(* leave the context in error (that it may crash is left out).  A context  *)
(* in error, or whose connection broke, is never replaced.                 *)
(***************************************************************************)
EXTENDS Integers, Sequences, SequencesExt, FiniteSets

CONSTANTS Callers,     \* threads that call subscribe and unsubscribe
          Channels,
          MaxCalls,    \* bound: calls
          MaxMessages, \* bound: messages Redis sends on the connection
          Loop,        \* the thread of subscriberLoop
          Nobody

ASSUME SubscriberAssumption ==
  /\ MaxCalls \in Nat /\ MaxMessages \in Nat
  /\ Loop \notin Callers /\ Nobody \notin Callers \cup {Loop}

Threads == Callers \cup {Loop}

\* Commands, and what Redis sends: the answer to a command, or a message.
Commands == [verb : {"subscribe", "unsubscribe"}, channel : Channels]
Answer == 0
Replies == 0..MaxMessages

VARIABLES subs,    \* Redis: the channels the connection is subscribed to
          calls,   \* calls so far
          sent,    \* messages sent on the connection so far
          obuf,    \* the output buffer of the context
          wire,    \* commands written and not executed yet
          stream,  \* replies sent and not read yet
          reader,  \* replies read and not parsed yet
          err,     \* "none"; "broken", the connection; "garbled", the buffer
          context, \* _subscriberContext: "null", "live" or "freed"
          running, \* _subscriberRunning
          mutex,   \* who holds _subscribeMutex
          at,      \* where each thread is
          hand,    \* the message the loop gives to the callback, or Answer
          closer,  \* where close() is
          down,    \* the process has crashed
          given,   \* ghost: the messages the callback was given, in order
          lost,    \* ghost: messages that calls took for their answer
          stray    \* ghost: answers the loop took

redis == <<subs, sent>>
ctx == <<obuf, wire, stream, reader, err>>
ghost == <<given, lost, stray>>
vars == <<redis, calls, ctx, context, running, mutex, at, hand, closer, down, ghost>>

Init ==
  /\ subs = {} /\ sent = 0 /\ calls = 0
  /\ obuf = <<>> /\ wire = <<>> /\ stream = <<>> /\ reader = <<>> /\ err = "none"
  /\ context = "null" /\ running = FALSE /\ mutex = Nobody
  /\ at = [t \in Threads |-> IF t = Loop THEN "unborn" ELSE "out"]
  /\ hand = Answer /\ closer = "no" /\ down = FALSE
  /\ given = <<>> /\ lost = {} /\ stray = 0

Go(t, place) == at' = [at EXCEPT ![t] = place]

-----------------------------------------------------------------------------
(* Redis: executes commands in order; sends messages of subscribed channels.*)

Execute ==
  /\ wire # <<>> /\ context = "live" /\ err # "broken"
  /\ subs' = IF Head(wire).verb = "subscribe" THEN subs \cup {Head(wire).channel}
             ELSE subs \ {Head(wire).channel}
  /\ wire' = Tail(wire)
  /\ stream' = Append(stream, Answer)
  /\ UNCHANGED <<sent, calls, obuf, reader, err, context, running, mutex, at,
                 hand, closer, down, ghost>>

\* Somebody publishes on a channel the server is subscribed to.
Send ==
  /\ subs # {} /\ sent < MaxMessages /\ context = "live"
  /\ sent' = sent + 1
  /\ stream' = Append(stream, sent + 1)
  /\ UNCHANGED <<subs, calls, obuf, wire, reader, err, context, running, mutex, at,
                 hand, closer, down, ghost>>

\* The connection breaks, with what was under way on it.
Break ==
  /\ context = "live" /\ err # "broken"
  /\ err' = "broken" /\ subs' = {} /\ wire' = <<>> /\ stream' = <<>>
  /\ UNCHANGED <<sent, calls, obuf, reader, context, running, mutex, at, hand,
                 closer, down, ghost>>

-----------------------------------------------------------------------------
(* startSubscriber, once, from LogicSystem's constructor.  When Redis cannot *)
(* be reached there is no context, and no thread, until the process ends.   *)

startSubscriber(connected) ==
  /\ at[Loop] = "unborn" /\ closer = "no"
  /\ context' = IF connected THEN "live" ELSE "null"
  /\ running' = connected
  /\ Go(Loop, IF connected THEN "check" ELSE "never")
  /\ UNCHANGED <<redis, calls, ctx, mutex, hand, closer, down, ghost>>

-----------------------------------------------------------------------------
(* subscribe and unsubscribe.                                               *)

\* Mutant: _subscribeMutex is not taken.
CallUnlocked(t, command) ==
  /\ at[Loop] # "unborn" /\ at[t] = "out" /\ calls < MaxCalls
  /\ calls' = calls + 1
  /\ IF context = "live"
     THEN mutex' = t /\ obuf' = Append(obuf, command) /\ Go(t, "parse")
     ELSE UNCHANGED <<mutex, obuf, at>>
  /\ UNCHANGED <<redis, wire, stream, reader, err, context, running, hand, closer,
                 down, ghost>>

\* The mutex is taken and the command appended; without a context nothing is done.
Call(t, command) ==
  /\ at[Loop] # "unborn" /\ at[t] = "out" /\ mutex = Nobody /\ calls < MaxCalls
  /\ calls' = calls + 1
  /\ IF context = "live"
     THEN mutex' = t /\ obuf' = Append(obuf, command) /\ Go(t, "parse")
     ELSE UNCHANGED <<mutex, obuf, at>>
  /\ UNCHANGED <<redis, wire, stream, reader, err, context, running, hand, closer,
                 down, ghost>>

-----------------------------------------------------------------------------
(* redisGetReply, for the loop and for calls.                               *)

\* Mutant: the loop ends at a reply that is no message.
ReturnEnds(t, r) ==
  IF t = Loop
  THEN /\ Go(t, IF r = Answer THEN "ended" ELSE "callback")
       /\ hand' = r
       /\ stray' = IF r = Answer THEN stray + 1 ELSE stray
       /\ UNCHANGED <<mutex, lost, given>>
  ELSE /\ Go(t, "out")
       /\ mutex' = Nobody
       /\ lost' = lost \cup ({r} \ {Answer})
       /\ UNCHANGED <<hand, stray, given>>

\* It returns: the loop has a message, or an answer, which it ignores; a call has
\* what it takes for its answer.
Return(t, r) ==
  IF t = Loop
  THEN /\ Go(t, IF r = Answer THEN "check" ELSE "callback")
       /\ hand' = r
       /\ stray' = IF r = Answer THEN stray + 1 ELSE stray
       /\ UNCHANGED <<mutex, lost, given>>
  ELSE /\ Go(t, "out")
       /\ mutex' = Nobody
       /\ lost' = lost \cup ({r} \ {Answer})
       /\ UNCHANGED <<hand, stray, given>>

\* It fails: the loop sleeps and tries again, a call returns.
Fail(t) ==
  /\ Go(t, IF t = Loop THEN "check" ELSE "out")
  /\ mutex' = IF t = Loop THEN mutex ELSE Nobody
  /\ UNCHANGED <<hand, ghost>>

\* Mutant: the last reply in the buffer is taken.
TakeLast(t) ==
  /\ reader # <<>>
  /\ Return(t, Last(reader))
  /\ reader' = Front(reader)

\* Mutant: what else was read is thrown away.
TakeOnly(t) ==
  /\ reader # <<>>
  /\ Return(t, Head(reader))
  /\ reader' = <<>>

Take(t) ==
  /\ reader # <<>>
  /\ Return(t, Head(reader))
  /\ reader' = Tail(reader)

Parse(t) ==
  /\ at[t] = "parse" /\ context = "live"
  /\ \/ Take(t)
     \/ /\ reader = <<>> /\ err = "none"
        /\ Go(t, "write")
        /\ UNCHANGED <<reader, mutex, hand, ghost>>
     \/ /\ reader = <<>> /\ err # "none"
        /\ Fail(t)
        /\ UNCHANGED reader
  /\ UNCHANGED <<redis, calls, obuf, wire, stream, err, context, running, closer, down>>

Write(t) ==
  /\ at[t] = "write" /\ context = "live"
  /\ \/ /\ err = "none"
        /\ wire' = wire \o obuf /\ obuf' = <<>>
        /\ Go(t, "read")
        /\ UNCHANGED <<mutex, hand, ghost>>
     \/ /\ err # "none"
        /\ Fail(t)
        /\ UNCHANGED <<wire, obuf>>
  /\ UNCHANGED <<redis, calls, stream, reader, err, context, running, closer, down>>

\* The thread blocks until the socket has something: it takes some or all of it.
\* A connection that breaks wakes it.
Read(t) ==
  /\ at[t] = "read" /\ context = "live"
  /\ \/ /\ stream # <<>> /\ err = "none"
        /\ \E n \in 1..Len(stream) :
             /\ reader' = reader \o SubSeq(stream, 1, n)
             /\ stream' = SubSeq(stream, n + 1, Len(stream))
        /\ Go(t, "got")
        /\ UNCHANGED <<mutex, hand, ghost>>
     \/ /\ err = "broken" \/ (err = "garbled" /\ stream # <<>>)
        /\ Fail(t)
        /\ stream' = <<>>
        /\ UNCHANGED reader
  /\ UNCHANGED <<redis, calls, obuf, wire, err, context, running, closer, down>>

\* What was read is parsed, unless another thread has been quicker.
Got(t) ==
  /\ at[t] = "got" /\ context = "live"
  /\ \/ Take(t)
     \/ /\ reader = <<>> /\ err = "none"
        /\ Go(t, "read")
        /\ UNCHANGED <<reader, mutex, hand, ghost>>
     \/ /\ reader = <<>> /\ err # "none"
        /\ Fail(t)
        /\ UNCHANGED reader
  /\ UNCHANGED <<redis, calls, obuf, wire, stream, err, context, running, closer, down>>

\* Two threads at the reader's buffer, with neither's knowledge.
Race ==
  /\ context = "live" /\ err = "none"
  /\ \E t \in Callers : {at[t], at[Loop]} \subseteq {"parse", "got"}
  /\ err' = "garbled" /\ reader' = <<>>
  /\ UNCHANGED <<redis, calls, obuf, wire, stream, context, running, mutex, at,
                 hand, closer, down, ghost>>

-----------------------------------------------------------------------------
(* subscriberLoop and close.                                                *)

Check ==
  /\ at[Loop] = "check"
  /\ Go(Loop, IF running THEN "parse" ELSE "ended")
  /\ UNCHANGED <<redis, calls, ctx, context, running, mutex, hand, closer, down, ghost>>

Callback ==
  /\ at[Loop] = "callback"
  /\ given' = Append(given, hand)
  /\ hand' = Answer
  /\ Go(Loop, "check")
  /\ UNCHANGED <<redis, calls, ctx, context, running, mutex, closer, down, lost, stray>>

\* close stops the loop and frees the context, whoever uses it, then joins.
CloseFree ==
  /\ closer = "no" /\ at[Loop] # "unborn"
  /\ running' = FALSE
  /\ context' = IF context = "live" THEN "freed" ELSE context
  /\ closer' = "freed"
  /\ UNCHANGED <<redis, calls, ctx, mutex, at, hand, down, ghost>>

CloseJoin ==
  /\ closer = "freed" /\ at[Loop] \in {"ended", "never"}
  /\ closer' = "joined"
  /\ UNCHANGED <<redis, calls, ctx, context, running, mutex, at, hand, down, ghost>>

\* A thread in redisGetReply uses the context that was freed; one that blocks in
\* read does when something arrives, and otherwise blocks for ever.
UseFreed(t) ==
  /\ context = "freed" /\ at[t] \in {"parse", "write", "read", "got"}
  /\ down' = TRUE
  /\ UNCHANGED <<redis, calls, ctx, context, running, mutex, at, hand, closer, ghost>>

-----------------------------------------------------------------------------
GetReply(t) == Parse(t) \/ Write(t) \/ Read(t) \/ Got(t)

LoopStep == GetReply(Loop) \/ Check \/ Callback

Next ==
  /\ ~down
  /\ \/ Execute \/ Send \/ Break
     \/ \E connected \in BOOLEAN : startSubscriber(connected)
     \/ \E t \in Callers : GetReply(t) \/ \E command \in Commands : Call(t, command)
     \/ LoopStep \/ Race \/ CloseFree \/ CloseJoin
     \/ \E t \in Threads : UseFreed(t)

Spec == Init /\ [][Next]_vars

\* The loop and the threads in a call run; Redis executes what it is sent.
FairSpec ==
  /\ Spec
  /\ WF_vars(~down /\ Execute) /\ WF_vars(~down /\ LoopStep)
  /\ \A t \in Callers : WF_vars(~down /\ GetReply(t))

-----------------------------------------------------------------------------
(* Properties.                                                              *)

\* Types; a call is under way exactly while its thread holds the mutex.
TypeOK ==
  /\ subs \subseteq Channels /\ calls \in 0..MaxCalls /\ sent \in 0..MaxMessages
  /\ obuf \in Seq(Commands) /\ wire \in Seq(Commands)
  /\ stream \in Seq(Replies) /\ reader \in Seq(Replies)
  /\ err \in {"none", "broken", "garbled"}
  /\ context \in {"null", "live", "freed"} /\ running \in BOOLEAN
  /\ at \in [Threads -> {"unborn", "never", "out", "check", "parse", "write", "read",
                         "got", "callback", "ended"}]
  /\ \A t \in Callers : at[t] # "out" <=> mutex = t
  /\ hand \in Replies /\ closer \in {"no", "freed", "joined"} /\ down \in BOOLEAN
  /\ given \in Seq(Replies) /\ lost \subseteq Replies /\ stray \in Nat

\* What Redis sent and nobody has parsed yet.
Pipe == reader \o stream

Answers(s) == Cardinality({i \in DOMAIN s : s[i] = Answer})

\* Answers of calls that nobody has taken yet.
Outstanding == Len(obuf) + Len(wire) + Answers(Pipe)

\* On a sound context every message a call took for its answer is paid for by an
\* answer that the loop took or that is still to come: no more messages are lost,
\* and no more calls left waiting, than that (RedisMgr.cpp:355, 366, 375).
LossesAreStrays ==
  err = "none" => Cardinality(lost) + (IF mutex = Nobody THEN 0 ELSE 1) = stray + Outstanding

\* No message is given to the callback twice, or out of order, or after it was lost:
\* it has one fate at most, though callers and the loop take replies from one buffer.
OneFate ==
  /\ \A i, j \in DOMAIN given : i < j => given[i] < given[j]
  /\ \A i \in DOMAIN given : given[i] \notin lost

\* The callback gets messages in the order sent, each once at most, whatever
\* calls take in between (subscriberLoop, RedisMgr.cpp:372-394).
Feed == INSTANCE MessageFeed WITH newest <- IF given = <<>> THEN 0 ELSE Last(given)

ImplementsFeed == Feed!Spec

Delivered(n) == n \in ToSet(given)

\* The server is not about to handle messages any more.
Over == err # "none" \/ closer # "no" \/ down

\* Every message sent is given to the callback or taken by a call, or else lies in
\* the buffer, read by a call along with its answer, while the loop blocks on an
\* empty socket: no message stays behind in any other way.
StuckOnlyInBuffer ==
  \A n \in 1..MaxMessages :
    sent >= n ~> \/ Delivered(n) \/ n \in lost \/ Over
                \/ (n \in ToSet(reader) /\ at[Loop] = "read" /\ stream = <<>>)

\* What the repository says (src/README.md:585-586): a server subscribed to the
\* channel receives what is published on it and forwards it.
SubscribedIsDelivered ==
  \A n \in 1..MaxMessages : sent >= n ~> Delivered(n) \/ Over
=============================================================================
