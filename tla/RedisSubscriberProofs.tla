----------------------- MODULE RedisSubscriberProofs -----------------------
(***************************************************************************)
(* Proofs about RedisSubscriber, for any threads, channels and number of   *)
(* calls and messages.  What Redis sent and nobody has parsed is one pipe, *)
(* of which part is in the socket and part in the reader's buffer: reading *)
(* moves the boundary and changes nothing.                                 *)
(***************************************************************************)
EXTENDS RedisSubscriber, SequenceTheorems, FiniteSetTheorems,
        FunctionTheorems, TLAPS

\* The last message the callback was given.
Newest == IF given = <<>> THEN 0 ELSE Last(given)

\* The messages in s are in the order sent.
Ordered(s) ==
  \A i, j \in DOMAIN s : i < j /\ s[i] # Answer /\ s[j] # Answer => s[i] < s[j]

\* Message n is older than those in s.
Older(n, s) == \A i \in DOMAIN s : s[i] # Answer => n < s[i]

\* Messages in p come in order, and what left the pipe was sent before them.
PipeInv(p) ==
  /\ Ordered(p)
  /\ \A i \in DOMAIN p : p[i] <= sent
  /\ \A n \in lost : Older(n, p)
  /\ Older(hand, p) /\ Older(Newest, p)

\* The loop has a message in its hand exactly while it is in the callback, and it
\* is newer than those the callback was given before.
OrderInv ==
  /\ PipeInv(Pipe)
  /\ Answer \notin lost
  /\ hand <= sent /\ Newest <= sent /\ Newest \in Nat
  /\ \A n \in lost : n <= sent
  /\ IF at[Loop] = "callback" THEN Newest < hand ELSE hand = Answer

IInv == TypeOK /\ OrderInv /\ LossesAreStrays
-----------------------------------------------------------------------------
(* Sequences of replies *)

LEMMA PipeType ==
  ASSUME TypeOK
  PROVE  /\ Pipe \in Seq(Replies) /\ Len(Pipe) \in Nat
         /\ DOMAIN Pipe = 1 .. Len(Pipe)
         /\ Len(Pipe) = Len(reader) + Len(stream)
         /\ Len(reader) \in Nat /\ Len(stream) \in Nat
         /\ \A i \in 1 .. Len(reader) : Pipe[i] = reader[i]
         /\ \A i \in 1 .. Len(stream) : Pipe[Len(reader) + i] = stream[i]
  <1>1. reader \in Seq(Replies) /\ stream \in Seq(Replies)
    BY DEF TypeOK
  <1>2. /\ Pipe \in Seq(Replies) /\ Len(Pipe) = Len(reader) + Len(stream)
        /\ \A i \in 1 .. Len(reader) + Len(stream) : Pipe[i] =
             IF i <= Len(reader) THEN reader[i] ELSE stream[i - Len(reader)]
    BY <1>1, ConcatProperties DEF Pipe
  <1>3. Len(reader) \in Nat /\ Len(stream) \in Nat
    BY <1>1, LenProperties
  <1>4. Len(Pipe) \in Nat /\ DOMAIN Pipe = 1 .. Len(Pipe)
    BY <1>2, LenProperties
  <1> QED BY <1>2, <1>3, <1>4

\* A reply sent is the last of the pipe.
LEMMA PipeGrows ==
  ASSUME NEW r \in Seq(Replies), NEW s \in Seq(Replies), NEW x \in Replies
  PROVE  r \o Append(s, x) = Append(r \o s, x)
  <1>1. /\ <<x>> \in Seq(Replies)
        /\ Append(s, x) = s \o <<x>> /\ r \o s \in Seq(Replies)
    BY AppendIsConcat, ConcatProperties
  <1>2. Append(r \o s, x) = (r \o s) \o <<x>>
    BY <1>1, AppendIsConcat
  <1> QED BY <1>1, <1>2, ConcatAssociative

LEMMA RepliesAssociate ==
  ASSUME NEW r \in Seq(Replies), NEW s \in Seq(Replies), NEW t \in Seq(Replies)
  PROVE  (r \o s) \o t = r \o (s \o t)
  BY ConcatAssociative

\* What is read moves from one part of the pipe to the other.
LEMMA PipeRead ==
  ASSUME NEW r \in Seq(Replies), NEW s \in Seq(Replies), NEW n \in 1 .. Len(s)
  PROVE  (r \o SubSeq(s, 1, n)) \o SubSeq(s, n + 1, Len(s)) = r \o s
  <1>1. Len(s) \in Nat /\ \A i \in 1 .. Len(s) : s[i] \in Replies
    BY LenProperties, ElementOfSeq
  <1>2. SubSeq(s, 1, n) \in Seq(Replies)
    BY <1>1, SubSeqProperties
  <1>3. SubSeq(s, n + 1, Len(s)) \in Seq(Replies)
    BY <1>1, SubSeqProperties
  <1>4. SubSeq(s, 1, n) \o SubSeq(s, n + 1, Len(s)) = s
    BY <1>1, ConcatAdjacentSubSeq, SubSeqFull
  <1> DEFINE a == SubSeq(s, 1, n)
             b == SubSeq(s, n + 1, Len(s))
  <1>5. (r \o a) \o b = r \o (a \o b)
    <2>1. a \in Seq(Replies) /\ b \in Seq(Replies)
      BY <1>2, <1>3
    <2> HIDE DEF a, b
    <2> QED BY <2>1, RepliesAssociate
  <1> QED BY <1>4, <1>5

\* What is parsed is the first of the pipe.
LEMMA PipeShrinks ==
  ASSUME NEW r \in Seq(Replies), NEW s \in Seq(Replies), r # <<>>
  PROVE  /\ Tail(r) \o s = Tail(r \o s) /\ r \o s # <<>>
         /\ Tail(r) \in Seq(Replies) /\ Head(r) \in Replies
         /\ Head(r) = (r \o s)[1]
  <1>1. /\ Tail(r) \in Seq(Replies) /\ Head(r) \in Replies
        /\ Len(Tail(r)) = Len(r) - 1
        /\ \A i \in 1 .. Len(Tail(r)) : Tail(r)[i] = r[i + 1]
    BY HeadTailProperties
  <1>2. Len(r) \in Nat \ {0} /\ Len(s) \in Nat
    BY EmptySeq, LenProperties
  <1>3. /\ r \o s \in Seq(Replies) /\ Len(r \o s) = Len(r) + Len(s)
        /\ \A i \in 1 .. Len(r) + Len(s) : (r \o s)[i] =
             IF i <= Len(r) THEN r[i] ELSE s[i - Len(r)]
    BY ConcatProperties
  <1>4. r \o s # <<>>
    BY <1>2, <1>3, EmptySeq
  <1>5. /\ Tail(r \o s) \in Seq(Replies) /\ Len(Tail(r \o s)) = Len(r) + Len(s) - 1
        /\ \A i \in 1 .. Len(Tail(r \o s)) : Tail(r \o s)[i] = (r \o s)[i + 1]
    BY <1>3, <1>4, HeadTailProperties
  <1>6. /\ Tail(r) \o s \in Seq(Replies) /\ Len(Tail(r) \o s) = Len(r) - 1 + Len(s)
        /\ \A i \in 1 .. Len(r) - 1 + Len(s) : (Tail(r) \o s)[i] =
             IF i <= Len(r) - 1 THEN Tail(r)[i] ELSE s[i - (Len(r) - 1)]
    BY <1>1, ConcatProperties
  <1>7. \A i \in 1 .. Len(r) - 1 + Len(s) : (Tail(r) \o s)[i] = Tail(r \o s)[i]
    BY <1>1, <1>2, <1>3, <1>5, <1>6
  <1>8. Tail(r) \o s = Tail(r \o s)
    BY <1>2, <1>5, <1>6, <1>7, SeqEqual
  <1>9. Head(r) = (r \o s)[1]
    BY <1>2, <1>3
  <1> QED BY <1>1, <1>4, <1>8, <1>9

AnswersAt(s) == {i \in DOMAIN s : s[i] = Answer}

LEMMA AnswersType ==
  ASSUME NEW s \in Seq(Replies)
  PROVE  IsFiniteSet(AnswersAt(s)) /\ Answers(s) \in Nat /\ Answers(s) = Cardinality(AnswersAt(s))
  <1>1. DOMAIN s = 1 .. Len(s) /\ Len(s) \in Nat
    BY LenProperties
  <1>2. IsFiniteSet(1 .. Len(s))
    BY <1>1, FS_Interval
  <1>3. IsFiniteSet(AnswersAt(s))
    BY <1>1, <1>2, FS_Subset DEF AnswersAt
  <1> QED BY <1>3, FS_CardinalityType DEF Answers, AnswersAt

LEMMA AnswersAppend ==
  ASSUME NEW s \in Seq(Replies), NEW x \in Replies
  PROVE  Answers(Append(s, x)) = Answers(s) + (IF x = Answer THEN 1 ELSE 0)
  <1>1. /\ Append(s, x) \in Seq(Replies) /\ Len(Append(s, x)) = Len(s) + 1
        /\ \A i \in 1 .. Len(s) : Append(s, x)[i] = s[i]
        /\ Append(s, x)[Len(s) + 1] = x
    BY AppendProperties
  <1>2. /\ DOMAIN s = 1 .. Len(s) /\ Len(s) \in Nat
        /\ DOMAIN Append(s, x) = 1 .. Len(s) + 1
    BY <1>1, LenProperties
  <1>3. CASE x = Answer
    <2>1. AnswersAt(Append(s, x)) = AnswersAt(s) \cup {Len(s) + 1} /\ Len(s) + 1 \notin AnswersAt(s)
      BY <1>1, <1>2, <1>3 DEF AnswersAt
    <2>2. Cardinality(AnswersAt(Append(s, x))) = Cardinality(AnswersAt(s)) + 1
      BY <2>1, AnswersType, FS_AddElement
    <2> QED BY <1>1, <1>3, <2>2, AnswersType
  <1>4. CASE x # Answer
    <2>1. AnswersAt(Append(s, x)) = AnswersAt(s)
      BY <1>1, <1>2, <1>4 DEF AnswersAt
    <2>2. /\ Answers(Append(s, x)) = Cardinality(AnswersAt(Append(s, x)))
          /\ Answers(s) = Cardinality(AnswersAt(s)) /\ Answers(s) \in Nat
      BY <1>1, AnswersType
    <2> QED BY <1>4, <2>1, <2>2
  <1> QED BY <1>3, <1>4

LEMMA AnswersTail ==
  ASSUME NEW s \in Seq(Replies), s # <<>>
  PROVE  Answers(s) = Answers(Tail(s)) + (IF s[1] = Answer THEN 1 ELSE 0)
  <1>1. /\ Tail(s) \in Seq(Replies) /\ Len(Tail(s)) = Len(s) - 1
        /\ \A i \in 1 .. Len(Tail(s)) : Tail(s)[i] = s[i + 1]
    BY HeadTailProperties
  <1>2. /\ DOMAIN s = 1 .. Len(s) /\ Len(s) \in Nat \ {0}
        /\ DOMAIN Tail(s) = 1 .. Len(s) - 1
    BY <1>1, LenProperties, EmptySeq
  <1> DEFINE T == AnswersAt(Tail(s))
             R == AnswersAt(s) \ {1}
             f == [i \in T |-> i + 1]
  <1>3. f \in Bijection(T, R)
    <2>1. \A i \in T : i \in 1 .. Len(s) - 1 /\ i + 1 \in R
      BY <1>1, <1>2 DEF AnswersAt
    <2>2. \A j \in R : j - 1 \in T /\ (j - 1) + 1 = j
      BY <1>1, <1>2 DEF AnswersAt
    <2>3. f \in [T -> R] /\ (\A i, j \in T : f[i] = f[j] => i = j)
      BY <2>1
    <2>4. \A j \in R : \E i \in T : f[i] = j
      BY <2>2
    <2> HIDE DEF T, R, f
    <2> QED BY <2>3, <2>4, Fun_IsBij
  <1>4. IsFiniteSet(T) /\ Cardinality(T) = Answers(Tail(s))
    BY <1>1, AnswersType
  <1>5. Cardinality(R) = Cardinality(T) /\ IsFiniteSet(R)
    BY <1>3, <1>4, FS_Bijection DEF ExistsBijection
  <1>6. CASE s[1] = Answer
    <2>1. AnswersAt(s) = R \cup {1} /\ 1 \notin R
      BY <1>2, <1>6 DEF AnswersAt
    <2>2. Cardinality(AnswersAt(s)) = Cardinality(R) + 1
      BY <2>1, <1>5, FS_AddElement
    <2> QED BY <1>4, <1>5, <1>6, <2>2, AnswersType
  <1>7. CASE s[1] # Answer
    <2>1. AnswersAt(s) = R
      BY <1>2, <1>7 DEF AnswersAt
    <2>2. Answers(s) = Cardinality(AnswersAt(s)) /\ Answers(s) \in Nat
      BY AnswersType
    <2>3. Answers(s) = Answers(Tail(s))
      BY <1>4, <1>5, <2>1, <2>2
    <2> QED BY <1>7, <2>2, <2>3
  <1> QED BY <1>6, <1>7

-----------------------------------------------------------------------------
(* Order *)

LEMMA OrderAppend ==
  ASSUME NEW s \in Seq(Replies), NEW x \in Replies
  PROVE  /\ \A n \in Replies : Older(n, s) /\ (x = Answer \/ n < x) => Older(n, Append(s, x))
         /\ Ordered(s) /\ (x = Answer \/ \A i \in DOMAIN s : s[i] < x) => Ordered(Append(s, x))
         /\ \A m \in Nat : (\A i \in DOMAIN s : s[i] <= m) /\ x <= m
                             => \A i \in DOMAIN Append(s, x) : Append(s, x)[i] <= m
  <1>1. /\ Append(s, x) \in Seq(Replies) /\ Len(Append(s, x)) = Len(s) + 1
        /\ \A i \in 1 .. Len(s) : Append(s, x)[i] = s[i]
        /\ Append(s, x)[Len(s) + 1] = x
    BY AppendProperties
  <1>2. /\ DOMAIN s = 1 .. Len(s) /\ Len(s) \in Nat
        /\ DOMAIN Append(s, x) = 1 .. Len(s) + 1
        /\ \A i \in 1 .. Len(s) : s[i] \in Replies
    BY <1>1, LenProperties, ElementOfSeq
  <1> DEFINE a == Append(s, x)
  <1>3. \A i \in DOMAIN a : (i \in DOMAIN s /\ a[i] = s[i]) \/ (i = Len(s) + 1 /\ a[i] = x)
    BY <1>1, <1>2
  <1> HIDE DEF a
  <1>4. ASSUME NEW n \in Replies, Older(n, s), x = Answer \/ n < x PROVE Older(n, a)
    BY <1>3, <1>4 DEF Older
  <1>5. ASSUME Ordered(s), x = Answer \/ \A i \in DOMAIN s : s[i] < x PROVE Ordered(a)
    <2> SUFFICES ASSUME NEW i \in DOMAIN a, NEW j \in DOMAIN a, i < j,
                        a[i] # Answer, a[j] # Answer
                 PROVE  a[i] < a[j]
      BY DEF Ordered
    <2>1. i \in DOMAIN s /\ a[i] = s[i]
      BY <1>1, <1>2, <1>3 DEF a
    <2> QED BY <1>2, <1>3, <1>5, <2>1 DEF Ordered
  <1>6. ASSUME NEW m \in Nat, \A i \in DOMAIN s : s[i] <= m, x <= m
        PROVE  \A i \in DOMAIN a : a[i] <= m
    BY <1>3, <1>6
  <1> QED BY <1>4, <1>5, <1>6 DEF a

LEMMA OrderTail ==
  ASSUME NEW s \in Seq(Replies), s # <<>>
  PROVE  /\ \A n : Older(n, s) => Older(n, Tail(s)) /\ (s[1] = Answer \/ n < s[1])
         /\ Ordered(s) => Ordered(Tail(s)) /\ (s[1] = Answer \/ Older(s[1], Tail(s)))
         /\ \A m : (\A i \in DOMAIN s : s[i] <= m)
                     => (\A i \in DOMAIN Tail(s) : Tail(s)[i] <= m) /\ s[1] <= m
  <1>1. /\ Tail(s) \in Seq(Replies) /\ Len(Tail(s)) = Len(s) - 1
        /\ \A i \in 1 .. Len(Tail(s)) : Tail(s)[i] = s[i + 1]
    BY HeadTailProperties
  <1>2. /\ DOMAIN s = 1 .. Len(s) /\ Len(s) \in Nat \ {0}
        /\ DOMAIN Tail(s) = 1 .. Len(s) - 1
    BY <1>1, LenProperties, EmptySeq
  <1> DEFINE t == Tail(s)
  <1>3. /\ 1 \in DOMAIN s
        /\ \A i \in DOMAIN t : i + 1 \in DOMAIN s /\ t[i] = s[i + 1] /\ i \in Nat /\ 1 < i + 1
    BY <1>1, <1>2
  <1> HIDE DEF t
  <1>4. ASSUME NEW n, Older(n, s) PROVE Older(n, t) /\ (s[1] = Answer \/ n < s[1])
    BY <1>3, <1>4 DEF Older
  <1>5. ASSUME Ordered(s) PROVE Ordered(t) /\ (s[1] = Answer \/ Older(s[1], t))
    <2>1. Ordered(t)
      <3> SUFFICES ASSUME NEW i \in DOMAIN t, NEW j \in DOMAIN t, i < j,
                          t[i] # Answer, t[j] # Answer
                   PROVE  t[i] < t[j]
        BY DEF Ordered
      <3> QED BY <1>3, <1>5 DEF Ordered
    <2>2. ASSUME s[1] # Answer PROVE Older(s[1], t)
      BY <1>3, <1>5, <2>2 DEF Ordered, Older
    <2> QED BY <2>1, <2>2
  <1>6. ASSUME NEW m, \A i \in DOMAIN s : s[i] <= m
        PROVE  (\A i \in DOMAIN t : t[i] <= m) /\ s[1] <= m
    BY <1>3, <1>6
  <1> QED BY <1>4, <1>5, <1>6 DEF t

\* What is left of the pipe when one part of it is thrown away.
LEMMA PipeParts ==
  ASSUME TypeOK, PipeInv(Pipe) PROVE PipeInv(reader) /\ PipeInv(stream)
  <1>1. /\ DOMAIN Pipe = 1 .. Len(reader) + Len(stream)
        /\ Len(reader) \in Nat /\ Len(stream) \in Nat
        /\ \A i \in 1 .. Len(reader) : Pipe[i] = reader[i]
        /\ \A i \in 1 .. Len(stream) : Pipe[Len(reader) + i] = stream[i]
    BY PipeType
  <1>2. DOMAIN reader = 1 .. Len(reader) /\ DOMAIN stream = 1 .. Len(stream)
    BY LenProperties DEF TypeOK
  <1>3. \A i \in DOMAIN reader : i \in DOMAIN Pipe /\ Pipe[i] = reader[i]
    BY <1>1, <1>2
  <1>4. \A i \in DOMAIN stream : Len(reader) + i \in DOMAIN Pipe
                                 /\ Pipe[Len(reader) + i] = stream[i]
    BY <1>1, <1>2
  <1>5. \A i, j \in DOMAIN stream : i < j => Len(reader) + i < Len(reader) + j
    BY <1>1, <1>2
  <1>6. Ordered(reader) /\ Ordered(stream)
    BY <1>3, <1>4, <1>5 DEF PipeInv, Ordered
  <1>7. \A n : Older(n, Pipe) => Older(n, reader) /\ Older(n, stream)
    BY <1>3, <1>4 DEF Older
  <1> QED BY <1>3, <1>4, <1>6, <1>7 DEF PipeInv

-----------------------------------------------------------------------------
(* The invariant *)

LEMMA ReplyTypes ==
  ASSUME TypeOK
  PROVE  /\ Answer \in Replies /\ Replies \subseteq Nat
         /\ Newest \in Replies /\ hand \in Replies /\ lost \subseteq Replies
         /\ IsFiniteSet(lost) /\ Cardinality(lost) \in Nat
         /\ Len(obuf) \in Nat /\ Len(wire) \in Nat /\ Answers(Pipe) \in Nat
         /\ Outstanding \in Nat
  <1>1. Answer \in Replies /\ Replies \subseteq Nat
    BY SubscriberAssumption DEF Answer, Replies
  <1>2. Newest \in Replies
    <2>1. given # <<>> => Last(given) \in Replies
      <3> SUFFICES ASSUME given # <<>> PROVE Last(given) \in Replies
        OBVIOUS
      <3>1. given \in Seq(Replies) /\ Len(given) \in 1 .. Len(given)
        BY EmptySeq, LenProperties DEF TypeOK
      <3> QED BY <3>1, ElementOfSeq DEF Last
    <2> QED BY <2>1, <1>1 DEF Newest, Answer
  <1>3. IsFiniteSet(0 .. MaxMessages)
    BY SubscriberAssumption, FS_Interval
  <1>4. lost \subseteq Replies /\ hand \in Replies
    BY DEF TypeOK
  <1>5. IsFiniteSet(lost) /\ Cardinality(lost) \in Nat
    BY <1>3, <1>4, FS_Subset, FS_CardinalityType DEF Replies
  <1>6. Len(obuf) \in Nat /\ Len(wire) \in Nat
    BY LenProperties DEF TypeOK
  <1>7. Pipe \in Seq(Replies)
    BY PipeType
  <1>8. Answers(Pipe) \in Nat
    BY <1>7, AnswersType
  <1> QED BY <1>1, <1>2, <1>4, <1>5, <1>6, <1>8 DEF Outstanding

LEMMA InitInv == Init => IInv
  <1> SUFFICES ASSUME Init PROVE IInv
    OBVIOUS
  <1>1. TypeOK
    <2>1. <<>> \in Seq(Replies) /\ <<>> \in Seq(Commands)
      OBVIOUS
    <2>2. Answer \in Replies
      BY SubscriberAssumption DEF Answer, Replies
    <2>3. at \in [Threads -> {"unborn", "never", "out", "check", "parse", "write", "read",
                              "got", "callback", "ended"}]
      BY DEF Init
    <2>4. \A t \in Callers : at[t] = "out" /\ mutex # t
      BY SubscriberAssumption DEF Init, Threads
    <2>5. subs \subseteq Channels /\ calls \in 0 .. MaxCalls /\ sent \in 0 .. MaxMessages
          /\ lost \subseteq Replies /\ stray \in Nat
      BY SubscriberAssumption DEF Init
    <2>6. obuf \in Seq(Commands) /\ wire \in Seq(Commands) /\ stream \in Seq(Replies)
          /\ reader \in Seq(Replies) /\ given \in Seq(Replies)
      BY <2>1 DEF Init
    <2> QED BY <2>2, <2>3, <2>4, <2>5, <2>6 DEF Init, TypeOK
  <1>2. Pipe = <<>>
    BY ConcatEmptySeq DEF Init, Pipe
  <1>3. Len(<<>>) = 0 /\ DOMAIN <<>> = {}
    OBVIOUS
  <1>4. at[Loop] = "unborn"
    BY DEF Init, Threads
  <1>5. OrderInv
    BY <1>2, <1>3, <1>4 DEF Init, OrderInv, PipeInv, Ordered, Older, Newest, Answer
  <1>6. Answers(Pipe) = 0
    <2>1. {i \in DOMAIN Pipe : Pipe[i] = Answer} = {}
      BY <1>2, <1>3
    <2> QED BY <2>1, FS_EmptySet DEF Answers
  <1>7. Cardinality(lost) = 0
    BY FS_EmptySet DEF Init
  <1>8. LossesAreStrays
    BY <1>3, <1>6, <1>7 DEF Init, LossesAreStrays, Outstanding
  <1> QED BY <1>1, <1>5, <1>8 DEF IInv

\* A thread of redisGetReply goes on without a reply: it wrote, read or found nothing.
LEMMA MoveInv ==
  ASSUME IInv, NEW t \in Threads, at[t] \in {"parse", "write", "read", "got"},
         NEW place \in {"write", "read", "got"}, Go(t, place),
         obuf' \in Seq(Commands), wire' \in Seq(Commands),
         reader' \in Seq(Replies), stream' \in Seq(Replies),
         Pipe' = Pipe, Len(obuf') + Len(wire') = Len(obuf) + Len(wire),
         UNCHANGED <<redis, calls, err, context, running, mutex, hand, closer, down, ghost>>
  PROVE  IInv'
  <1>1. \A j \in Threads : at'[j] = IF j = t THEN place ELSE at[j]
    BY DEF IInv, TypeOK, Go
  <1>2. /\ at' \in [Threads -> {"unborn", "never", "out", "check", "parse", "write", "read",
                                "got", "callback", "ended"}]
        /\ \A j \in Callers : at'[j] # "out" <=> mutex' = j
    BY <1>1 DEF IInv, TypeOK, Go, Threads
  <1>3. TypeOK'
    BY <1>2 DEF IInv, TypeOK, redis, ghost
  <1>4. OrderInv'
    <2>1. at'[Loop] = "callback" <=> at[Loop] = "callback"
      BY <1>1 DEF Threads
    <2> QED BY <2>1 DEF IInv, OrderInv, PipeInv, Newest, redis, ghost
  <1>5. Outstanding' = Outstanding
    BY DEF Outstanding
  <1>6. LossesAreStrays'
    BY <1>5 DEF IInv, LossesAreStrays, ghost
  <1> QED BY <1>3, <1>4, <1>6 DEF IInv

\* Once the context is in error only types and order are left to keep.
LEMMA FailInv ==
  ASSUME IInv, NEW t \in Threads, at[t] \in {"parse", "write", "read", "got"},
         err # "none", Fail(t), stream' = stream \/ stream' = <<>>,
         UNCHANGED <<redis, calls, obuf, wire, reader, err, context, running, closer, down>>
  PROVE  IInv'
  <1>1. \A j \in Threads : at'[j] = IF j = t THEN IF t = Loop THEN "check" ELSE "out" ELSE at[j]
    BY DEF IInv, TypeOK, Go, Fail
  <1>2. at' \in [Threads -> {"unborn", "never", "out", "check", "parse", "write", "read",
                             "got", "callback", "ended"}]
    BY DEF IInv, TypeOK, Go, Fail
  <1>3. \A j \in Callers : at'[j] # "out" <=> mutex' = j
    BY <1>1, SubscriberAssumption DEF IInv, TypeOK, Threads, Fail
  <1>4. TypeOK'
    <2>1. stream' \in Seq(Replies)
      <3>1. stream \in Seq(Replies) /\ <<>> \in Seq(Replies)
        BY DEF IInv, TypeOK
      <3> QED BY <3>1
    <2> QED BY <1>2, <1>3, <2>1 DEF IInv, TypeOK, Fail, redis, ghost
  <1>5. PipeInv(Pipe)'
    <2>1. PipeInv(Pipe) /\ PipeInv(reader)
      BY PipeParts DEF IInv, OrderInv
    <2>2. Pipe' = Pipe \/ Pipe' = reader
      BY ConcatEmptySeq DEF Pipe, IInv, TypeOK
    <2> QED BY <2>1, <2>2 DEF PipeInv, Newest, Fail, redis, ghost
  <1>6. at'[Loop] = "callback" <=> at[Loop] = "callback"
    BY <1>1 DEF Threads
  <1>7. OrderInv'
    BY <1>5, <1>6 DEF IInv, OrderInv, Newest, Fail, redis, ghost
  <1> QED BY <1>4, <1>7 DEF IInv, LossesAreStrays

\* A reply is taken off the pipe: by the loop, a message or a stray answer, or by
\* a call, its answer or a message that is lost.
LEMMA TakeInv ==
  ASSUME IInv, NEW t \in Threads, at[t] \in {"parse", "got"}, Take(t),
         UNCHANGED <<redis, calls, obuf, wire, stream, err, context, running, closer, down>>
  PROVE  IInv'
  <1> DEFINE r == Pipe[1]
  <1>1. /\ reader \in Seq(Replies) /\ stream \in Seq(Replies) /\ reader # <<>>
        /\ reader' = Tail(reader) /\ stream' = stream /\ Return(t, Head(reader))
    BY DEF IInv, TypeOK, Take
  <1>2. /\ Pipe # <<>> /\ Pipe' = Tail(Pipe) /\ r = Head(reader) /\ r \in Replies
        /\ reader' \in Seq(Replies)
    BY <1>1, PipeShrinks DEF Pipe
  <1>3. Return(t, r)
    BY <1>1, <1>2
  <1>4. Pipe \in Seq(Replies)
    BY PipeType DEF IInv
  <1>5. Answers(Pipe) = Answers(Pipe') + (IF r = Answer THEN 1 ELSE 0)
    BY <1>2, <1>4, AnswersTail
  <1>6. Pipe' \in Seq(Replies)
    BY <1>2, <1>4, HeadTailProperties
  <1>7. Answers(Pipe') \in Nat
    BY <1>6, AnswersType
  <1>8. /\ Ordered(Pipe') /\ (r = Answer \/ Older(r, Pipe'))
        /\ \A n : Older(n, Pipe) => Older(n, Pipe') /\ (r = Answer \/ n < r)
        /\ (\A i \in DOMAIN Pipe' : Pipe'[i] <= sent) /\ r <= sent
    BY <1>2, <1>4, OrderTail DEF IInv, OrderInv, PipeInv
  <1>9. /\ Older(hand, Pipe') /\ Older(Newest, Pipe') /\ \A n \in lost : Older(n, Pipe')
        /\ r = Answer \/ (Newest < r /\ r \notin lost)
    BY <1>8, ReplyTypes DEF IInv, OrderInv, PipeInv
  <1>10. Older(Answer, Pipe')
    BY <1>6, ElementOfSeq, LenProperties, SubscriberAssumption DEF Older, Answer, Replies
  <1>11. /\ redis' = redis /\ err' = err /\ obuf' = obuf /\ wire' = wire /\ given' = given
         /\ sent' = sent /\ Newest' = Newest
    BY <1>3 DEF Return, redis, Newest
  <1> HIDE DEF r
  <1>12. CASE t = Loop
    <2>1. /\ at' = [at EXCEPT ![Loop] = IF r = Answer THEN "check" ELSE "callback"]
          /\ hand' = r /\ stray' = (IF r = Answer THEN stray + 1 ELSE stray)
          /\ mutex' = mutex /\ lost' = lost
      BY <1>3, <1>12 DEF Return, Go
    <2>2. /\ at' \in [Threads -> {"unborn", "never", "out", "check", "parse", "write", "read",
                                  "got", "callback", "ended"}]
          /\ \A j \in Callers : at'[j] = at[j]
          /\ at'[Loop] = IF r = Answer THEN "check" ELSE "callback"
      BY <2>1, SubscriberAssumption DEF IInv, TypeOK, Threads
    <2>3. TypeOK'
      BY <1>1, <1>2, <2>1, <2>2, <1>11 DEF IInv, TypeOK, redis
    <2>4. PipeInv(Pipe)'
      BY <1>8, <1>9, <1>10, <1>11, <2>1 DEF PipeInv
    <2>5. OrderInv'
      BY <1>8, <1>9, <1>11, <2>1, <2>2, <2>4 DEF IInv, OrderInv
    <2>6. LossesAreStrays'
      <3>1. Outstanding = Outstanding' + (IF r = Answer THEN 1 ELSE 0)
        BY <1>5, <1>7, <1>11, ReplyTypes DEF Outstanding, IInv
      <3>2. Outstanding \in Nat /\ Outstanding' \in Nat /\ stray \in Nat
            /\ Cardinality(lost) \in Nat
        BY <1>7, <1>11, ReplyTypes DEF Outstanding, IInv, TypeOK
      <3> QED BY <3>1, <3>2, <2>1, <1>11 DEF IInv, LossesAreStrays
    <2> QED BY <2>3, <2>5, <2>6 DEF IInv
  <1>13. CASE t # Loop
    <2>1. /\ at' = [at EXCEPT ![t] = "out"] /\ t \in Callers
          /\ mutex' = Nobody /\ lost' = lost \cup ({r} \ {Answer})
          /\ hand' = hand /\ stray' = stray
      BY <1>3, <1>13 DEF Return, Go, Threads
    <2>2. mutex = t
      BY <2>1 DEF IInv, TypeOK
    <2>3. /\ at' \in [Threads -> {"unborn", "never", "out", "check", "parse", "write", "read",
                                  "got", "callback", "ended"}]
          /\ \A j \in Callers : at'[j] # "out" <=> mutex' = j
          /\ at'[Loop] = at[Loop]
      BY <2>1, <2>2, SubscriberAssumption DEF IInv, TypeOK, Threads
    <2>4. TypeOK'
      BY <1>1, <1>2, <2>1, <2>3, <1>11 DEF IInv, TypeOK, redis
    <2>5. \A n \in lost' : n \in lost \/ (n = r /\ r # Answer)
      BY <2>1
    <2>6. PipeInv(Pipe)'
      BY <1>8, <1>9, <1>11, <2>1, <2>5 DEF PipeInv
    <2>7. OrderInv'
      BY <1>8, <1>9, <1>11, <2>1, <2>3, <2>5, <2>6 DEF IInv, OrderInv
    <2>8. LossesAreStrays'
      <3>1. Outstanding = Outstanding' + (IF r = Answer THEN 1 ELSE 0)
        BY <1>5, <1>7, <1>11, ReplyTypes DEF Outstanding, IInv
      <3>2. Outstanding \in Nat /\ Outstanding' \in Nat /\ stray \in Nat
            /\ Cardinality(lost) \in Nat /\ IsFiniteSet(lost)
        BY <1>7, <1>11, ReplyTypes DEF Outstanding, IInv, TypeOK
      <3>3. Cardinality(lost') = Cardinality(lost) + (IF r = Answer THEN 0 ELSE 1)
        <4>1. CASE r = Answer
          <5>1. lost' = lost
            BY <2>1, <4>1
          <5> QED BY <5>1, <4>1, <3>2
        <4>2. CASE r # Answer
          <5>1. lost' = lost \cup {r} /\ r \notin lost
            BY <2>1, <4>2, <1>9
          <5>2. Cardinality(lost \cup {r}) = Cardinality(lost) + 1
            BY <5>1, <3>2, FS_AddElement
          <5> QED BY <5>1, <5>2, <4>2
        <4> QED BY <4>1, <4>2
      <3>4. t # Nobody
        BY SubscriberAssumption DEF Threads
      <3>5. ASSUME err = "none"
            PROVE  Cardinality(lost') + 0 = stray + Outstanding'
        BY <3>1, <3>2, <3>3, <3>4, <3>5, <2>2 DEF IInv, LossesAreStrays
      <3> QED BY <3>2, <3>3, <3>5, <2>1, <1>11 DEF LossesAreStrays
    <2> QED BY <2>4, <2>7, <2>8 DEF IInv
  <1> QED BY <1>12, <1>13

-----------------------------------------------------------------------------
(* Each action keeps it *)

LEMMA ParseInv ==
  ASSUME IInv, NEW t \in Threads, Parse(t) \/ Got(t) PROVE IInv'
  <1>1. /\ at[t] \in {"parse", "got"}
        /\ UNCHANGED <<redis, calls, obuf, wire, stream, err, context, running, closer, down>>
    BY DEF Parse, Got
  <1>2. CASE Take(t)
    BY <1>1, <1>2, TakeInv
  <1>3. CASE err = "none" /\ UNCHANGED <<reader, mutex, hand, ghost>>
             /\ \E place \in {"write", "read"} : Go(t, place)
    <2>1. PICK place \in {"write", "read", "got"} : Go(t, place)
      BY <1>3
    <2>2. /\ obuf' \in Seq(Commands) /\ wire' \in Seq(Commands)
          /\ reader' \in Seq(Replies) /\ stream' \in Seq(Replies)
          /\ Pipe' = Pipe /\ Len(obuf') + Len(wire') = Len(obuf) + Len(wire)
      BY <1>1, <1>3 DEF IInv, TypeOK, Pipe
    <2> QED BY <1>1, <1>3, <2>1, <2>2, MoveInv
  <1>4. CASE err # "none" /\ Fail(t) /\ UNCHANGED reader
    BY <1>1, <1>4, FailInv
  <1> QED BY <1>2, <1>3, <1>4 DEF Parse, Got

LEMMA WriteInv ==
  ASSUME IInv, NEW t \in Threads, Write(t) PROVE IInv'
  <1>1. at[t] = "write" /\ UNCHANGED <<redis, calls, stream, reader, err, context, running,
                                       closer, down>>
    BY DEF Write
  <1>2. CASE /\ wire' = wire \o obuf /\ obuf' = <<>> /\ Go(t, "read")
             /\ UNCHANGED <<mutex, hand, ghost>>
    <2>1. wire \in Seq(Commands) /\ obuf \in Seq(Commands) /\ <<>> \in Seq(Commands)
      BY DEF IInv, TypeOK
    <2>2. wire' \in Seq(Commands) /\ Len(wire') = Len(wire) + Len(obuf)
      BY <1>2, <2>1, ConcatProperties
    <2>3. Len(obuf') = 0 /\ Len(obuf) \in Nat /\ Len(wire) \in Nat
      BY <1>2, <2>1, LenProperties
    <2>4. /\ obuf' \in Seq(Commands) /\ wire' \in Seq(Commands)
          /\ reader' \in Seq(Replies) /\ stream' \in Seq(Replies)
          /\ Pipe' = Pipe /\ Len(obuf') + Len(wire') = Len(obuf) + Len(wire)
      BY <1>1, <1>2, <2>1, <2>2, <2>3 DEF IInv, TypeOK, Pipe
    <2> QED BY <1>1, <1>2, <2>4, MoveInv
  <1>3. CASE err # "none" /\ Fail(t) /\ UNCHANGED <<wire, obuf>>
    BY <1>1, <1>3, FailInv
  <1> QED BY <1>2, <1>3 DEF Write

LEMMA ReadInv ==
  ASSUME IInv, NEW t \in Threads, Read(t) PROVE IInv'
  <1>1. at[t] = "read" /\ UNCHANGED <<redis, calls, obuf, wire, err, context, running,
                                      closer, down>>
    BY DEF Read
  <1>2. ASSUME Go(t, "got"), UNCHANGED <<mutex, hand, ghost>>,
               NEW n \in 1 .. Len(stream),
               reader' = reader \o SubSeq(stream, 1, n),
               stream' = SubSeq(stream, n + 1, Len(stream))
        PROVE  IInv'
    <2>1. stream \in Seq(Replies) /\ reader \in Seq(Replies) /\ Len(stream) \in Nat
      BY LenProperties DEF IInv, TypeOK
    <2>2. SubSeq(stream, 1, n) \in Seq(Replies)
          /\ SubSeq(stream, n + 1, Len(stream)) \in Seq(Replies)
      <3>1. \A i \in 1 .. Len(stream) : stream[i] \in Replies
        BY <2>1, ElementOfSeq
      <3>2. SubSeq(stream, 1, n) \in Seq(Replies)
        BY <3>1, <2>1, SubSeqProperties
      <3>3. SubSeq(stream, n + 1, Len(stream)) \in Seq(Replies)
        BY <3>1, <2>1, SubSeqProperties
      <3> QED BY <3>2, <3>3
    <2>3. reader' \in Seq(Replies) /\ stream' \in Seq(Replies)
      BY <1>2, <2>1, <2>2, ConcatProperties
    <2>4. Pipe' = Pipe
      <3>1. (reader \o SubSeq(stream, 1, n)) \o SubSeq(stream, n + 1, Len(stream))
              = reader \o stream
        BY <2>1, PipeRead
      <3> QED BY <3>1, <1>2 DEF Pipe
    <2>5. /\ obuf' \in Seq(Commands) /\ wire' \in Seq(Commands)
          /\ Len(obuf') + Len(wire') = Len(obuf) + Len(wire)
      BY <1>1 DEF IInv, TypeOK
    <2> QED BY <1>1, <1>2, <2>3, <2>4, <2>5, MoveInv
  <1>3. CASE err # "none" /\ Fail(t) /\ stream' = <<>> /\ UNCHANGED reader
    BY <1>1, <1>3, FailInv
  <1> QED BY <1>2, <1>3 DEF Read

\* A call counts as outstanding from its first step.
LEMMA CallKeeps ==
  ASSUME IInv, NEW t \in Callers, NEW command \in Commands, Call(t, command) PROVE IInv'
  <1>1. /\ calls' \in 0 .. MaxCalls
        /\ UNCHANGED <<redis, wire, stream, reader, err, context, running, hand, closer,
                       down, ghost>>
    BY SubscriberAssumption DEF Call, IInv, TypeOK
  <1>2. Pipe' = Pipe /\ Newest' = Newest
    BY <1>1 DEF Pipe, Newest, ghost
  <1>3. CASE UNCHANGED <<mutex, obuf, at>>
    <2>1. TypeOK'
      BY <1>1, <1>3 DEF IInv, TypeOK, redis, ghost
    <2>2. OrderInv'
      BY <1>1, <1>2, <1>3 DEF IInv, OrderInv, PipeInv, redis, ghost
    <2>3. LossesAreStrays'
      BY <1>1, <1>2, <1>3 DEF IInv, LossesAreStrays, Outstanding, ghost
    <2> QED BY <2>1, <2>2, <2>3 DEF IInv
  <1>4. CASE mutex' = t /\ obuf' = Append(obuf, command) /\ Go(t, "parse")
    <2>1. /\ at' = [at EXCEPT ![t] = "parse"] /\ mutex = Nobody
          /\ obuf \in Seq(Commands)
      BY <1>4 DEF Call, Go, IInv, TypeOK
    <2>2. obuf' \in Seq(Commands) /\ Len(obuf') = Len(obuf) + 1
      BY <1>4, <2>1, AppendProperties
    <2>3. /\ at' \in [Threads -> {"unborn", "never", "out", "check", "parse", "write", "read",
                                  "got", "callback", "ended"}]
          /\ \A j \in Callers : at'[j] # "out" <=> mutex' = j
          /\ at'[Loop] = at[Loop]
      BY <2>1, <1>4, SubscriberAssumption DEF IInv, TypeOK, Threads
    <2>4. TypeOK'
      BY <1>1, <2>2, <2>3 DEF IInv, TypeOK, redis, ghost
    <2>5. OrderInv'
      BY <1>1, <1>2, <2>3 DEF IInv, OrderInv, PipeInv, redis, ghost
    <2>6. Outstanding' = Outstanding + 1 /\ t # Nobody
      BY <1>1, <1>2, <2>2, ReplyTypes, SubscriberAssumption DEF Outstanding, IInv
    <2>7. Outstanding \in Nat /\ stray \in Nat /\ Cardinality(lost) \in Nat
      BY ReplyTypes DEF IInv, TypeOK
    <2>8. LossesAreStrays'
      BY <1>1, <1>4, <2>1, <2>6, <2>7 DEF IInv, LossesAreStrays, ghost
    <2> QED BY <2>4, <2>5, <2>8 DEF IInv
  <1> QED BY <1>3, <1>4 DEF Call

LEMMA ExecuteInv == ASSUME IInv, Execute PROVE IInv'
  <1>1. /\ wire # <<>> /\ wire' = Tail(wire) /\ stream' = Append(stream, Answer)
        /\ UNCHANGED <<sent, calls, obuf, reader, err, context, running, mutex, at,
                       hand, closer, down, ghost>>
    BY DEF Execute
  <1>2. /\ wire \in Seq(Commands) /\ stream \in Seq(Replies) /\ reader \in Seq(Replies)
        /\ Answer \in Replies
    BY ReplyTypes DEF IInv, TypeOK
  <1>3. /\ wire' \in Seq(Commands) /\ Len(wire') = Len(wire) - 1 /\ Head(wire) \in Commands
    BY <1>1, <1>2, HeadTailProperties
  <1>4. stream' \in Seq(Replies)
    BY <1>1, <1>2, AppendProperties
  <1>5. subs' \subseteq Channels
    <2>1. Head(wire).channel \in Channels
      BY <1>3 DEF Commands
    <2> QED BY <2>1 DEF Execute, IInv, TypeOK
  <1>6. TypeOK'
    BY <1>1, <1>3, <1>4, <1>5 DEF IInv, TypeOK, ghost
  <1>7. Pipe' = Append(Pipe, Answer) /\ Pipe \in Seq(Replies)
    BY <1>1, <1>2, PipeGrows, PipeType DEF Pipe, IInv
  <1>8. Newest' = Newest
    BY <1>1 DEF Newest, ghost
  <1>9. /\ \A n \in Replies : Older(n, Pipe) => Older(n, Pipe')
        /\ Ordered(Pipe')
        /\ \A i \in DOMAIN Pipe' : Pipe'[i] <= sent
    <2>1. sent \in Nat /\ Answer <= sent
      BY SubscriberAssumption DEF IInv, TypeOK, Answer
    <2> QED BY <1>2, <1>7, <2>1, OrderAppend DEF IInv, OrderInv, PipeInv
  <1>10. PipeInv(Pipe)'
    BY <1>1, <1>8, <1>9, ReplyTypes DEF IInv, OrderInv, PipeInv, ghost
  <1>11. OrderInv'
    BY <1>1, <1>8, <1>10 DEF IInv, OrderInv, ghost
  <1>12. Outstanding' = Outstanding
    <2>1. Answers(Pipe') = Answers(Pipe) + 1
      BY <1>2, <1>7, AnswersAppend
    <2> QED BY <1>1, <1>3, <2>1, ReplyTypes DEF Outstanding, IInv
  <1>13. LossesAreStrays'
    BY <1>1, <1>12 DEF IInv, LossesAreStrays, ghost
  <1> QED BY <1>6, <1>11, <1>13 DEF IInv

LEMMA SendInv == ASSUME IInv, Send PROVE IInv'
  <1>1. /\ sent' = sent + 1 /\ stream' = Append(stream, sent + 1) /\ sent < MaxMessages
        /\ UNCHANGED <<subs, calls, obuf, wire, reader, err, context, running, mutex, at,
                       hand, closer, down, ghost>>
    BY DEF Send
  <1> DEFINE x == sent + 1
  <1>2. /\ stream \in Seq(Replies) /\ reader \in Seq(Replies) /\ sent \in Nat
        /\ x \in Replies /\ x # Answer
    BY <1>1, SubscriberAssumption DEF IInv, TypeOK, Replies, Answer
  <1>3. stream' \in Seq(Replies)
    BY <1>1, <1>2, AppendProperties
  <1>4. sent' \in 0 .. MaxMessages
    BY <1>1, <1>2, SubscriberAssumption
  <1>5. TypeOK'
    BY <1>1, <1>3, <1>4 DEF IInv, TypeOK, ghost
  <1>6. Pipe' = Append(Pipe, x) /\ Pipe \in Seq(Replies)
    BY <1>1, <1>2, PipeGrows, PipeType DEF Pipe, IInv
  <1>7. Newest' = Newest
    BY <1>1 DEF Newest, ghost
  <1>8. \A i \in DOMAIN Pipe : Pipe[i] \in Nat /\ Pipe[i] <= sent
    BY <1>6, ElementOfSeq, LenProperties, ReplyTypes DEF IInv, OrderInv, PipeInv
  <1>9. \A n \in Replies : n <= sent => n < x
    BY <1>2, ReplyTypes DEF IInv
  <1> HIDE DEF x
  <1>10. /\ \A n \in Replies : Older(n, Pipe) /\ n <= sent => Older(n, Pipe')
         /\ Ordered(Pipe')
         /\ \A i \in DOMAIN Pipe' : Pipe'[i] <= sent'
    <2>1. /\ sent' \in Nat /\ x <= sent' /\ \A i \in DOMAIN Pipe : Pipe[i] <= sent'
          /\ \A i \in DOMAIN Pipe : Pipe[i] < x
      BY <1>1, <1>2, <1>8 DEF x
    <2> QED BY <1>2, <1>6, <1>9, <2>1, OrderAppend DEF IInv, OrderInv, PipeInv
  <1>11. PipeInv(Pipe)'
    BY <1>1, <1>7, <1>10, ReplyTypes DEF IInv, OrderInv, PipeInv, ghost
  <1>12. /\ hand <= sent' /\ Newest <= sent' /\ \A n \in lost : n <= sent'
    BY <1>1, <1>2, ReplyTypes DEF IInv, OrderInv
  <1>13. OrderInv'
    BY <1>1, <1>7, <1>11, <1>12 DEF IInv, OrderInv, ghost
  <1>14. Outstanding' = Outstanding
    <2>1. Answers(Pipe') = Answers(Pipe) + 0
      BY <1>2, <1>6, AnswersAppend
    <2> QED BY <1>1, <2>1, ReplyTypes DEF Outstanding, IInv
  <1>15. LossesAreStrays'
    BY <1>1, <1>14 DEF IInv, LossesAreStrays, ghost
  <1> QED BY <1>5, <1>13, <1>15 DEF IInv

\* The connection breaks, or two threads garble the buffer.
LEMMA BreakInv == ASSUME IInv, Break \/ Race PROVE IInv'
  <1>1. err' \in {"broken", "garbled"}
    BY DEF Break, Race
  <1>2. UNCHANGED <<sent, calls, obuf, context, running, mutex, at, hand, closer, down, ghost>>
    BY DEF Break, Race, redis
  <1>3. <<>> \in Seq(Replies) /\ <<>> \in Seq(Commands)
    OBVIOUS
  <1>4. /\ wire' \in Seq(Commands) /\ stream' \in Seq(Replies) /\ reader' \in Seq(Replies)
        /\ subs' \subseteq Channels
    BY <1>3 DEF Break, Race, IInv, TypeOK, redis
  <1>5. TypeOK'
    BY <1>1, <1>2, <1>4 DEF IInv, TypeOK, ghost
  <1>6. Pipe' \in {reader, stream} /\ Newest' = Newest
    <2>1. stream \in Seq(Replies) /\ reader \in Seq(Replies)
      BY DEF IInv, TypeOK
    <2>2. Break => Pipe' = reader \o <<>>
      BY DEF Break, Pipe
    <2>3. Race => Pipe' = <<>> \o stream
      BY DEF Race, Pipe
    <2> QED BY <1>2, <2>1, <2>2, <2>3, ConcatEmptySeq DEF Newest, ghost
  <1>7. PipeInv(reader) /\ PipeInv(stream)
    BY PipeParts DEF IInv, OrderInv
  <1>8. PipeInv(Pipe)'
    BY <1>2, <1>6, <1>7 DEF PipeInv, ghost
  <1>9. OrderInv'
    BY <1>2, <1>6, <1>8 DEF IInv, OrderInv, ghost
  <1> QED BY <1>1, <1>5, <1>9 DEF IInv, LossesAreStrays

LEMMA CallbackInv == ASSUME IInv, Callback PROVE IInv'
  <1>1. /\ at[Loop] = "callback" /\ given' = Append(given, hand) /\ hand' = Answer
        /\ at' = [at EXCEPT ![Loop] = "check"]
        /\ UNCHANGED <<redis, calls, ctx, context, running, mutex, closer, down, lost, stray>>
    BY DEF Callback, Go
  <1>2. given \in Seq(Replies) /\ hand \in Replies /\ Answer \in Replies
    BY ReplyTypes DEF IInv, TypeOK
  <1>3. given' \in Seq(Replies) /\ Len(given') = Len(given) + 1 /\ given'[Len(given) + 1] = hand
    BY <1>1, <1>2, AppendProperties
  <1>4. Newest' = hand
    <2>1. given' # <<>>
      BY <1>2, <1>3, EmptySeq, LenProperties
    <2> QED BY <1>3, <2>1 DEF Newest, Last
  <1>5. /\ at' \in [Threads -> {"unborn", "never", "out", "check", "parse", "write", "read",
                                "got", "callback", "ended"}]
        /\ \A j \in Callers : at'[j] = at[j]
        /\ at'[Loop] = "check"
    BY <1>1, SubscriberAssumption DEF IInv, TypeOK, Threads
  <1>6. TypeOK'
    BY <1>1, <1>2, <1>3, <1>5 DEF IInv, TypeOK, redis, ctx
  <1>7. Pipe' = Pipe /\ Pipe \in Seq(Replies)
    BY <1>1, PipeType DEF Pipe, ctx, IInv
  <1>8. Older(Answer, Pipe)
    BY <1>7, ElementOfSeq, LenProperties, SubscriberAssumption DEF Older, Answer, Replies
  <1>9. PipeInv(Pipe)'
    BY <1>1, <1>4, <1>7, <1>8 DEF IInv, OrderInv, PipeInv, redis
  <1>10. OrderInv'
    <2>1. hand \in Nat /\ Answer <= sent
      BY <1>2, ReplyTypes DEF IInv, TypeOK, Answer
    <2> QED BY <1>1, <1>4, <1>5, <1>9, <2>1 DEF IInv, OrderInv, redis
  <1>11. LossesAreStrays'
    BY <1>1, <1>7 DEF IInv, LossesAreStrays, Outstanding, ctx
  <1> QED BY <1>6, <1>10, <1>11 DEF IInv

\* Steps that leave the context's buffers, the calls and the ghosts alone.
LEMMA AsideInv ==
  ASSUME IInv,
         \/ \E connected \in BOOLEAN : startSubscriber(connected)
         \/ Check \/ CloseFree \/ CloseJoin
         \/ \E t \in Threads : UseFreed(t)
         \/ UNCHANGED vars
  PROVE  IInv'
  <1>1. UNCHANGED <<redis, calls, ctx, mutex, hand, ghost>>
    BY DEF startSubscriber, Check, CloseFree, CloseJoin, UseFreed, vars
  <1>2. /\ context' \in {"null", "live", "freed"} /\ running' \in BOOLEAN
        /\ closer' \in {"no", "freed", "joined"} /\ down' \in BOOLEAN
    BY DEF startSubscriber, Check, CloseFree, CloseJoin, UseFreed, vars, IInv, TypeOK
  <1>3. \/ at' = at
        \/ /\ at[Loop] # "callback"
           /\ \E place \in {"check", "never", "parse", "ended"} : at' = [at EXCEPT ![Loop] = place]
    BY DEF startSubscriber, Check, CloseFree, CloseJoin, UseFreed, vars, Go
  <1>4. /\ at' \in [Threads -> {"unborn", "never", "out", "check", "parse", "write", "read",
                                "got", "callback", "ended"}]
        /\ \A j \in Callers : at'[j] = at[j]
        /\ at'[Loop] = "callback" <=> at[Loop] = "callback"
    BY <1>3, SubscriberAssumption DEF IInv, TypeOK, Threads
  <1>5. TypeOK'
    BY <1>1, <1>2, <1>4 DEF IInv, TypeOK, redis, ctx, ghost
  <1>6. Pipe' = Pipe /\ Newest' = Newest
    BY <1>1 DEF Pipe, Newest, ctx, ghost
  <1>7. OrderInv'
    BY <1>1, <1>4, <1>6 DEF IInv, OrderInv, PipeInv, redis, ghost
  <1>8. LossesAreStrays'
    BY <1>1, <1>6 DEF IInv, LossesAreStrays, Outstanding, ctx, ghost
  <1> QED BY <1>5, <1>7, <1>8 DEF IInv

LEMMA NextInv == ASSUME IInv, [Next]_vars PROVE IInv'
  <1>1. ASSUME NEW t \in Threads, GetReply(t) PROVE IInv'
    BY <1>1, ParseInv, WriteInv, ReadInv DEF GetReply
  <1>2. CASE \E t \in Callers : \E command \in Commands : Call(t, command)
    BY <1>2, CallKeeps
  <1>3. CASE Execute \/ Send \/ Break \/ Race
    BY <1>3, ExecuteInv, SendInv, BreakInv
  <1>4. CASE LoopStep
    BY <1>1, <1>4, CallbackInv, AsideInv DEF LoopStep, Threads
  <1> QED BY <1>1, <1>2, <1>3, <1>4, AsideInv DEF Next, Threads

\* The inductive invariant.
THEOREM Invariance == Spec => []IInv
  BY InitInv, NextInv, PTL DEF Spec

\* Every variable keeps its type, and a call is under way exactly while its thread
\* holds _subscribeMutex (subscribe and unsubscribe, RedisMgr.cpp:344-368).
THEOREM TypeCorrect == Spec => []TypeOK
  BY Invariance, PTL DEF IInv

\* While the context is sound, the messages calls took for their answer and the call
\* that waits are as many as the answers the loop took or that are still to come
\* (redisGetReply in subscribe, unsubscribe and subscriberLoop).
THEOREM LossesArePaid == Spec => []LossesAreStrays
  BY Invariance, PTL DEF IInv

\* The callback gets the messages in the order sent, each once at most: the connection
\* implements the feed, whatever calls take in between (subscriberLoop).
THEOREM FeedIsImplemented == Spec => ImplementsFeed
  <1>1. Init => Feed!Init
    BY DEF Init, Feed!Init
  <1>2. IInv /\ [Next]_vars => [Feed!Next]_(Feed!vars)
    <2> SUFFICES ASSUME IInv, [Next]_vars PROVE [Feed!Next]_(Feed!vars)
      OBVIOUS
    <2>1. ASSUME sent' = sent, given' = given PROVE UNCHANGED Feed!vars
      BY <2>1 DEF Feed!vars
    <2>2. CASE Send
      <3>1. sent < MaxMessages /\ sent' = sent + 1 /\ given' = given
        BY <2>2 DEF Send, ghost
      <3> QED BY <3>1 DEF Feed!Next, Feed!Send
    <2>3. CASE Callback
      <3>1. /\ given' = Append(given, hand) /\ sent' = sent /\ at[Loop] = "callback"
            /\ hand \in Replies /\ given \in Seq(Replies)
        BY <2>3, ReplyTypes DEF Callback, redis, IInv, TypeOK
      <3>2. /\ given' # <<>> /\ Last(given') = hand
        BY <3>1, AppendProperties, LenProperties, EmptySeq DEF Last
      <3>3. Newest < hand /\ hand <= sent /\ Newest \in Nat /\ hand \in Nat /\ sent \in Nat
        BY <3>1, ReplyTypes, SubscriberAssumption DEF IInv, OrderInv, TypeOK
      <3>4. hand \in (Newest + 1) .. sent
        BY <3>3
      <3> QED BY <3>1, <3>2, <3>4 DEF Feed!Next, Feed!Deliver, Newest
    <2>4. CASE Execute \/ Break \/ Race \/ CloseFree \/ CloseJoin \/ Check
      BY <2>1, <2>4 DEF Execute, Break, Race, CloseFree, CloseJoin, Check, redis, ghost
    <2>5. ASSUME NEW t \in Threads, GetReply(t) PROVE sent' = sent /\ given' = given
      BY <2>5 DEF GetReply, Parse, Write, Read, Got, Take, Fail, Return, redis, ghost
    <2>6. ASSUME NEW t \in Threads,
                 UseFreed(t) \/ \E command \in Commands : Call(t, command)
          PROVE  sent' = sent /\ given' = given
      BY <2>6 DEF UseFreed, Call, redis, ghost
    <2>7. ASSUME NEW connected \in BOOLEAN, startSubscriber(connected)
          PROVE  sent' = sent /\ given' = given
      BY <2>7 DEF startSubscriber, redis, ghost
    <2>8. CASE UNCHANGED vars
      BY <2>1, <2>8 DEF vars, redis, ghost
    <2> QED BY <2>1, <2>2, <2>3, <2>4, <2>5, <2>6, <2>7, <2>8 DEF Next, LoopStep, Threads
  <1> QED BY <1>1, <1>2, Invariance, PTL DEF Spec, ImplementsFeed, Feed!Spec
-----------------------------------------------------------------------------
(* The fate of a message *)

\* What the callback was given is not newer than the last of it.
FateInv ==
  /\ OneFate
  /\ hand \notin lost
  /\ \A i \in DOMAIN given : given[i] <= Newest

LEMMA FateSame ==
  ASSUME FateInv, UNCHANGED <<given, lost, hand>>
  PROVE  FateInv'
  BY DEF FateInv, OneFate, Newest

\* A reply taken off the pipe is a message newer than the one in the loop's hand and
\* than all that were given, and not lost; or it is an answer.
LEMMA FateTake ==
  ASSUME IInv, FateInv, NEW t \in Threads, Take(t)
  PROVE  FateInv'
  <1>1. /\ reader \in Seq(Replies) /\ stream \in Seq(Replies) /\ reader # <<>>
        /\ Return(t, Head(reader))
    BY DEF IInv, TypeOK, Take
  <1>2. PICK r \in Replies : r = Pipe[1] /\ r = Head(reader)
    BY <1>1, PipeShrinks DEF Pipe
  <1>3. Pipe # <<>> /\ Pipe \in Seq(Replies)
    BY <1>1, PipeShrinks, PipeType DEF Pipe, IInv
  <1>4. \A n : Older(n, Pipe) => r = Answer \/ n < r
    BY <1>2, <1>3, OrderTail DEF IInv, OrderInv, PipeInv
  <1>5. r = Answer \/ (Newest < r /\ hand < r /\ r \notin lost)
    BY <1>4, ReplyTypes DEF IInv, OrderInv, PipeInv
  <1>6. Return(t, r) /\ given' = given /\ Newest' = Newest
    BY <1>1, <1>2 DEF Return, Newest
  <1>7. CASE t = Loop
    <2>1. lost' = lost /\ hand' = r
      BY <1>6, <1>7 DEF Return
    <2> QED BY <1>5, <1>6, <2>1 DEF FateInv, OneFate, IInv, OrderInv
  <1>8. CASE t # Loop
    <2>1. hand' = hand /\ lost' = lost \cup ({r} \ {Answer})
      BY <1>6, <1>8 DEF Return
    <2>2. CASE r = Answer
      BY <1>6, <2>1, <2>2 DEF FateInv, OneFate
    <2>3. CASE r # Answer
      <3>1. Newest < r /\ hand < r /\ Newest \in Int /\ r \in Int /\ hand \in Int
        BY <1>5, <2>3, ReplyTypes, SubscriberAssumption DEF IInv, OrderInv, TypeOK, Replies
      <3>2. hand # r
        BY <3>1
      <3>3. \A i \in DOMAIN given : given[i] # r
        <4> SUFFICES ASSUME NEW i \in DOMAIN given, given[i] = r PROVE FALSE
          OBVIOUS
        <4>1. r <= Newest
          BY DEF FateInv
        <4> QED BY <3>1, <4>1
      <3> QED BY <1>6, <2>1, <3>2, <3>3 DEF FateInv, OneFate
    <2> QED BY <2>2, <2>3
  <1> QED BY <1>7, <1>8

\* The callback is given what is newer than all it was given, and not lost.
LEMMA FateCallback == ASSUME IInv, FateInv, Callback PROVE FateInv'
  <1>1. /\ at[Loop] = "callback" /\ given' = Append(given, hand) /\ hand' = Answer
        /\ lost' = lost
    BY DEF Callback
  <1>2. given \in Seq(Replies) /\ hand \in Replies
    BY ReplyTypes DEF IInv, TypeOK
  <1>3. Replies \subseteq Int /\ hand \in Int /\ Newest \in Int /\ Newest < hand /\ Answer \notin lost
    BY <1>1, <1>2, ReplyTypes, SubscriberAssumption DEF IInv, OrderInv, Replies
  <1>4. /\ given' \in Seq(Replies) /\ Len(given') = Len(given) + 1
        /\ given'[Len(given) + 1] = hand
        /\ \A i \in 1 .. Len(given) : given'[i] = given[i]
        /\ DOMAIN given = 1 .. Len(given) /\ DOMAIN given' = 1 .. Len(given) + 1
        /\ Len(given) \in Nat
    BY <1>1, <1>2, AppendProperties, LenProperties
  <1>5. Newest' = hand
    <2>1. given' # <<>>
      BY <1>4, EmptySeq, LenProperties
    <2> QED BY <1>4, <2>1 DEF Newest, Last
  <1>6. \A i \in 1 .. Len(given) : given[i] \in Int /\ given[i] < hand /\ given[i] \notin lost
    <2> TAKE i \in 1 .. Len(given)
    <2>1. given[i] \in Int /\ given[i] <= Newest /\ given[i] \notin lost
      BY <1>2, <1>3, <1>4, ElementOfSeq DEF FateInv, OneFate
    <2> QED BY <1>3, <2>1
  <1>7. \A i, j \in DOMAIN given' : i < j => given'[i] < given'[j]
    <2> SUFFICES ASSUME NEW i \in 1 .. Len(given) + 1, NEW j \in 1 .. Len(given) + 1, i < j
                 PROVE  given'[i] < given'[j]
      BY <1>4
    <2>1. CASE j = Len(given) + 1
      BY <1>4, <1>6, <2>1
    <2>2. CASE j # Len(given) + 1
      <3>1. i \in 1 .. Len(given) /\ j \in 1 .. Len(given)
        BY <1>4, <2>2
      <3> QED BY <1>4, <3>1 DEF FateInv, OneFate
    <2> QED BY <2>1, <2>2
  <1>8. \A i \in DOMAIN given' : given'[i] \notin lost /\ given'[i] <= hand
    BY <1>3, <1>4, <1>6 DEF FateInv
  <1> QED BY <1>1, <1>3, <1>5, <1>7, <1>8 DEF FateInv, OneFate

LEMMA FateNext == ASSUME IInv, FateInv, [Next]_vars PROVE FateInv'
  <1>1. ASSUME NEW t \in Threads, GetReply(t), ~Take(t) PROVE UNCHANGED <<given, lost, hand>>
    BY <1>1 DEF GetReply, Parse, Write, Read, Got, Fail, redis, ghost
  <1>2. CASE Execute \/ Send \/ Break \/ Race \/ Check \/ CloseFree \/ CloseJoin \/ UNCHANGED vars
    BY <1>2, FateSame DEF Execute, Send, Break, Race, Check, CloseFree, CloseJoin, vars, redis, ghost
  <1>3. CASE \E connected \in BOOLEAN : startSubscriber(connected)
    BY <1>3, FateSame DEF startSubscriber, redis, ghost
  <1>4. ASSUME NEW t \in Threads, UseFreed(t) \/ \E command \in Commands : Call(t, command)
        PROVE  FateInv'
    BY <1>4, FateSame DEF UseFreed, Call, redis, ghost
  <1> QED BY <1>1, <1>2, <1>3, <1>4, FateSame, FateTake, FateCallback DEF Next, LoopStep, Threads

\* A message that Redis sent has one fate at most: it is given to the callback once and
\* in its order, or a call took it for its answer (subscribe, unsubscribe, subscriberLoop).
THEOREM EachHasOneFate == Spec => []OneFate
  <1>1. Init => FateInv
    BY DEF Init, FateInv, OneFate, Newest
  <1> QED BY <1>1, FateNext, Invariance, PTL DEF Spec, FateInv
=============================================================================
