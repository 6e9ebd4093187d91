---------------------------- MODULE FramingProofs ----------------------------
(***************************************************************************)
(* Theorems about Framing, for any messages of any number of pieces: what  *)
(* goes wrong has a cause, taking turns is safe, and the handlers are      *)
(* given a line with losses.                                               *)
(***************************************************************************)
EXTENDS Framing, SequenceTheorems, TLAPS

Piece == Messages \X (Nat \ {0})

Types ==
  /\ written \in [Messages -> Nat]
  /\ line \in Seq(Piece) /\ buffer \in Seq(Piece)
  /\ received \in Seq(Messages \cup {Noise})
  /\ {mixed, hasty, closed, retries, wrong, torn} \subseteq BOOLEAN
  /\ reader \in {"clean", "lost", "ended"}

(* A short message is written at once.                                     *)
WrittenPieces ==
  \A m \in Messages : /\ written[m] <= pieces[m]
                      /\ m \in Long \/ written[m] \in {0, pieces[m]}

(* A piece on its way has been written, and so has what is received.       *)
PiecesWritten ==
  /\ \A i \in 1..Len(Pending) : Pending[i][2] <= written[Pending[i][1]]
  /\ \A m \in Messages : Received(m) => written[m] > 0

(* The pieces of one message come in their order.                          *)
InOrder ==
  \A i, j \in 1..Len(Pending) :
    i < j /\ Pending[i][1] = Pending[j][1] => Pending[i][2] < Pending[j][2]

Base == Types /\ WrittenPieces /\ PiecesWritten /\ InOrder
-----------------------------------------------------------------------------
(* Peers that take turns have one message at most between them.            *)
Finished(m) == written[m] = pieces[m] /\ Received(m)

OnlyOnItsWay(m) ==
  /\ written[m] > 0 /\ ~Received(m)
  /\ Len(Pending) = written[m]
  /\ \A i \in 1..Len(Pending) : Pending[i] = <<m, i>>
  /\ \A x \in Messages \ {m} : written[x] > 0 => Finished(x)

Turns ==
  ~hasty /\ ~closed =>
    /\ reader = "clean" /\ ~wrong
    /\ \/ /\ Len(Pending) = 0
          /\ \A x \in Messages : written[x] > 0 => Finished(x)
       \/ \E m \in Messages : OnlyOnItsWay(m)
-----------------------------------------------------------------------------
(* A piece has the others of its message around it: those before it in     *)
(* any case, those behind it as far as the line goes.                      *)
Place(i, k) == i - Pending[i][2] + k

Framed(i) ==
  \A k \in 1..pieces[Pending[i][1]] :
    /\ Place(i, k) > 0
    /\ Place(i, k) <= Len(Pending) =>
         Pending[Place(i, k)] = <<Pending[i][1], k>>

(* Only a message that is still being written goes beyond the end of the   *)
(* line, and it does so with its last piece in the end.                    *)
Beyond(i) == Place(i, pieces[Pending[i][1]]) > Len(Pending)

InFrames ==
  ~mixed /\ ~torn =>
    /\ reader # "lost" /\ (~closed => reader = "clean" /\ ~wrong)
    /\ \A i \in 1..Len(Pending) :
         Framed(i) /\ (Beyond(i) => UnderWay(Pending[i][1]))
    /\ ~closed => \A m \in Messages : UnderWay(m) =>
         Len(Pending) > 0 /\ Pending[Len(Pending)] = <<m, written[m]>>

IInv == Base /\ Turns /\ InFrames
-----------------------------------------------------------------------------
(* Sequences put together, and cut in two.                                 *)
LEMMA Joined ==
  ASSUME NEW S, NEW s \in Seq(S), NEW t \in Seq(S)
  PROVE  /\ Len(s) \in Nat /\ Len(t) \in Nat
         /\ s \o t \in Seq(S) /\ Len(s \o t) = Len(s) + Len(t)
         /\ \A i \in 1..Len(s) : (s \o t)[i] = s[i]
         /\ \A i \in 1..Len(t) : (s \o t)[Len(s) + i] = t[i]
<1>1. Len(s) \in Nat /\ Len(t) \in Nat
  BY LenProperties
<1> QED
  BY <1>1, ConcatProperties

LEMMA Cut ==
  ASSUME NEW S, NEW s \in Seq(S), NEW n \in 0..Len(s)
  PROVE  /\ SubSeq(s, 1, n) \in Seq(S) /\ SubSeq(s, n + 1, Len(s)) \in Seq(S)
         /\ Len(SubSeq(s, 1, n)) = n
         /\ Len(SubSeq(s, n + 1, Len(s))) = Len(s) - n
         /\ SubSeq(s, 1, n) \o SubSeq(s, n + 1, Len(s)) = s
<1>1. Len(s) \in Nat /\ \A i \in 1..Len(s) : s[i] \in S
  BY LenProperties, ElementOfSeq
<1>2. /\ SubSeq(s, 1, n) \in Seq(S) /\ Len(SubSeq(s, 1, n)) = n
      /\ SubSeq(s, n + 1, Len(s)) \in Seq(S)
      /\ Len(SubSeq(s, n + 1, Len(s))) = Len(s) - n
  BY <1>1, SubSeqProperties
<1>3. SubSeq(s, 1, n) \o SubSeq(s, n + 1, Len(s)) = SubSeq(s, 1, Len(s))
  <2>1. /\ 1 \in 1..Len(s) + 1 /\ n \in 1 - 1..Len(s)
        /\ Len(s) \in n..Len(s)
    BY <1>1
  <2> QED
    BY <2>1, ConcatAdjacentSubSeq
<1>4. SubSeq(s, 1, Len(s)) = s
  BY SubSeqFull
<1> QED
  BY <1>2, <1>3, <1>4

(* What is on its way, and what writing and reading do to it.              *)
LEMMA PendingIs ==
  ASSUME Types
  PROVE  /\ Pending \in Seq(Piece) /\ Len(Pending) \in Nat
         /\ buffer \in Seq(Piece) /\ line \in Seq(Piece)
<1>1. buffer \in Seq(Piece) /\ line \in Seq(Piece)
  BY DEF Types
<1> QED
  BY <1>1, Joined DEF Pending

LEMMA PieceAt ==
  ASSUME Types, NEW i \in 1..Len(Pending)
  PROVE  /\ Pending[i] \in Piece
         /\ Pending[i][1] \in Messages /\ Pending[i][2] \in Nat \ {0}
         /\ Pending[i] = <<Pending[i][1], Pending[i][2]>>
         /\ pieces[Pending[i][1]] \in Nat \ {0}
<1>1. Pending[i] \in Piece
  BY PendingIs, ElementOfSeq
<1>2. Pending[i][1] \in Messages /\ Pending[i][2] \in Nat \ {0}
  BY <1>1 DEF Piece
<1>3. Pending[i] = <<Pending[i][1], Pending[i][2]>>
  BY <1>1 DEF Piece
<1> QED
  BY <1>1, <1>2, <1>3, FramingAssumption

LEMMA WriteGrows ==
  ASSUME Types, WrittenPieces, NEW m \in Messages, Write(m)
  PROVE  /\ Portion(m) \in Nat \ {0} /\ written[m] \in Nat
         /\ pieces[m] \in Nat \ {0}
         /\ written[m] + Portion(m) <= pieces[m]
         /\ written' = [written EXCEPT ![m] = written[m] + Portion(m)]
         /\ line' \in Seq(Piece)
         /\ Len(Pending') = Len(Pending) + Portion(m)
         /\ \A i \in 1..Len(Pending) : Pending'[i] = Pending[i]
         /\ \A i \in 1..Portion(m) :
              Pending'[Len(Pending) + i] = <<m, written[m] + i>>
<1> DEFINE new == [i \in 1..Portion(m) |-> <<m, written[m] + i>>]
<1>1. pieces[m] \in Nat \ {0} /\ written[m] \in Nat
  BY FramingAssumption DEF Types
<1>2. Portion(m) \in Nat \ {0} /\ written[m] + Portion(m) <= pieces[m]
  BY <1>1 DEF Portion, Write, WrittenPieces
<1>3. new \in Seq(Piece) /\ Len(new) = Portion(m)
  <2>1. \A i \in 1..Portion(m) : <<m, written[m] + i>> \in Piece
    BY <1>1, <1>2 DEF Piece
  <2>2. new \in [1..Portion(m) -> Piece]
    BY <2>1
  <2>3. new \in Seq(Piece)
    <3>1. \E n \in Nat : new \in [1..n -> Piece]
      BY <2>2, <1>2
    <3> HIDE DEF new
    <3> QED
      BY <3>1, SeqDef
  <2>4. DOMAIN new = 1..Portion(m)
    OBVIOUS
  <2> HIDE DEF new
  <2>5. Len(new) \in Nat /\ 1..Len(new) = 1..Portion(m)
    BY <2>3, <2>4, LenProperties
  <2> QED
    BY <2>3, <2>5, <1>2
<1>4. \A i \in 1..Portion(m) : new[i] = <<m, written[m] + i>>
  OBVIOUS
<1> HIDE DEF new
<1>5. line' = line \o new /\ buffer' = buffer
  BY DEF Write, input, new
<1>6. Pending' = Pending \o new
  BY <1>3, <1>5, PendingIs, ConcatAssociative DEF Pending
<1>7. /\ Len(Pending') = Len(Pending) + Portion(m)
      /\ \A i \in 1..Len(Pending) : Pending'[i] = Pending[i]
      /\ \A i \in 1..Portion(m) : Pending'[Len(Pending) + i] = new[i]
  <2>1. Pending \in Seq(Piece) /\ new \in Seq(Piece)
    BY <1>3, PendingIs
  <2>2. /\ Len(Pending \o new) = Len(Pending) + Len(new)
        /\ \A i \in 1..Len(Pending) : (Pending \o new)[i] = Pending[i]
        /\ \A i \in 1..Len(new) : (Pending \o new)[Len(Pending) + i] = new[i]
    BY <2>1, Joined
  <2> QED
    BY <2>2, <1>3, <1>6
<1>8. written' = [written EXCEPT ![m] = written[m] + Portion(m)]
  BY DEF Write
<1>9. line' \in Seq(Piece)
  BY <1>3, <1>5, PendingIs, Joined
<1> QED
  BY <1>1, <1>2, <1>4, <1>7, <1>8, <1>9

(* A read takes pieces from the front and leaves the rest on the line.     *)
Taken(k) == buffer \o SubSeq(line, 1, k)

LEMMA ReadTakes ==
  ASSUME Types, NEW k \in 1..Len(line), Consume(k)
  PROVE  /\ Taken(k) \in Seq(Piece) /\ line' \in Seq(Piece)
         /\ Taken(k) \o line' = Pending
         /\ Len(Taken(k)) \in 1..Len(Pending)
         /\ \A i \in 1..Len(Taken(k)) : Taken(k)[i] = Pending[i]
         /\ Len(line') = Len(Pending) - Len(Taken(k))
         /\ \A i \in 1..Len(line') : line'[i] = Pending[Len(Taken(k)) + i]
<1> DEFINE front == SubSeq(line, 1, k)
<1>1. Len(line) \in Nat /\ Len(buffer) \in Nat /\ k \in 0..Len(line) /\ k > 0
  BY PendingIs, LenProperties
<1>2. /\ front \in Seq(Piece) /\ Len(front) = k /\ line' \in Seq(Piece)
      /\ front \o line' = line
  BY <1>1, PendingIs, Cut DEF Consume
<1>3. Taken(k) = buffer \o front
  BY DEF Taken
<1> HIDE DEF front
<1>4. Taken(k) \in Seq(Piece) /\ Len(Taken(k)) = Len(buffer) + k
  BY <1>2, <1>3, PendingIs, Joined
<1>5. Taken(k) \o line' = Pending
  <2>1. ASSUME NEW r \in Seq(Piece)
        PROVE  (buffer \o front) \o r = buffer \o (front \o r)
    <3>1. buffer \in Seq(Piece) /\ front \in Seq(Piece)
      BY <1>2, PendingIs
    <3> QED
      BY <3>1, ConcatAssociative
  <2> QED
    BY <2>1, <1>2, <1>3 DEF Pending
<1> DEFINE t == Taken(k)
           l == line'
<1>6. t \in Seq(Piece) /\ l \in Seq(Piece) /\ t \o l = Pending
  BY <1>2, <1>4, <1>5
<1> HIDE DEF t, l
<1>7. /\ Len(t) \in Nat /\ Len(l) \in Nat /\ Len(Pending) = Len(t) + Len(l)
      /\ \A i \in 1..Len(t) : t[i] = Pending[i]
      /\ \A i \in 1..Len(l) : l[i] = Pending[Len(t) + i]
  BY <1>6, Joined
<1>8. Len(t) > 0
  BY <1>1, <1>4 DEF t
<1>9. /\ Len(t) \in 1..Len(Pending) /\ Len(l) = Len(Pending) - Len(t)
      /\ \A i \in 1..Len(t) : t[i] = Pending[i]
      /\ \A i \in 1..Len(l) : l[i] = Pending[Len(t) + i]
  BY <1>7, <1>8
<1> QED
  BY <1>6, <1>9 DEF t, l

LEMMA ReadCases ==
  ASSUME Types, NEW k \in 1..Len(line), Read(k)
  PROVE  /\ Consume(k)
         /\ UNCHANGED <<written, mixed, hasty, closed, retries>>
         /\ reader # "ended"
         /\ \/ Receive(Taken(k)) /\ buffer' = <<>>
            \/ NeedMore(Taken(k)) /\ buffer' = Taken(k)
            \/ Misread(Taken(k)) /\ buffer' = <<>>
<1>1. Receive(Taken(k)) \/ NeedMore(Taken(k)) \/ Misread(Taken(k))
  BY DEF Read, Taken
<1> QED
  BY <1>1 DEF Read, outgoing, Receive, NeedMore, Misread

(* Pieces that stay in the buffer are still on their way; the others are   *)
(* gone, and what is left moves up.                                        *)
LEMMA Kept ==
  ASSUME Types, NEW k \in 1..Len(line), Consume(k), buffer' = Taken(k)
  PROVE  Pending' = Pending
BY ReadTakes DEF Pending

LEMMA Dropped ==
  ASSUME Types, NEW k \in 1..Len(line), Consume(k), buffer' = <<>>
  PROVE  /\ Len(Taken(k)) \in 1..Len(Pending)
         /\ Len(Pending') = Len(Pending) - Len(Taken(k))
         /\ \A i \in 1..Len(Pending') :
              Pending'[i] = Pending[Len(Taken(k)) + i]
<1>1. <<>> \o line' = line'
  BY ReadTakes, ConcatEmptySeq
<1>2. Pending' = line'
  BY <1>1 DEF Pending
<1> QED
  BY <1>2, ReadTakes

LEMMA EndDrops ==
  ASSUME EndOfStream
  PROVE  /\ Pending' = <<>> /\ Len(Pending') = 0
         /\ UNCHANGED <<written, mixed, hasty, closed, received, torn>>
<1>1. <<>> \o <<>> = <<>>
  BY EmptySeq, ConcatEmptySeq
<1>2. Pending' = <<>>
  BY <1>1 DEF EndOfStream, Pending
<1>3. UNCHANGED <<written, mixed, hasty, closed, received, torn>>
  BY DEF EndOfStream, outgoing
<1> HIDE DEF Pending
<1> QED
  BY <1>2, <1>3, EmptySeq

(* The first piece of what is read is the first on its way.                *)
LEMMA FirstTaken ==
  ASSUME Types, NEW k \in 1..Len(line), Consume(k)
  PROVE  /\ Taken(k)[1] = Pending[1] /\ 1 \in 1..Len(Pending)
         /\ Taken(k)[1][1] \in Messages
         /\ Len(Pending) \in Nat
<1>1. Len(Taken(k)) \in 1..Len(Pending) /\ Taken(k)[1] = Pending[1]
  <2>1. /\ Len(Taken(k)) \in 1..Len(Pending)
        /\ \A i \in 1..Len(Taken(k)) : Taken(k)[i] = Pending[i]
    BY ReadTakes
  <2> QED
    BY <2>1, PendingIs
<1>2. 1 \in 1..Len(Pending)
  BY <1>1, PendingIs
<1> QED
  BY <1>1, <1>2, PieceAt, PendingIs

LEMMA ReceivedGrows ==
  ASSUME Types, NEW m \in Messages \cup {Noise},
         received' = Append(received, m)
  PROVE  /\ received' \in Seq(Messages \cup {Noise})
         /\ \A x \in Messages : Received(x)' <=> Received(x) \/ x = m
<1>1. received \in Seq(Messages \cup {Noise}) /\ Len(received) \in Nat
  BY LenProperties DEF Types
<1>2. /\ received' \in Seq(Messages \cup {Noise}) /\ Len(received') = Len(received) + 1
      /\ \A i \in 1..Len(received) : received'[i] = received[i]
      /\ received'[Len(received) + 1] = m
  BY <1>1, AppendProperties
<1> QED
  BY <1>1, <1>2 DEF Received
-----------------------------------------------------------------------------
LEMMA TypesInit == Init => Types
<1> SUFFICES ASSUME Init PROVE Types
  OBVIOUS
<1>1. <<>> \in Seq(Piece) /\ <<>> \in Seq(Messages \cup {Noise})
  BY EmptySeq
<1> QED
  BY <1>1 DEF Init, Types

LEMMA TypesStep == Types /\ WrittenPieces /\ [Next]_vars => Types'
<1> SUFFICES ASSUME Types, WrittenPieces, [Next]_vars PROVE Types'
  OBVIOUS
<1>0. <<>> \in Seq(Piece)
  BY EmptySeq
<1>1. ASSUME NEW m \in Messages, Write(m) PROVE Types'
  <2>1. written' \in [Messages -> Nat]
    <3>1. /\ written \in [Messages -> Nat] /\ written[m] + Portion(m) \in Nat
          /\ written' = [written EXCEPT ![m] = written[m] + Portion(m)]
      BY <1>1, WriteGrows DEF Types
    <3> QED
      BY <3>1
  <2>2. line' \in Seq(Piece)
    BY <1>1, WriteGrows
  <2> QED
    BY <1>1, <2>1, <2>2 DEF Types, Write, input
<1>2. CASE PeerCloses
  BY <1>2 DEF Types, PeerCloses, input
<1>3. ASSUME NEW k \in 1..Len(line), Read(k) PROVE Types'
  <2>1. /\ Taken(k) \in Seq(Piece) /\ line' \in Seq(Piece)
    BY <1>3, ReadCases, ReadTakes
  <2>2. UNCHANGED <<written, mixed, hasty, closed, retries>>
    BY <1>3, ReadCases
  <2>3. CASE Receive(Taken(k)) /\ buffer' = <<>>
    <3>1. received' \in Seq(Messages \cup {Noise})
      BY <1>3, <2>3, ReadCases, FirstTaken, ReceivedGrows DEF Receive
    <3> QED
      BY <1>0, <2>1, <2>2, <2>3, <3>1 DEF Types, Receive
  <2>4. CASE NeedMore(Taken(k)) /\ buffer' = Taken(k)
    BY <2>1, <2>2, <2>4 DEF Types, NeedMore
  <2>5. CASE Misread(Taken(k)) /\ buffer' = <<>>
    <3>1. received' \in Seq(Messages \cup {Noise})
      BY <2>5, ReceivedGrows DEF Misread, Types
    <3> QED
      BY <1>0, <2>1, <2>2, <2>5, <3>1 DEF Types, Misread, AfterFailure
  <2> QED
    BY <1>3, <2>3, <2>4, <2>5, ReadCases
<1>4. CASE EndOfStream
  BY <1>0, <1>4 DEF Types, EndOfStream, AfterFailure, outgoing
<1>5. CASE UNCHANGED vars
  BY <1>5 DEF Types, vars
<1> QED
  BY <1>1, <1>2, <1>3, <1>4, <1>5 DEF Next

LEMMA WrittenStep ==
  Types /\ WrittenPieces /\ [Next]_vars => WrittenPieces'
<1> SUFFICES ASSUME Types, WrittenPieces, [Next]_vars PROVE WrittenPieces'
  OBVIOUS
<1>1. ASSUME NEW m \in Messages, Write(m) PROVE WrittenPieces'
  <2>1. /\ written[m] + Portion(m) <= pieces[m] /\ written[m] < pieces[m]
        /\ written' = [written EXCEPT ![m] = written[m] + Portion(m)]
        /\ written[m] \in Nat /\ pieces[m] \in Nat
    BY <1>1, WriteGrows DEF Write
  <2>2. m \in Long \/ written[m] + Portion(m) = pieces[m]
    BY <2>1 DEF Portion, WrittenPieces
  <2>3. ASSUME NEW x \in Messages
        PROVE  /\ written'[x] <= pieces[x]
               /\ x \in Long \/ written'[x] \in {0, pieces[x]}
    <3>1. CASE x = m
      BY <2>1, <2>2, <3>1 DEF Types
    <3>2. CASE x # m
      BY <2>1, <3>2 DEF Types, WrittenPieces
    <3> QED
      BY <3>1, <3>2
  <2> QED
    BY <2>3 DEF WrittenPieces
<1>2. ASSUME UNCHANGED written PROVE WrittenPieces'
  BY <1>2 DEF WrittenPieces
<1>3. (\E m \in Messages : Write(m)) \/ UNCHANGED written
  BY DEF Next, PeerCloses, Read, EndOfStream, outgoing, vars
<1> QED
  BY <1>1, <1>2, <1>3

(* What is received in a read was first on its way.                        *)
LEMMA PiecesStep == Base /\ [Next]_vars => PiecesWritten'
<1> SUFFICES ASSUME Base, [Next]_vars PROVE PiecesWritten'
  OBVIOUS
<1> USE DEF Base
<1>1. ASSUME NEW m \in Messages, Write(m) PROVE PiecesWritten'
  <2>1. /\ Portion(m) \in Nat \ {0} /\ written[m] \in Nat
        /\ written' = [written EXCEPT ![m] = written[m] + Portion(m)]
        /\ Len(Pending') = Len(Pending) + Portion(m)
        /\ \A i \in 1..Len(Pending) : Pending'[i] = Pending[i]
        /\ \A i \in 1..Portion(m) :
             Pending'[Len(Pending) + i] = <<m, written[m] + i>>
    BY <1>1, WriteGrows
  <2>2. /\ \A x \in Messages : /\ written[x] \in Nat /\ written'[x] \in Nat
                                /\ written[x] <= written'[x]
        /\ written'[m] = written[m] + Portion(m)
    BY <2>1 DEF Types
  <2>3. ASSUME NEW i \in 1..Len(Pending')
        PROVE  Pending'[i][2] <= written'[Pending'[i][1]]
    <3>1. CASE i \in 1..Len(Pending)
      <4>1. /\ Pending[i][1] \in Messages /\ Pending[i][2] \in Nat
            /\ Pending[i][2] <= written[Pending[i][1]]
        BY <3>1, PieceAt DEF PiecesWritten
      <4>2. Pending'[i] = Pending[i]
        BY <2>1, <3>1
      <4> QED
        BY <2>2, <4>1, <4>2
    <3>2. CASE i \notin 1..Len(Pending)
      <4>1. PICK j \in 1..Portion(m) : i = Len(Pending) + j
        <5>1. i - Len(Pending) \in 1..Portion(m)
          BY <2>1, <3>2, PendingIs
        <5> QED
          BY <5>1, PendingIs
      <4>2. Pending'[i] = <<m, written[m] + j>>
        BY <2>1, <4>1
      <4> QED
        BY <2>1, <2>2, <4>2
    <3> QED
      BY <3>1, <3>2
  <2>4. ASSUME NEW x \in Messages, Received(x)' PROVE written'[x] > 0
    <3>1. Received(x)
      BY <1>1, <2>4 DEF Write, input, Received
    <3> QED
      BY <2>2, <3>1 DEF PiecesWritten
  <2> QED
    BY <2>3, <2>4 DEF PiecesWritten
<1>2. ASSUME UNCHANGED <<written, Pending, received>> PROVE PiecesWritten'
  BY <1>2 DEF PiecesWritten, Received
<1>3. ASSUME NEW k \in 1..Len(line), Read(k) PROVE PiecesWritten'
  <2>1. Consume(k) /\ UNCHANGED written
    BY <1>3, ReadCases
  <2>2. ASSUME buffer' = <<>>, NEW i \in 1..Len(Pending')
        PROVE  Pending'[i][2] <= written'[Pending'[i][1]]
    <3>1. /\ Len(Taken(k)) \in 1..Len(Pending)
          /\ Len(Pending') = Len(Pending) - Len(Taken(k))
          /\ Pending'[i] = Pending[Len(Taken(k)) + i]
      BY <2>1, <2>2, Dropped
    <3>2. Len(Taken(k)) + i \in 1..Len(Pending)
      BY <3>1, PendingIs
    <3> QED
      BY <2>1, <3>1, <3>2 DEF PiecesWritten
  <2>3. ASSUME NEW x \in Messages, Received(x)', UNCHANGED received
        PROVE  written'[x] > 0
    BY <2>1, <2>3 DEF Received, PiecesWritten
  <2>4. CASE Receive(Taken(k)) /\ buffer' = <<>>
    <3>1. ASSUME NEW x \in Messages, Received(x)' PROVE written'[x] > 0
      <4>1. /\ Taken(k)[1][1] \in Messages /\ Taken(k)[1] = Pending[1]
            /\ 1 \in 1..Len(Pending)
        BY <2>1, FirstTaken
      <4>2. Received(x) \/ x = Pending[1][1]
        BY <2>4, <3>1, <4>1, ReceivedGrows DEF Receive
      <4>3. ASSUME x = Pending[1][1] PROVE written[x] > 0
        <5>1. Pending[1][2] \in Nat \ {0} /\ Pending[1][2] <= written[x]
          BY <4>1, <4>3, PieceAt DEF PiecesWritten
        <5>2. written[x] \in Nat
          BY DEF Types
        <5> QED
          BY <5>1, <5>2
      <4> QED
        BY <2>1, <4>2, <4>3 DEF PiecesWritten
    <3> QED
      BY <2>2, <2>4, <3>1 DEF PiecesWritten
  <2>5. CASE NeedMore(Taken(k)) /\ buffer' = Taken(k)
    BY <1>2, <2>1, <2>5, Kept DEF NeedMore
  <2>6. CASE Misread(Taken(k)) /\ buffer' = <<>>
    <3>1. CASE UNCHANGED received
      BY <2>2, <2>3, <2>6, <3>1 DEF PiecesWritten
    <3>2. CASE received' = Append(received, Noise)
      <4>1. \A x \in Messages : Received(x)' => Received(x)
        BY <3>2, ReceivedGrows, FramingAssumption
      <4> QED
        BY <2>1, <2>2, <2>6, <4>1 DEF PiecesWritten
    <3> QED
      BY <2>6, <3>1, <3>2 DEF Misread
  <2> QED
    BY <1>3, <2>4, <2>5, <2>6, ReadCases
<1>4. CASE EndOfStream
  BY <1>4, EndDrops DEF PiecesWritten, Received
<1>5. CASE PeerCloses \/ UNCHANGED vars
  BY <1>2, <1>5 DEF PeerCloses, vars, input, Pending
<1> QED
  BY <1>1, <1>3, <1>4, <1>5 DEF Next

(* Pieces that come later stay behind, and those of a message being        *)
(* written are behind all its others.                                      *)
LEMMA OrderStep == Base /\ [Next]_vars => InOrder'
<1> SUFFICES ASSUME Base, [Next]_vars PROVE InOrder'
  OBVIOUS
<1> USE DEF Base
<1>1. ASSUME NEW m \in Messages, Write(m) PROVE InOrder'
  <2>1. /\ Portion(m) \in Nat \ {0} /\ written[m] \in Nat
        /\ Len(Pending') = Len(Pending) + Portion(m)
        /\ \A i \in 1..Len(Pending) : Pending'[i] = Pending[i]
        /\ \A i \in 1..Portion(m) :
             Pending'[Len(Pending) + i] = <<m, written[m] + i>>
    BY <1>1, WriteGrows
  <2> SUFFICES ASSUME NEW i \in 1..Len(Pending'), NEW j \in 1..Len(Pending'),
                      i < j, Pending'[i][1] = Pending'[j][1]
               PROVE  Pending'[i][2] < Pending'[j][2]
    BY DEF InOrder
  <2>2. Len(Pending) \in Nat
    BY PendingIs
  <2>3. CASE j \in 1..Len(Pending)
    <3>1. i \in 1..Len(Pending)
      BY <2>1, <2>2, <2>3
    <3>2. Pending'[i] = Pending[i] /\ Pending'[j] = Pending[j]
      BY <2>1, <2>3, <3>1
    <3> QED
      BY <2>3, <3>1, <3>2 DEF InOrder
  <2>4. CASE j \notin 1..Len(Pending)
    <3>1. j - Len(Pending) \in 1..Portion(m)
      BY <2>1, <2>2, <2>4
    <3>2. Pending'[j] = <<m, written[m] + (j - Len(Pending))>>
      <4>1. Pending'[Len(Pending) + (j - Len(Pending))]
              = <<m, written[m] + (j - Len(Pending))>>
        BY <2>1, <3>1
      <4> QED
        BY <4>1, <2>2
    <3>3. CASE i \in 1..Len(Pending)
      <4>1. /\ Pending'[i] = Pending[i] /\ Pending[i][1] = m
            /\ Pending[i][2] \in Nat
        BY <2>1, <3>2, <3>3, PieceAt
      <4>2. Pending[i][2] <= written[m]
        BY <3>3, <4>1 DEF PiecesWritten
      <4> QED
        BY <2>1, <2>2, <3>1, <3>2, <4>1, <4>2
    <3>4. CASE i \notin 1..Len(Pending)
      <4>1. i - Len(Pending) \in 1..Portion(m)
        BY <2>1, <2>2, <3>4
      <4>2. Pending'[Len(Pending) + (i - Len(Pending))]
              = <<m, written[m] + (i - Len(Pending))>>
        BY <2>1, <4>1
      <4>3. Pending'[i] = <<m, written[m] + (i - Len(Pending))>>
        BY <4>2, <2>2
      <4> QED
        BY <2>1, <2>2, <3>1, <3>2, <4>1, <4>3
    <3> QED
      BY <3>3, <3>4
  <2> QED
    BY <2>3, <2>4
<1>2. ASSUME UNCHANGED Pending PROVE InOrder'
  BY <1>2 DEF InOrder
<1>3. ASSUME NEW k \in 1..Len(line), Read(k) PROVE InOrder'
  <2>1. Consume(k)
    BY <1>3, ReadCases
  <2>2. ASSUME buffer' = <<>> PROVE InOrder'
    <3>1. /\ Len(Taken(k)) \in 1..Len(Pending)
          /\ Len(Pending') = Len(Pending) - Len(Taken(k))
          /\ \A i \in 1..Len(Pending') :
               Pending'[i] = Pending[Len(Taken(k)) + i]
      BY <2>1, <2>2, Dropped
    <3> SUFFICES ASSUME NEW i \in 1..Len(Pending'), NEW j \in 1..Len(Pending'),
                        i < j, Pending'[i][1] = Pending'[j][1]
                 PROVE  Pending'[i][2] < Pending'[j][2]
      BY DEF InOrder
    <3>2. /\ Len(Taken(k)) + i \in 1..Len(Pending)
          /\ Len(Taken(k)) + j \in 1..Len(Pending)
          /\ Len(Taken(k)) + i < Len(Taken(k)) + j
      BY <3>1, PendingIs
    <3>3. /\ Pending'[i] = Pending[Len(Taken(k)) + i]
          /\ Pending'[j] = Pending[Len(Taken(k)) + j]
      BY <3>1
    <3> QED
      BY <3>2, <3>3 DEF InOrder
  <2> QED
    BY <1>2, <1>3, <2>1, <2>2, ReadCases, Kept
<1>4. CASE EndOfStream
  BY <1>4, EndDrops DEF InOrder
<1>5. CASE PeerCloses \/ UNCHANGED vars
  BY <1>2, <1>5 DEF PeerCloses, vars, input, Pending
<1> QED
  BY <1>1, <1>3, <1>4, <1>5 DEF Next
-----------------------------------------------------------------------------
(* The line with losses that the handlers see.                             *)
Marked == Messages \cup {Noise}

LEMMA MarksAre ==
  ASSUME NEW p \in Seq(Piece)
  PROVE  /\ Marks(p) \in Seq(Marked) /\ Len(Marks(p)) = Len(p)
         /\ \A i \in 1..Len(p) :
              Marks(p)[i] = IF p[i][2] = 1 THEN p[i][1] ELSE Noise
<1>1. Len(p) \in Nat /\ \A i \in 1..Len(p) : p[i] \in Piece
  BY LenProperties, ElementOfSeq
<1>2. \A i \in 1..Len(p) : p[i][1] \in Messages
  BY <1>1 DEF Piece
<1>3. Marks(p) \in [1..Len(p) -> Marked]
  BY <1>2 DEF Marks, Marked
<1>4. DOMAIN Marks(p) = 1..Len(p)
  BY DEF Marks
<1>5. \A i \in 1..Len(p) :
        Marks(p)[i] = IF p[i][2] = 1 THEN p[i][1] ELSE Noise
  BY DEF Marks
<1>6. Marks(p) \in Seq(Marked)
  BY <1>1, <1>3, SeqDef
<1>7. Len(Marks(p)) = Len(p)
  BY <1>1, <1>4, <1>6, LenProperties
<1> QED
  BY <1>5, <1>6, <1>7

LEMMA BurstIs ==
  ASSUME NEW x \in Marked, NEW n \in Nat
  PROVE  /\ L!Burst(x, n) \in Seq(Marked) /\ Len(L!Burst(x, n)) = n
         /\ \A i \in 1..n : L!Burst(x, n)[i] = IF i = 1 THEN x ELSE Noise
<1>1. L!Burst(x, n) \in [1..n -> Marked]
  BY DEF L!Burst, Marked
<1>2. DOMAIN L!Burst(x, n) = 1..n
  BY DEF L!Burst
<1>3. \A i \in 1..n : L!Burst(x, n)[i] = IF i = 1 THEN x ELSE Noise
  BY DEF L!Burst
<1>4. L!Burst(x, n) \in Seq(Marked)
  BY <1>1, SeqDef
<1>5. Len(L!Burst(x, n)) = n
  BY <1>2, <1>4, LenProperties
<1> QED
  BY <1>3, <1>4, <1>5

LEMMA RestIs ==
  ASSUME NEW S, NEW s \in Seq(S), NEW n \in 0..Len(s)
  PROVE  /\ L!Rest(s, n) \in Seq(S) /\ Len(L!Rest(s, n)) = Len(s) - n
         /\ \A i \in 1..Len(s) - n : L!Rest(s, n)[i] = s[n + i]
<1>1. Len(s) \in Nat /\ \A i \in 1..Len(s) : s[i] \in S
  BY LenProperties, ElementOfSeq
<1>2. /\ n + 1 \in Int /\ Len(s) \in Int
      /\ \A i \in n + 1..Len(s) : s[i] \in S
      /\ Len(s) - (n + 1) + 1 = Len(s) - n
  BY <1>1
<1>3. \A i \in 1..Len(s) - n : SubSeq(s, n + 1, Len(s))[i] = s[n + 1 + i - 1]
  BY <1>2, SubSeqProperties
<1>4. ASSUME NEW i \in 1..Len(s) - n PROVE n + 1 + i - 1 = n + i
  BY <1>1, <1>4
<1> QED
  BY <1>3, <1>4, Cut DEF L!Rest

LEMMA WritePuts ==
  ASSUME Types, WrittenPieces, NEW m \in Messages, Write(m)
  PROVE  \E x \in Messages \cup {Noise} : L!Put(x)
<1> DEFINE n == Portion(m)
           x == IF written[m] = 0 THEN m ELSE Noise
           b == L!Burst(x, n)
<1>1. /\ n \in Nat \ {0} /\ written[m] \in Nat /\ line' \in Seq(Piece)
      /\ Len(Pending') = Len(Pending) + n
      /\ \A i \in 1..Len(Pending) : Pending'[i] = Pending[i]
      /\ \A i \in 1..n : Pending'[Len(Pending) + i] = <<m, written[m] + i>>
  BY WriteGrows
<1>2. Pending \in Seq(Piece) /\ Pending' \in Seq(Piece) /\ Len(Pending) \in Nat
  <2>1. buffer' \in Seq(Piece)
    BY PendingIs DEF Write, input
  <2> QED
    BY <1>1, <2>1, PendingIs, Joined DEF Pending
<1>3. n \in {1} \cup {pieces[y] : y \in Messages}
  BY DEF Portion
<1>4. x \in Marked
  BY DEF Marked
<1>5. /\ Len(Marks(Pending')) = Len(Marks(Pending) \o b)
      /\ Marks(Pending) \o b \in Seq(Marked)
      /\ Len(Marks(Pending)) = Len(Pending)
  <2>1. Len(b) = n /\ b \in Seq(Marked)
    BY <1>1, <1>4, BurstIs
  <2>2. Marks(Pending) \in Seq(Marked) /\ Len(Marks(Pending)) = Len(Pending)
    BY <1>2, MarksAre
  <2>3. Len(Marks(Pending')) = Len(Pending')
    BY <1>2, MarksAre
  <2>4. /\ Marks(Pending) \o b \in Seq(Marked)
        /\ Len(Marks(Pending) \o b) = Len(Marks(Pending)) + Len(b)
    <3> HIDE DEF b
    <3> QED
      BY <2>1, <2>2, Joined
  <2> QED
    BY <1>1, <2>1, <2>2, <2>3, <2>4
<1>6. ASSUME NEW i \in 1..Len(Marks(Pending'))
      PROVE  Marks(Pending')[i] = (Marks(Pending) \o b)[i]
  <2>1. /\ Len(Marks(Pending')) = Len(Pending')
        /\ Marks(Pending')[i]
             = IF Pending'[i][2] = 1 THEN Pending'[i][1] ELSE Noise
    BY <1>2, <1>6, MarksAre
  <2>2. Marks(Pending) \in Seq(Marked) /\ b \in Seq(Marked) /\ Len(b) = n
    BY <1>1, <1>2, <1>4, MarksAre, BurstIs
  <2>3. CASE i \in 1..Len(Pending)
    <3>1. (Marks(Pending) \o b)[i] = Marks(Pending)[i]
      <4> HIDE DEF b
      <4> QED
        BY <1>5, <2>2, <2>3, Joined
    <3>2. Marks(Pending)[i] = IF Pending[i][2] = 1 THEN Pending[i][1] ELSE Noise
      BY <1>2, <2>3, MarksAre
    <3> QED
      BY <1>1, <2>1, <2>3, <3>1, <3>2
  <2>4. CASE i \notin 1..Len(Pending)
    <3>1. PICK j \in 1..n : i = Len(Pending) + j
      <4>1. /\ i - Len(Pending) \in 1..n
            /\ i = Len(Pending) + (i - Len(Pending))
        BY <1>1, <1>2, <2>1, <2>4
      <4> HIDE DEF n
      <4> QED
        BY <4>1
    <3>2. (Marks(Pending) \o b)[i] = b[j]
      <4>1. \A r \in 1..Len(b) :
              (Marks(Pending) \o b)[Len(Marks(Pending)) + r] = b[r]
        <5> HIDE DEF b
        <5> QED
          BY <2>2, Joined
      <4> QED
        BY <1>5, <2>2, <3>1, <4>1
    <3>3. b[j] = IF j = 1 THEN x ELSE Noise
      BY <1>1, <1>4, BurstIs
    <3>4. Pending'[i] = <<m, written[m] + j>>
      BY <1>1, <3>1
    <3>5. written[m] + j = 1 <=> written[m] = 0 /\ j = 1
      BY <1>1
    <3>6. Marks(Pending')[i] = IF written[m] + j = 1 THEN m ELSE Noise
      <4>1. Pending'[i][2] = written[m] + j /\ Pending'[i][1] = m
        BY <3>4
      <4> QED
        BY <2>1, <4>1
    <3>7. b[j] = IF written[m] = 0 /\ j = 1 THEN m ELSE Noise
      BY <3>3
    <3> QED
      BY <3>2, <3>5, <3>6, <3>7
  <2> QED
    BY <2>3, <2>4
<1>7. Marks(Pending') = Marks(Pending) \o b
  <2>1. Marks(Pending') \in Seq(Marked)
    BY <1>2, MarksAre
  <2> HIDE DEF b
  <2> QED
    BY <1>5, <1>6, <2>1, SeqEqual
<1>8. UNCHANGED received /\ L!MayHarm
  BY DEF Write, input, L!MayHarm, Types
<1> QED
  BY <1>3, <1>4, <1>7, <1>8 DEF L!Put, Marked

LEMMA DropLoses ==
  ASSUME Types, Types', NEW n \in 1..Len(Pending),
         Len(Pending') = Len(Pending) - n,
         \A i \in 1..Len(Pending') : Pending'[i] = Pending[n + i]
  PROVE  /\ Marks(Pending') = L!Rest(Marks(Pending), n)
         /\ n \in 1..Len(Marks(Pending)) /\ Marks(Pending) # <<>>
<1>1. Pending \in Seq(Piece) /\ Len(Pending) \in Nat
  BY PendingIs
<1>2. Pending' \in Seq(Piece)
  BY Joined DEF Types, Pending
<1>3. /\ Marks(Pending) \in Seq(Marked) /\ Len(Marks(Pending)) = Len(Pending)
      /\ \A i \in 1..Len(Pending) : Marks(Pending)[i]
           = IF Pending[i][2] = 1 THEN Pending[i][1] ELSE Noise
  BY <1>1, MarksAre
<1>4. /\ Marks(Pending') \in Seq(Marked)
      /\ Len(Marks(Pending')) = Len(Pending')
      /\ \A i \in 1..Len(Pending') : Marks(Pending')[i]
           = IF Pending'[i][2] = 1 THEN Pending'[i][1] ELSE Noise
  BY <1>2, MarksAre
<1>5. n \in 0..Len(Marks(Pending))
  BY <1>1, <1>3
<1>6. /\ L!Rest(Marks(Pending), n) \in Seq(Marked)
      /\ Len(L!Rest(Marks(Pending), n)) = Len(Marks(Pending)) - n
      /\ \A i \in 1..Len(Marks(Pending)) - n :
           L!Rest(Marks(Pending), n)[i] = Marks(Pending)[n + i]
  BY <1>3, <1>5, RestIs
<1>7. ASSUME NEW i \in 1..Len(Marks(Pending'))
      PROVE  Marks(Pending')[i] = L!Rest(Marks(Pending), n)[i]
  <2>1. i \in 1..Len(Pending') /\ n + i \in 1..Len(Pending)
    BY <1>1, <1>4
  <2> QED
    BY <1>3, <1>4, <1>6, <2>1
<1>8. Marks(Pending') = L!Rest(Marks(Pending), n)
  BY <1>3, <1>4, <1>6, <1>7, SeqEqual
<1> QED
  BY <1>1, <1>3, <1>8, EmptySeq

LEMMA WrittenInit == Init => WrittenPieces
<1> SUFFICES ASSUME Init PROVE WrittenPieces
  OBVIOUS
<1>1. ASSUME NEW m \in Messages
      PROVE  written[m] <= pieces[m] /\ written[m] = 0
  <2>1. written[m] = 0 /\ pieces[m] \in Nat
    BY FramingAssumption DEF Init
  <2> QED
    BY <2>1
<1> QED
  BY <1>1 DEF WrittenPieces
-----------------------------------------------------------------------------
(* Taking turns.                                                           *)
LEMMA TurnsStep == Base /\ Turns /\ [Next]_vars => Turns'
<1> SUFFICES ASSUME Base, Turns, [Next]_vars, ~hasty', ~closed'
             PROVE  /\ reader' = "clean" /\ ~wrong'
                    /\ \/ /\ Len(Pending') = 0
                          /\ \A x \in Messages : written'[x] > 0 => Finished(x)'
                       \/ \E m \in Messages : OnlyOnItsWay(m)'
  BY DEF Turns
<1> USE DEF Base
<1>1. ASSUME NEW m \in Messages, Write(m)
      PROVE  reader' = "clean" /\ ~wrong' /\ OnlyOnItsWay(m)'
  <2>1. /\ Portion(m) \in Nat \ {0} /\ written[m] \in Nat
        /\ written' = [written EXCEPT ![m] = written[m] + Portion(m)]
        /\ Len(Pending') = Len(Pending) + Portion(m)
        /\ \A i \in 1..Len(Pending) : Pending'[i] = Pending[i]
        /\ \A i \in 1..Portion(m) :
             Pending'[Len(Pending) + i] = <<m, written[m] + i>>
    BY <1>1, WriteGrows
  <2>2. /\ ~hasty /\ ~closed /\ written[m] < pieces[m]
        /\ \A x \in Messages \ {m} : written[x] > 0 => Received(x)
        /\ UNCHANGED <<received, reader, wrong>>
    BY <1>1 DEF Write, input
  <2>3. ASSUME NEW x \in Messages, Finished(x) PROVE x # m /\ Finished(x)'
    BY <2>1, <2>2, <2>3 DEF Finished, Received, Types
  <2>4. /\ written'[m] = written[m] + Portion(m)
        /\ \A x \in Messages \ {m} : written'[x] = written[x]
    BY <2>1 DEF Types
  <2>5. /\ ~Received(m) /\ Len(Pending) = written[m]
        /\ \A i \in 1..Len(Pending) : Pending[i] = <<m, i>>
        /\ \A x \in Messages \ {m} : written[x] > 0 => Finished(x)
    <3>1. CASE /\ Len(Pending) = 0
               /\ \A x \in Messages : written[x] > 0 => Finished(x)
      <4>1. written[m] = 0
        BY <2>1, <2>3, <3>1
      <4>2. ~Received(m)
        BY <4>1 DEF PiecesWritten
      <4> QED
        BY <3>1, <4>1, <4>2
    <3>2. CASE \E y \in Messages : OnlyOnItsWay(y)
      <4>1. PICK y \in Messages : OnlyOnItsWay(y)
        BY <3>2
      <4>2. y = m
        BY <2>2, <4>1 DEF OnlyOnItsWay
      <4> QED
        BY <4>1, <4>2 DEF OnlyOnItsWay
    <3> QED
      BY <2>2, <3>1, <3>2 DEF Turns
  <2>6. /\ Len(Pending') = written'[m]
        /\ \A i \in 1..Len(Pending') : Pending'[i] = <<m, i>>
    <3>1. Len(Pending') = written'[m]
      BY <2>1, <2>4, <2>5
    <3>2. ASSUME NEW i \in 1..Len(Pending') PROVE Pending'[i] = <<m, i>>
      <4>1. CASE i \in 1..Len(Pending)
        BY <2>1, <2>5, <4>1
      <4>2. CASE i \notin 1..Len(Pending)
        <5>1. i - written[m] \in 1..Portion(m)
          BY <2>1, <2>5, <4>2
        <5>2. Pending'[Len(Pending) + (i - written[m])]
                = <<m, written[m] + (i - written[m])>>
          BY <2>1, <5>1
        <5>3. /\ Len(Pending) + (i - written[m]) = i
              /\ written[m] + (i - written[m]) = i
          BY <2>1, <2>5
        <5> QED
          BY <5>2, <5>3
      <4> QED
        BY <4>1, <4>2
    <3> QED
      BY <3>1, <3>2
  <2>7. written'[m] > 0 /\ ~Received(m)'
    BY <2>1, <2>2, <2>4, <2>5 DEF Received
  <2>8. \A x \in Messages \ {m} : written'[x] > 0 => Finished(x)'
    BY <2>3, <2>4, <2>5
  <2>9. reader' = "clean" /\ ~wrong'
    BY <2>2 DEF Turns
  <2> QED
    BY <2>6, <2>7, <2>8, <2>9 DEF OnlyOnItsWay
<1>2. ASSUME ~hasty, ~closed,
             UNCHANGED <<written, Pending, received, reader, wrong>>
      PROVE  /\ reader' = "clean" /\ ~wrong'
             /\ \/ /\ Len(Pending') = 0
                   /\ \A x \in Messages : written'[x] > 0 => Finished(x)'
                \/ \E m \in Messages : OnlyOnItsWay(m)'
  BY <1>2 DEF Turns, Finished, OnlyOnItsWay, Received
<1>3. ASSUME NEW k \in 1..Len(line), Read(k)
      PROVE  /\ reader' = "clean" /\ ~wrong'
             /\ \/ /\ Len(Pending') = 0
                   /\ \A x \in Messages : written'[x] > 0 => Finished(x)'
                \/ \E m \in Messages : OnlyOnItsWay(m)'
  <2>1. Consume(k) /\ UNCHANGED <<written, hasty, closed>>
    BY <1>3, ReadCases
  <2>2. /\ 1 \in 1..Len(Pending) /\ Len(Pending) \in Nat
        /\ Taken(k)[1] = Pending[1] /\ Len(Taken(k)) \in 1..Len(Pending)
        /\ \A i \in 1..Len(Taken(k)) : Taken(k)[i] = Pending[i]
    BY <2>1, FirstTaken, ReadTakes
  <2>3. ~hasty /\ ~closed /\ reader = "clean" /\ ~wrong
    BY <2>1 DEF Turns
  <2>4. PICK m \in Messages : OnlyOnItsWay(m)
    BY <2>2, <2>3 DEF Turns
  <2>5. /\ Taken(k)[1][1] = m /\ InFrame(Taken(k))
    <3>1. Taken(k)[1] = <<m, 1>>
      BY <2>2, <2>4 DEF OnlyOnItsWay
    <3>2. \A i \in 1..Len(Taken(k)) : Taken(k)[i] = <<m, i>>
      BY <2>2, <2>4 DEF OnlyOnItsWay
    <3> QED
      BY <3>1, <3>2 DEF InFrame
  <2>6. CASE Receive(Taken(k)) /\ buffer' = <<>>
    <3>1. /\ Len(Taken(k)) >= pieces[m] /\ received' = Append(received, m)
          /\ UNCHANGED <<reader, wrong>>
      BY <2>5, <2>6 DEF Receive, Complete
    <3>2. /\ Len(Pending) = written[m] /\ written[m] <= pieces[m]
          /\ pieces[m] \in Nat
      BY <2>4, FramingAssumption DEF OnlyOnItsWay, WrittenPieces
    <3>3. Len(Pending') = Len(Pending) - Len(Taken(k))
      BY <2>1, <2>6, Dropped
    <3>4. Len(Pending') = 0 /\ written[m] = pieces[m]
      BY <2>2, <3>1, <3>2, <3>3
    <3>5. \A x \in Messages : Received(x)' <=> Received(x) \/ x = m
      BY <3>1, ReceivedGrows
    <3>6. \A x \in Messages : written'[x] > 0 => Finished(x)'
      BY <2>1, <2>4, <3>4, <3>5 DEF Finished, OnlyOnItsWay
    <3> QED
      BY <2>3, <3>1, <3>4, <3>6
  <2>7. CASE NeedMore(Taken(k)) /\ buffer' = Taken(k)
    BY <1>2, <2>1, <2>3, <2>7, Kept DEF NeedMore
  <2>8. CASE Misread(Taken(k)) /\ buffer' = <<>>
    BY <2>3, <2>5, <2>8 DEF Misread
  <2> QED
    BY <1>3, <2>6, <2>7, <2>8, ReadCases
<1>4. CASE EndOfStream
  BY <1>4, EndDrops DEF EndOfStream
<1>5. CASE PeerCloses
  BY <1>5 DEF PeerCloses
<1>6. CASE UNCHANGED vars
  BY <1>2, <1>6 DEF vars, Pending
<1> QED
  BY <1>1, <1>3, <1>4, <1>5, <1>6 DEF Next
-----------------------------------------------------------------------------
(* Messages in frames.                                                     *)
LEMMA Numbers ==
  ASSUME Types, WrittenPieces, PiecesWritten, NEW i \in 1..Len(Pending)
  PROVE  /\ Len(Pending) \in Nat /\ Pending[i][1] \in Messages
         /\ Pending[i][2] \in Nat \ {0}
         /\ Pending[i] = <<Pending[i][1], Pending[i][2]>>
         /\ written[Pending[i][1]] \in Nat
         /\ pieces[Pending[i][1]] \in Nat \ {0}
         /\ Pending[i][2] <= written[Pending[i][1]]
         /\ written[Pending[i][1]] <= pieces[Pending[i][1]]
<1>1. Pending[i][1] \in Messages /\ Len(Pending) \in Nat
  BY PieceAt, PendingIs
<1> QED
  BY <1>1, PieceAt, FramingAssumption DEF Types, WrittenPieces, PiecesWritten

(* The pieces of the message being written are where they are expected     *)
(* from the last one.                                                      *)
LEMMA AtTheEnd ==
  ASSUME Base, InFrames, ~closed, ~mixed, ~torn,
         NEW i \in 1..Len(Pending), UnderWay(Pending[i][1])
  PROVE  i = Len(Pending) - written[Pending[i][1]] + Pending[i][2]
<1> DEFINE n == Len(Pending)
           m == Pending[i][1]
           q == n - written[m] + Pending[i][2]
<1>1. /\ n \in 1..n /\ n \in Nat /\ m \in Messages
      /\ Pending[i][2] \in Nat \ {0} /\ pieces[m] \in Nat
      /\ Pending[i][2] <= written[m] /\ written[m] <= pieces[m]
      /\ written[m] \in Nat
      /\ Pending[i] = <<m, Pending[i][2]>>
  BY Numbers DEF Base
<1>2. Pending[n] = <<m, written[m]>>
  BY <1>1 DEF InFrames
<1>3. Framed(n)
  BY <1>1 DEF InFrames
<1>4. Pending[i][2] \in 1..pieces[m]
  BY <1>1
<1>5. Place(n, Pending[i][2]) = q
  BY <1>2 DEF Place
<1>6. q > 0 /\ q <= n
  BY <1>1, <1>2, <1>3, <1>4, <1>5 DEF Framed
<1>7. Pending[q] = <<m, Pending[i][2]>> /\ q \in 1..n
  BY <1>1, <1>2, <1>3, <1>4, <1>5, <1>6 DEF Framed
<1>8. q \in 1..n /\ Pending[q][1] = m /\ Pending[q][2] = Pending[i][2]
  BY <1>7
<1>9. q \in Int /\ i \in Int /\ Pending[i][2] \in Nat
  BY <1>1
<1> HIDE DEF q
<1>10. ~(q < i)
  BY <1>8, <1>9 DEF InOrder, Base
<1>11. ~(i < q)
  BY <1>8, <1>9 DEF InOrder, Base
<1>12. q = i
  BY <1>9, <1>10, <1>11
<1> QED
  BY <1>12 DEF q

(* A write adds to the frame at the end, or begins a frame.                *)
LEMMA WriteFrames ==
  ASSUME Base, InFrames, NEW m \in Messages, Write(m),
         ~closed', ~mixed', ~torn'
  PROVE  /\ reader' = "clean" /\ ~wrong'
         /\ \A i \in 1..Len(Pending') :
              Framed(i)' /\ (Beyond(i)' => UnderWay(Pending[i][1])')
         /\ \A x \in Messages : UnderWay(x)' =>
              /\ Len(Pending') > 0
              /\ Pending'[Len(Pending')] = <<x, written'[x]>>
<1> DEFINE n == Len(Pending)
           w == written[m]
           c == Portion(m)
<1> USE DEF Base
<1>1. /\ c \in Nat \ {0} /\ w \in Nat /\ pieces[m] \in Nat \ {0}
      /\ w + c <= pieces[m]
      /\ written' = [written EXCEPT ![m] = w + c]
      /\ Len(Pending') = n + c
      /\ \A i \in 1..n : Pending'[i] = Pending[i]
      /\ \A i \in 1..c : Pending'[n + i] = <<m, w + i>>
  BY WriteGrows
<1>2. /\ ~closed /\ ~mixed /\ ~torn /\ w < pieces[m]
      /\ \A x \in Messages \ {m} : ~UnderWay(x)
      /\ UNCHANGED <<reader, wrong>>
  BY DEF Write, input
<1>3. /\ written'[m] = w + c
      /\ \A x \in Messages \ {m} : written'[x] = written[x]
  BY <1>1 DEF Types
<1>4. n \in Nat
  BY PendingIs
<1> HIDE DEF n, w, c
<1>5. UnderWay(m)' <=> w + c < pieces[m]
  BY <1>1, <1>3 DEF UnderWay
<1>6. ASSUME w > 0
      PROVE  /\ n \in 1..n /\ Pending[n] = <<m, w>>
             /\ Framed(n) /\ UnderWay(m)
  <2>1. UnderWay(m)
    BY <1>1, <1>2, <1>6 DEF UnderWay, w
  <2>2. n > 0 /\ Pending[n] = <<m, w>>
    BY <1>2, <2>1 DEF InFrames, n, w
  <2>3. n \in 1..n
    BY <1>4, <2>2
  <2> QED
    BY <1>2, <2>1, <2>2, <2>3 DEF InFrames, n
(* The pieces of m lie behind one another up to the new end.               *)
<1>7. ASSUME NEW k \in 1..pieces[m]
      PROVE  /\ n - w + k > 0
             /\ n - w + k <= n + c => Pending'[n - w + k] = <<m, k>>
  <2>1. n - w + k > 0 /\ (k <= w => Pending'[n - w + k] = <<m, k>>)
    <3>1. CASE w = 0
      BY <1>1, <1>4, <3>1
    <3>2. CASE w > 0
      <4>1. Place(n, k) = n - w + k /\ Pending[n][1] = m
        BY <1>6, <3>2 DEF Place
      <4>2. n - w + k > 0
        BY <1>6, <3>2, <4>1 DEF Framed
      <4>3. ASSUME k <= w PROVE Pending'[n - w + k] = <<m, k>>
        <5>1. n - w + k \in 1..n
          BY <1>1, <1>4, <4>2, <4>3
        <5>2. n - w + k <= Len(Pending)
          BY <5>1, <1>4 DEF n
        <5>3. Pending[n - w + k] = <<m, k>>
          BY <1>6, <3>2, <4>1, <5>2 DEF Framed
        <5> QED
          BY <1>1, <5>1, <5>3
      <4> QED
        BY <4>2, <4>3
    <3> QED
      BY <1>1, <3>1, <3>2
  <2>2. ASSUME k > w, n - w + k <= n + c PROVE Pending'[n - w + k] = <<m, k>>
    <3>1. k - w \in 1..c
      BY <1>1, <1>4, <2>2
    <3>2. Pending'[n + (k - w)] = <<m, w + (k - w)>>
      BY <1>1, <3>1
    <3>3. n + (k - w) = n - w + k /\ w + (k - w) = k
      BY <1>1, <1>4
    <3> QED
      BY <3>2, <3>3
  <2> QED
    BY <1>1, <2>1, <2>2
<1>8. ASSUME NEW i \in 1..n + c, Pending'[i][1] = m,
             i - Pending'[i][2] = n - w
      PROVE  Framed(i)' /\ (Beyond(i)' => UnderWay(m)')
  <2>1. \A k \in 1..pieces[m] : Place(i, k)' = n - w + k
    BY <1>8 DEF Place
  <2>2. Framed(i)'
    BY <1>1, <1>7, <1>8, <2>1 DEF Framed
  <2>3. Beyond(i)' => n - w + pieces[m] > n + c
    <3>1. Place(i, pieces[m])' = n - w + pieces[m]
      BY <1>1, <2>1
    <3> QED
      BY <1>1, <1>8, <3>1 DEF Beyond
  <2> QED
    BY <1>1, <1>4, <1>5, <2>2, <2>3
<1>9. ASSUME NEW i \in 1..n
      PROVE  Framed(i)' /\ (Beyond(i)' => UnderWay(Pending[i][1])')
  <2> DEFINE x == Pending[i][1]
  <2>1. /\ x \in Messages /\ Pending[i][2] \in Nat /\ pieces[x] \in Nat \ {0}
        /\ Framed(i) /\ (Beyond(i) => UnderWay(x))
    <3>1. i \in 1..Len(Pending)
      BY DEF n
    <3> QED
      BY <1>2, <3>1, Numbers DEF InFrames
  <2>2. Pending'[i] = Pending[i] /\ i \in 1..n + c
    BY <1>1, <1>4
  <2>3. CASE UnderWay(x)
    <3>1. x = m
      BY <1>2, <2>1, <2>3
    <3>2. i = n - w + Pending[i][2]
      BY <1>2, <2>3, <3>1, AtTheEnd DEF n, w
    <3>3. i - Pending'[i][2] = n - w
      BY <1>1, <1>4, <2>1, <2>2, <3>2
    <3> QED
      BY <1>8, <2>2, <3>1, <3>3
  <2>4. CASE ~UnderWay(x)
    <3>1. ~Beyond(i)
      BY <2>1, <2>4
    <3>2. ASSUME NEW k \in 1..pieces[x]
          PROVE  /\ Place(i, k)' = Place(i, k) /\ Place(i, k) \in 1..n
                 /\ Pending[Place(i, k)] = <<x, k>>
      <4>1. Place(i, k)' = Place(i, k)
        BY <2>2 DEF Place
      <4>2. Place(i, k) \in Int /\ Place(i, k) <= n /\ Place(i, k) > 0
        <5>1. Place(i, pieces[x]) <= n
          BY <1>4, <2>1, <3>1 DEF Beyond, n, Place
        <5> QED
          BY <1>4, <2>1, <5>1 DEF Place, Framed
      <4>3. Pending[Place(i, k)] = <<x, k>>
        BY <2>1, <4>2 DEF Framed, n
      <4> QED
        BY <1>4, <4>1, <4>2, <4>3
    <3>3. Framed(i)'
      <4>1. \A k \in 1..pieces[x] :
              Place(i, k)' > 0 /\ Pending'[Place(i, k)'] = <<x, k>>
        BY <1>1, <3>2
      <4> QED
        BY <2>2, <4>1 DEF Framed
    <3>4. ~Beyond(i)'
      <4>1. Place(i, pieces[x])' \in 1..n
        <5>1. Place(i, pieces[x]) \in 1..n
          BY <2>1, <3>2
        <5>2. Place(i, pieces[x])' = Place(i, pieces[x])
          BY <2>2 DEF Place
        <5> QED
          BY <5>1, <5>2
      <4> QED
        BY <1>1, <1>4, <2>2, <4>1 DEF Beyond
    <3> QED
      BY <3>3, <3>4
  <2> QED
    BY <2>3, <2>4
<1>10. ASSUME NEW i \in 1..Len(Pending')
       PROVE  Framed(i)' /\ (Beyond(i)' => UnderWay(Pending[i][1])')
  <2>1. CASE i \in 1..n
    BY <1>1, <1>9, <2>1 DEF UnderWay
  <2>2. CASE i \notin 1..n
    <3>1. i - n \in 1..c /\ i \in 1..n + c
      BY <1>1, <1>4, <2>2
    <3>2. Pending'[n + (i - n)] = <<m, w + (i - n)>>
      BY <1>1, <3>1
    <3>3. Pending'[i] = <<m, w + (i - n)>>
      BY <1>4, <3>2
    <3>4. Pending'[i][1] = m /\ i - Pending'[i][2] = n - w
      BY <1>1, <1>4, <3>3
    <3> QED
      BY <1>8, <3>1, <3>4 DEF UnderWay
  <2> QED
    BY <2>1, <2>2
<1>11. ASSUME NEW x \in Messages, UnderWay(x)'
       PROVE  /\ Len(Pending') > 0
              /\ Pending'[Len(Pending')] = <<x, written'[x]>>
  <2>1. x = m
    BY <1>2, <1>3, <1>11 DEF UnderWay
  <2>2. Pending'[n + c] = <<m, w + c>>
    BY <1>1
  <2> QED
    BY <1>1, <1>3, <1>4, <2>1, <2>2
<1>12. reader' = "clean" /\ ~wrong'
  BY <1>2 DEF InFrames
<1> QED
  BY <1>10, <1>11, <1>12

(* What is read when all is framed is one message, or the head of one.     *)
LEMMA ReadInFrame ==
  ASSUME Base, InFrames, ~mixed, ~torn,
         NEW k \in 1..Len(line), Consume(k)
  PROVE  InFrame(Taken(k))
<1> USE DEF Base
<1>1. /\ 1 \in 1..Len(Pending) /\ Len(Pending) \in Nat
      /\ Taken(k)[1] = Pending[1] /\ Len(Taken(k)) \in 1..Len(Pending)
      /\ \A i \in 1..Len(Taken(k)) : Taken(k)[i] = Pending[i]
  BY FirstTaken, ReadTakes
<1>2. /\ Framed(1) /\ Pending[1][2] \in Nat \ {0}
      /\ pieces[Pending[1][1]] \in Nat \ {0}
  BY <1>1, Numbers DEF InFrames
<1>3. Pending[1][2] = 1
  <2>1. Place(1, 1) > 0
    BY <1>2 DEF Framed
  <2> QED
    BY <1>2, <2>1 DEF Place
<1>4. \A i \in 1..pieces[Pending[1][1]] : Place(1, i) = i
  BY <1>2, <1>3 DEF Place
<1>5. ASSUME NEW i \in 1..Len(Taken(k)), i <= pieces[Taken(k)[1][1]]
      PROVE  Taken(k)[i] = <<Taken(k)[1][1], i>>
  <2>1. i \in 1..pieces[Pending[1][1]] /\ i <= Len(Pending)
    BY <1>1, <1>2, <1>5
  <2>2. Place(1, i) = i
    BY <1>4, <2>1
  <2>3. Pending[i] = <<Pending[1][1], i>>
    BY <1>2, <2>1, <2>2 DEF Framed
  <2> QED
    BY <1>1, <2>3
<1> QED
  BY <1>5 DEF InFrame

(* A receive that tears nothing ends where a message ends.                 *)
LEMMA EndsWithAnEnd ==
  ASSUME Base, ~torn', NEW k \in 1..Len(line), Consume(k), Receive(Taken(k))
  PROVE  LET d == Len(Taken(k))
         IN  /\ d \in 1..Len(Pending)
             /\ Pending[d] = <<Pending[d][1], pieces[Pending[d][1]]>>
<1> USE DEF Base
<1> DEFINE p == Taken(k)
           d == Len(Taken(k))
           m == Taken(k)[1][1]
           rest == SubSeq(Taken(k), pieces[m] + 1, d)
<1>1. /\ p \in Seq(Piece) /\ d \in 1..Len(Pending)
      /\ \A i \in 1..d : p[i] = Pending[i]
      /\ p[1] = Pending[1] /\ 1 \in 1..Len(Pending) /\ Len(Pending) \in Nat
  BY FirstTaken, ReadTakes
<1>2. m \in Messages /\ pieces[m] \in Nat \ {0}
  <2>1. m = Pending[1][1]
    BY <1>1
  <2> QED
    BY <1>1, <2>1, Numbers
<1>3. InFrame(p) /\ d >= pieces[m] /\ ~Tears(rest)
  BY DEF Receive, Complete
<1>4. Pending[d] = p[d] /\ d \in 1..d
  BY <1>1
<1>5. CASE d = pieces[m]
  <2>1. p[d] = <<m, d>>
    BY <1>2, <1>3, <1>4, <1>5 DEF InFrame
  <2>2. Pending[d] = <<m, pieces[m]>>
    BY <1>4, <1>5, <2>1
  <2> QED
    BY <1>1, <2>2
<1>6. CASE d > pieces[m]
  <2> DEFINE e == d - pieces[m]
  <2>1. d \in Nat /\ e \in 1..d /\ e \in 1..e
    BY <1>1, <1>2, <1>6
  <2>2. Len(rest) = e /\ \A i \in 1..e : rest[i] = Pending[pieces[m] + i]
    <3>1. pieces[m] \in 0..Len(p)
      BY <1>2, <1>3, <2>1
    <3>2. /\ Len(L!Rest(p, pieces[m])) = d - pieces[m]
          /\ \A i \in 1..d - pieces[m] :
               L!Rest(p, pieces[m])[i] = p[pieces[m] + i]
      <4> HIDE DEF p, m
      <4> QED
        BY <1>1, <3>1, RestIs DEF p
    <3>3. rest = L!Rest(p, pieces[m])
      BY DEF L!Rest
    <3> HIDE DEF rest, p, m, d
    <3>4. ASSUME NEW i \in 1..e PROVE pieces[m] + i \in 1..d
      BY <1>2, <2>1, <3>4
    <3> QED
      BY <1>1, <3>2, <3>3, <3>4
  <2>3. rest[e] = Pending[d]
    <3>1. pieces[m] + e = d
      BY <1>2, <2>1
    <3> QED
      BY <2>1, <2>2, <3>1
  <2>4. PICK j \in 1..e : rest[j] = <<rest[e][1], pieces[rest[e][1]]>>
    BY <1>3, <2>1, <2>2 DEF Tears
  <2> DEFINE x == Pending[d][1]
             i == pieces[m] + j
  <2>5. i \in 1..Len(Pending) /\ i <= d /\ Pending[i] = <<x, pieces[x]>>
    <3>1. Pending[i] = <<x, pieces[x]>>
      BY <2>2, <2>3, <2>4
    <3>2. i \in 1..d
      <4> HIDE DEF d, m
      <4> QED
        BY <1>2, <2>1, <2>4
    <3> QED
      BY <1>1, <3>1, <3>2
  <2>6. /\ Pending[d][2] \in Nat /\ Pending[d][2] <= pieces[x]
        /\ pieces[x] \in Nat
    <3>1. /\ Pending[d][2] <= written[x] /\ written[x] <= pieces[x]
          /\ Pending[d][2] \in Nat /\ written[x] \in Nat /\ pieces[x] \in Nat
      BY <1>1, Numbers
    <3> QED
      BY <3>1
  <2>7. i \in Int /\ d \in Int
    BY <2>1, <2>5
  <2>8. Pending[i][1] = x /\ Pending[i][2] = pieces[x]
    BY <2>5
  <2> HIDE DEF i
  <2>9. ~(i < d)
    BY <1>1, <2>5, <2>6, <2>8 DEF InOrder
  <2>10. i = d
    BY <2>5, <2>7, <2>9
  <2> QED
    BY <1>1, <2>5, <2>10
<1> QED
  BY <1>1, <1>2, <1>3, <1>5, <1>6

(* Frames that lie behind it stay whole.                                   *)
LEMMA ReceiveFrames ==
  ASSUME Base, InFrames, NEW k \in 1..Len(line), Consume(k),
         ~mixed, ~torn, ~torn', buffer' = <<>>, UNCHANGED written,
         Receive(Taken(k))
  PROVE  /\ \A i \in 1..Len(Pending') :
              Framed(i)' /\ (Beyond(i)' => UnderWay(Pending[i][1])')
         /\ ~closed => \A x \in Messages : UnderWay(x)' =>
              /\ Len(Pending') > 0
              /\ Pending'[Len(Pending')] = <<x, written'[x]>>
<1> USE DEF Base
<1> DEFINE d == Len(Taken(k))
           n == Len(Pending)
<1>1. /\ d \in 1..n /\ n \in Nat /\ Len(Pending') = n - d
      /\ \A i \in 1..n - d : Pending'[i] = Pending[d + i]
  BY Dropped, PendingIs
<1>2. Pending[d] = <<Pending[d][1], pieces[Pending[d][1]]>>
  BY EndsWithAnEnd
<1>3. /\ Pending[d][1] \in Messages /\ pieces[Pending[d][1]] \in Nat
      /\ Framed(d)
  BY <1>1, Numbers DEF InFrames
<1> HIDE DEF d
<1>4. ASSUME NEW i \in d + 1..n
      PROVE  /\ Pending[i][1] \in Messages /\ Pending[i][2] \in Nat \ {0}
             /\ pieces[Pending[i][1]] \in Nat \ {0}
             /\ Pending[i][2] <= pieces[Pending[i][1]]
             /\ Framed(i) /\ (Beyond(i) => UnderWay(Pending[i][1]))
             /\ i - Pending[i][2] >= d
  <2>1. i \in 1..Len(Pending) /\ i \in Nat /\ d \in Nat
    BY <1>1
  <2>2. /\ Pending[i][1] \in Messages /\ Pending[i][2] \in Nat \ {0}
        /\ pieces[Pending[i][1]] \in Nat \ {0}
        /\ Pending[i][2] <= pieces[Pending[i][1]]
        /\ Framed(i) /\ (Beyond(i) => UnderWay(Pending[i][1]))
    <3>1. /\ Pending[i][2] <= written[Pending[i][1]]
          /\ written[Pending[i][1]] <= pieces[Pending[i][1]]
          /\ written[Pending[i][1]] \in Nat
          /\ Pending[i][1] \in Messages /\ Pending[i][2] \in Nat \ {0}
          /\ pieces[Pending[i][1]] \in Nat \ {0}
      BY <2>1, Numbers
    <3> QED
      BY <2>1, <3>1 DEF InFrames
  <2>3. ASSUME i - Pending[i][2] < d PROVE FALSE
    <3> DEFINE r == d - i + Pending[i][2]
    <3>1. /\ r \in 1..pieces[Pending[i][1]] /\ r < Pending[i][2]
          /\ i - Pending[i][2] + r = d /\ r \in Int
      BY <2>1, <2>2, <2>3
    <3> HIDE DEF r
    <3>2. Place(i, r) = d /\ d <= Len(Pending)
      BY <1>1, <3>1 DEF Place
    <3>3. Pending[d] = <<Pending[i][1], r>>
      BY <2>2, <3>1, <3>2 DEF Framed
    <3>4. pieces[Pending[i][1]] = r
      BY <1>2, <3>3
    <3> QED
      BY <2>2, <3>1, <3>4
  <2> QED
    BY <2>1, <2>2, <2>3
<1>5. ASSUME NEW i \in 1..Len(Pending')
      PROVE  Framed(i)' /\ (Beyond(i)' => UnderWay(Pending[i][1])')
  <2> DEFINE x == Pending[d + i][1]
  <2>1. d + i \in d + 1..n /\ Pending'[i] = Pending[d + i]
    BY <1>1
  <2>2. /\ x \in Messages /\ Pending[d + i][2] \in Nat \ {0}
        /\ pieces[x] \in Nat \ {0}
        /\ Framed(d + i) /\ (Beyond(d + i) => UnderWay(x))
        /\ (d + i) - Pending[d + i][2] >= d
    BY <1>4, <2>1
  <2>3. ASSUME NEW r \in 1..pieces[x]
        PROVE  /\ i - Pending[d + i][2] + r > 0
               /\ i - Pending[d + i][2] + r <= n - d =>
                    Pending'[i - Pending[d + i][2] + r] = <<x, r>>
    <3> DEFINE a == i - Pending[d + i][2] + r
    <3>1. a \in Int /\ a > 0 /\ Place(d + i, r) = d + a
      BY <1>1, <2>2 DEF Place
    <3>2. ASSUME a <= n - d PROVE Pending'[a] = <<x, r>>
      <4>1. a \in 1..n - d /\ d + a <= n
        BY <1>1, <3>1, <3>2
      <4>2. Pending[d + a] = <<x, r>>
        BY <2>2, <3>1, <4>1 DEF Framed
      <4> HIDE DEF a
      <4> QED
        BY <1>1, <4>1, <4>2
    <3> QED
      BY <3>1, <3>2
  <2>4. \A r \in 1..pieces[x] : Place(i, r)' = i - Pending[d + i][2] + r
    BY <2>1 DEF Place
  <2>5. Framed(i)'
    BY <1>1, <2>1, <2>3, <2>4 DEF Framed
  <2>6. Beyond(i)' => Beyond(d + i)
    <3>1. Beyond(i)' => i - Pending[d + i][2] + pieces[x] > n - d
      BY <1>1, <2>1 DEF Beyond, Place
    <3>2. (d + i) - Pending[d + i][2] + pieces[x] > n => Beyond(d + i)
      BY DEF Beyond, Place
    <3>3. i \in Int /\ d \in Int /\ n \in Int
      BY <1>1
    <3> HIDE DEF x, n
    <3> QED
      BY <2>2, <3>1, <3>2, <3>3
  <2> QED
    BY <2>1, <2>2, <2>5, <2>6 DEF UnderWay
<1>6. ASSUME ~closed, NEW x \in Messages, UnderWay(x)'
      PROVE  /\ Len(Pending') > 0
             /\ Pending'[Len(Pending')] = <<x, written'[x]>>
  <2>1. UnderWay(x) /\ written'[x] = written[x]
    BY <1>6 DEF UnderWay
  <2>2. n > 0 /\ Pending[n] = <<x, written[x]>>
    BY <1>6, <2>1 DEF InFrames
  <2>3. n # d
    BY <1>2, <2>1, <2>2 DEF UnderWay, Types
  <2>4. n - d \in 1..n - d /\ d + (n - d) = n
    BY <1>1, <2>3
  <2>5. Pending'[n - d] = Pending[n]
    BY <1>1, <2>4
  <2> QED
    BY <1>1, <2>1, <2>2, <2>4, <2>5
<1> QED
  BY <1>5, <1>6

LEMMA FramesStep == Base /\ InFrames /\ [Next]_vars => InFrames'
<1> DEFINE Goal ==
             /\ reader' # "lost" /\ (~closed' => reader' = "clean" /\ ~wrong')
             /\ \A i \in 1..Len(Pending') :
                  Framed(i)' /\ (Beyond(i)' => UnderWay(Pending[i][1])')
             /\ ~closed' => \A x \in Messages : UnderWay(x)' =>
                  /\ Len(Pending') > 0
                  /\ Pending'[Len(Pending')] = <<x, written'[x]>>
<1> SUFFICES ASSUME Base, InFrames, [Next]_vars, ~mixed', ~torn'
             PROVE  Goal
  BY DEF InFrames
<1> USE DEF Base
<1>1. ASSUME NEW m \in Messages, Write(m) PROVE Goal
  <2>1. ~closed'
    BY <1>1 DEF Write
  <2> QED
    BY <1>1, <2>1, WriteFrames
<1>2. ASSUME ~mixed, ~torn, closed => closed',
             UNCHANGED <<written, Pending, reader, wrong>>
      PROVE  Goal
  BY <1>2 DEF InFrames, Framed, Beyond, Place, UnderWay
<1>3. ASSUME NEW k \in 1..Len(line), Read(k) PROVE Goal
  <2>1. Consume(k) /\ UNCHANGED <<written, mixed, closed>>
    BY <1>3, ReadCases
  <2>2. torn => torn'
    BY <1>3, ReadCases DEF Receive, NeedMore, Misread
  <2>3. /\ ~mixed /\ ~torn /\ reader # "lost"
        /\ ~closed => reader = "clean" /\ ~wrong
    BY <2>1, <2>2 DEF InFrames
  <2>4. InFrame(Taken(k))
    BY <2>1, <2>3, ReadInFrame
  <2>5. CASE Receive(Taken(k)) /\ buffer' = <<>>
    <3>1. UNCHANGED <<reader, wrong>>
      BY <2>5 DEF Receive
    <3> QED
      BY <2>1, <2>3, <2>5, <3>1, ReceiveFrames
  <2>6. CASE NeedMore(Taken(k)) /\ buffer' = Taken(k)
    BY <1>2, <2>1, <2>3, <2>6, Kept DEF NeedMore
  <2>7. CASE Misread(Taken(k)) /\ buffer' = <<>>
    BY <2>3, <2>4, <2>7 DEF Misread
  <2> QED
    BY <1>3, <2>5, <2>6, <2>7, ReadCases
<1>4. CASE EndOfStream
  <2>1. Len(Pending') = 0 /\ UNCHANGED closed /\ closed
    BY <1>4, EndDrops DEF EndOfStream
  <2>2. reader' # "lost"
    BY <1>4 DEF EndOfStream, AfterFailure
  <2> QED
    BY <2>1, <2>2
<1>5. CASE PeerCloses
  BY <1>2, <1>5 DEF PeerCloses, input, Pending
<1>6. CASE UNCHANGED vars
  BY <1>2, <1>6 DEF vars, Pending
<1> QED
  BY <1>1, <1>3, <1>4, <1>5, <1>6 DEF Next
-----------------------------------------------------------------------------
LEMMA IInvInit == Init => IInv
<1> SUFFICES ASSUME Init PROVE IInv
  OBVIOUS
<1>1. <<>> \in Seq(Piece) /\ Len(<<>>) = 0 /\ <<>> \o <<>> = <<>>
  BY EmptySeq, ConcatEmptySeq
<1>2. Pending = <<>> /\ Len(Pending) = 0
  BY <1>1 DEF Init, Pending
<1>3. /\ \A m \in Messages : written[m] = 0 /\ ~UnderWay(m)
      /\ reader = "clean" /\ ~wrong
  BY DEF Init, UnderWay
<1>4. \A m \in Messages : ~Received(m)
  <2>1. Len(received) = 0
    BY <1>1 DEF Init
  <2> QED
    BY <2>1 DEF Received
<1>5. PiecesWritten /\ InOrder
  BY <1>2, <1>4 DEF PiecesWritten, InOrder
<1>6. Turns
  BY <1>2, <1>3 DEF Turns
<1>7. InFrames
  BY <1>2, <1>3 DEF InFrames
<1> QED
  BY <1>5, <1>6, <1>7, TypesInit, WrittenInit DEF IInv, Base

LEMMA IInvStep == IInv /\ [Next]_vars => IInv'
BY TypesStep, WrittenStep, PiecesStep, OrderStep, TurnsStep, FramesStep
   DEF IInv, Base

LEMMA LossyStep ==
  Base /\ InFrames /\ [Next]_vars => [L!Next]_(L!vars)
<1> SUFFICES ASSUME Base, InFrames, [Next]_vars PROVE [L!Next]_(L!vars)
  OBVIOUS
<1> USE DEF Base
<1>0. Types'
  BY TypesStep
<1>1. ASSUME NEW m \in Messages, Write(m) PROVE L!Next
  BY <1>1, WritePuts DEF L!Next
<1>2. ASSUME UNCHANGED <<Pending, mixed, torn, received>>
      PROVE  UNCHANGED L!vars
  BY <1>2 DEF L!vars
<1>3. ASSUME NEW k \in 1..Len(line), Read(k) PROVE [L!Next]_(L!vars)
  <2>1. Consume(k) /\ UNCHANGED mixed
    BY <1>3, ReadCases
  <2>h. L!MayHarm
    <3>1. torn => torn'
      BY <1>3, ReadCases DEF Receive, NeedMore, Misread
    <3>2. {mixed, torn, torn'} \subseteq BOOLEAN
      BY <1>0 DEF Types
    <3> QED
      BY <2>1, <3>1, <3>2 DEF L!MayHarm
  <2>2. ASSUME buffer' = <<>> PROVE L!Drop
    <3> DEFINE n == Len(Taken(k))
    <3>1. /\ n \in 1..Len(Pending) /\ Len(Pending') = Len(Pending) - n
          /\ \A i \in 1..Len(Pending') : Pending'[i] = Pending[n + i]
      BY <2>1, <2>2, Dropped
    <3> HIDE DEF n
    <3> QED
      BY <1>0, <3>1, DropLoses DEF L!Drop
  <2>3. CASE Receive(Taken(k)) /\ buffer' = <<>>
    <3>1. /\ Taken(k)[1] = Pending[1] /\ 1 \in 1..Len(Pending)
          /\ Pending \in Seq(Piece) /\ Len(Pending) \in Nat
          /\ Len(Taken(k)) \in 1..Len(Pending)
      BY <2>1, FirstTaken, PendingIs, ReadTakes
    <3>2. Pending[1][1] \in Messages /\ pieces[Pending[1][1]] \in Nat \ {0}
      BY <3>1, PieceAt
    <3>3. Taken(k)[1] = <<Taken(k)[1][1], 1>>
      <4>1. 1 \in 1..Len(Taken(k)) /\ 1 <= pieces[Taken(k)[1][1]]
        BY <3>1, <3>2
      <4> QED
        BY <2>3, <4>1 DEF Receive, InFrame
    <3>4. /\ Marks(Pending) # <<>>
          /\ Head(Marks(Pending)) = Pending[1][1]
      <4>1. /\ Marks(Pending) \in Seq(Marked)
            /\ Len(Marks(Pending)) = Len(Pending)
            /\ Marks(Pending)[1]
                 = IF Pending[1][2] = 1 THEN Pending[1][1] ELSE Noise
        BY <3>1, MarksAre
      <4>2. Pending[1][2] = 1
        BY <3>1, <3>3
      <4>3. Marks(Pending) # <<>>
        BY <3>1, <4>1, EmptySeq
      <4> HIDE DEF Marks
      <4> QED
        BY <4>1, <4>2, <4>3
    <3>5. received' = Append(received, Pending[1][1])
      BY <2>3, <3>1 DEF Receive
    <3>6. L!Take
      BY <2>2, <2>3, <2>h, <3>2, <3>4, <3>5 DEF L!Take
    <3> QED
      BY <3>6 DEF L!Next
  <2>4. CASE NeedMore(Taken(k)) /\ buffer' = Taken(k)
    <3>1. UNCHANGED <<Pending, mixed, torn, received>>
      BY <2>1, <2>4, Kept DEF NeedMore
    <3> QED
      BY <1>2, <3>1
  <2>5. CASE Misread(Taken(k)) /\ buffer' = <<>>
    <3>1. CASE UNCHANGED received
      BY <2>2, <2>5, <2>h, <3>1 DEF L!Next, L!Lose
    <3>2. CASE received' = Append(received, Noise)
      <4>1. mixed \/ torn
        <5> SUFFICES ASSUME ~mixed, ~torn PROVE FALSE
          BY DEF Types
        <5>1. reader # "lost" /\ InFrame(Taken(k))
          BY <2>1, ReadInFrame DEF InFrames
        <5> QED
          BY <2>5, <5>1 DEF Misread
      <4> QED
        BY <2>2, <2>5, <2>h, <3>2, <4>1 DEF L!Next, L!Garble
    <3> QED
      BY <2>5, <3>1, <3>2 DEF Misread
  <2> QED
    BY <1>3, <2>3, <2>4, <2>5, ReadCases
<1>4. CASE EndOfStream
  <2>1. /\ Pending' = <<>> /\ Len(Pending') = 0
        /\ UNCHANGED <<mixed, torn, received>>
    BY <1>4, EndDrops
  <2>2. Pending \in Seq(Piece) /\ Len(Pending) \in Nat
    BY PendingIs
  <2>3. CASE Len(Pending) = 0
    <3>1. UNCHANGED <<Pending, mixed, torn, received>>
      BY <2>1, <2>2, <2>3, EmptySeq
    <3> QED
      BY <1>2, <3>1
  <2>4. CASE Len(Pending) > 0
    <3>1. Len(Pending) \in 1..Len(Pending) /\ Len(Pending') = Len(Pending) - Len(Pending)
      BY <2>1, <2>2, <2>4
    <3>2. \A i \in 1..Len(Pending') : Pending'[i] = Pending[Len(Pending) + i]
      BY <2>1
    <3>3. L!Drop
      BY <1>0, <3>1, <3>2, DropLoses DEF L!Drop
    <3>4. L!MayHarm
      BY <2>1 DEF L!MayHarm, Types
    <3> QED
      BY <2>1, <3>3, <3>4 DEF L!Next, L!Lose
  <2> QED
    BY <2>2, <2>3, <2>4
<1>5. CASE PeerCloses \/ UNCHANGED vars
  BY <1>2, <1>5 DEF PeerCloses, vars, input, Pending
<1> QED
  BY <1>1, <1>3, <1>4, <1>5 DEF Next

(* Whatever is thrown away, misread or mixed, the handlers are given a     *)
(* message only whole, once and in the order of sending; and they are      *)
(* given what nobody sent only after writes have mixed or a message was    *)
(* torn.                                                                   *)
THEOREM HandlersSeeALossyLine == Spec => ImplementsLossyLine
<1>1. Init => L!Init
  <2> SUFFICES ASSUME Init PROVE L!Init
    OBVIOUS
  <2>1. <<>> \in Seq(Piece) /\ Len(<<>>) = 0 /\ <<>> \o <<>> = <<>>
    BY EmptySeq, ConcatEmptySeq
  <2>2. Pending = <<>>
    BY <2>1 DEF Init, Pending
  <2>3. Marks(Pending) \in Seq(Marked) /\ Len(Marks(Pending)) = 0
    BY <2>1, <2>2, MarksAre
  <2>4. Marks(Pending) = <<>>
    BY <2>3, EmptySeq
  <2> QED
    BY <2>4 DEF L!Init, Init
<1>2. IInv /\ [Next]_vars => [L!Next]_(L!vars)
  BY LossyStep DEF IInv
<1> QED
  BY <1>1, <1>2, IInvInit, IInvStep, PTL DEF Spec, ImplementsLossyLine, L!Spec

(* A receive fails, or a handler is given what nobody sent, only if the    *)
(* peer has gone, two sending threads mixed their writes, or read-ahead    *)
(* that was thrown away held the head of a message.                        *)
THEOREM FailuresHaveCauses == Spec => []NothingWrongWithoutCause
<1>1. IInv => NothingWrongWithoutCause
  BY DEF IInv, InFrames, NothingWrongWithoutCause
<1> QED
  BY <1>1, IInvInit, IInvStep, PTL DEF Spec

(* Peers that send the next message after the last one was received lose   *)
(* nothing: everything sent is received or waits in front.                 *)
THEOREM TurnsLoseNothing == Spec => []TakingTurnsIsSafe
<1>1. IInv => TakingTurnsIsSafe
  <2> SUFFICES ASSUME IInv, ~hasty, ~closed
               PROVE  /\ reader = "clean" /\ ~wrong
                      /\ \A m \in Messages : written[m] > 0 =>
                           \/ Received(m)
                           \/ \E i \in 1..Len(Pending) : Pending[i] = <<m, 1>>
    BY DEF TakingTurnsIsSafe
  <2>1. reader = "clean" /\ ~wrong
    BY DEF IInv, Turns
  <2>2. ASSUME NEW m \in Messages, written[m] > 0, ~Received(m)
        PROVE  \E i \in 1..Len(Pending) : Pending[i] = <<m, 1>>
    <3>1. OnlyOnItsWay(m)
      BY <2>2 DEF IInv, Turns, Finished, OnlyOnItsWay
    <3>2. written[m] \in Nat
      BY DEF IInv, Base, Types
    <3>3. 1 \in 1..Len(Pending) /\ Pending[1] = <<m, 1>>
      BY <2>2, <3>1, <3>2 DEF OnlyOnItsWay
    <3> QED
      BY <3>3
  <2> QED
    BY <2>1, <2>2
<1> QED
  BY <1>1, IInvInit, IInvStep, PTL DEF Spec

=============================================================================
