------------------------------- MODULE Framing -------------------------------
(***************************************************************************)
(* Messages on a socket (GPB_message.hpp and its callers): sendMesgTo      *)
(* writes a length and the message, recvMesgFrom reads them back.          *)
(*                                                                         *)
(* A message longer than the stream's buffer takes several writes, and     *)
(* those of two sending threads may mix: the mutex around them is          *)
(* commented out.  A receiver makes a new FileInputStream for each         *)
(* message; it reads whatever has come, up to its buffer's size, and what  *)
(* it has read beyond its message is thrown away with it.  If that was the *)
(* head of a longer message, the rest of that one is next to be taken for  *)
(* a length; and where what follows happens to parse, a handler is given a *)
(* message that nobody sent.                                               *)
(*                                                                         *)
(* A piece is a part of a message that no write and no read divides.       *)
(*                                                                         *)
(* A definition marked "slip" is a wrong variant of the one below it.  It  *)
(* is not part of the specification: it shows what a property would catch. *)
(***************************************************************************)
EXTENDS Naturals, Sequences

CONSTANTS
  Messages,  \* messages sent, each once
  pieces,    \* pieces[m]: how many pieces m has
  Long,      \* messages that take one write for each piece; others take one
  Noise      \* LossyLine's name for what is not the beginning of a message

ASSUME FramingAssumption ==
  /\ pieces \in [Messages -> Nat \ {0}] /\ Long \subseteq Messages
  /\ Noise \notin Messages

VARIABLES
  written,   \* written[m]: how many pieces of m have been written
  line,      \* pieces in the socket, <<m, i>> for the i-th of m
  mixed,     \* has a write come between two of another message?
  hasty,     \* was a message sent before the one before it was received?
  closed,    \* has the sending side closed its end?
  buffer,    \* pieces read for the message that is being received
  reader,    \* "clean", "lost" (taking something else for a message), "ended"
  retries,   \* does the thread go on after a failed receive?
  received,  \* messages handed to the handlers; Noise is one nobody sent
  wrong,     \* has a receive failed, or returned what nobody sent?
  torn       \* was the beginning of a message thrown away without its end?

vars == <<written, line, mixed, hasty, closed, buffer, reader, retries,
          received, wrong, torn>>

input == <<buffer, reader, retries, received, wrong, torn>>

outgoing == <<written, mixed, hasty, closed>>

Init ==
  /\ written = [m \in Messages |-> 0]
  /\ line = <<>> /\ mixed = FALSE /\ hasty = FALSE /\ closed = FALSE
  /\ buffer = <<>> /\ reader = "clean"
  /\ retries \in BOOLEAN
  /\ received = <<>> /\ wrong = FALSE /\ torn = FALSE
-----------------------------------------------------------------------------
UnderWay(m) == 0 < written[m] /\ written[m] < pieces[m]
Received(m) == \E i \in 1..Len(received) : received[i] = m

(* What one write of sendMesgTo brings; nobody is kept from writing        *)
(* between two writes of a long message.                                   *)
Portion(m) == IF m \in Long THEN 1 ELSE pieces[m]

Write(m) ==
  /\ ~closed /\ written[m] < pieces[m]
  /\ written' = [written EXCEPT ![m] = @ + Portion(m)]
  /\ line' = line \o [i \in 1..Portion(m) |-> <<m, written[m] + i>>]
  /\ mixed' = (mixed \/ \E x \in Messages \ {m} : UnderWay(x))
  /\ hasty' = (hasty \/ \E x \in Messages \ {m} : written[x] > 0 /\ ~Received(x))
  /\ UNCHANGED <<closed, input>>

PeerCloses ==
  /\ ~closed /\ closed' = TRUE
  /\ UNCHANGED <<written, line, mixed, hasty, input>>
-----------------------------------------------------------------------------
(* Do the pieces p start with the pieces of one message, as far as they go?*)
InFrame(p) ==
  \A i \in 1..Len(p) : i <= pieces[p[1][1]] => p[i] = <<p[1][1], i>>

(* Slip: the length counts itself, so that the end comes early.            *)
EndComesEarly(p) == Len(p) + 1 >= pieces[p[1][1]]

Complete(p) == Len(p) >= pieces[p[1][1]]

(* Throwing the pieces away tears a message whose end is not among them.   *)
Tears(p) ==
  \E i \in 1..Len(p) : \A j \in 1..Len(p) : p[j] # <<p[i][1], pieces[p[i][1]]>>

(* Slip: the bytes stay in the socket.                                     *)
Peek(k) == UNCHANGED line

Consume(k) == line' = SubSeq(line, k + 1, Len(line))

(* recvMesgFrom succeeds; the stream is destroyed with what is left in it. *)
Receive(p) ==
  LET m == p[1][1]
  IN  /\ reader = "clean" /\ InFrame(p) /\ Complete(p)
      /\ received' = Append(received, m)
      /\ torn' = (torn \/ Tears(SubSeq(p, pieces[m] + 1, Len(p))))
      /\ buffer' = <<>>
      /\ UNCHANGED <<reader, wrong>>

NeedMore(p) ==
  /\ reader = "clean" /\ InFrame(p) /\ ~Complete(p)
  /\ buffer' = p
  /\ UNCHANGED <<reader, received, wrong, torn>>

AfterFailure == IF retries THEN "clean" ELSE "ended"

(* What is read is no message.  It is taken for a part of one until the    *)
(* receive fails, or until it happens to parse: then a handler runs on it. *)
Misread(p) ==
  /\ reader = "lost" \/ ~InFrame(p)
  /\ buffer' = <<>>
  /\ torn' = (torn \/ Tears(p))
  /\ \/ /\ reader' = "lost"
        /\ UNCHANGED <<wrong, received>>
     \/ /\ reader' = AfterFailure /\ wrong' = TRUE
        /\ UNCHANGED received
     \/ /\ reader' = "clean" /\ wrong' = TRUE
        /\ received' = Append(received, Noise)

(* A read returns what has arrived: any number of pieces.                  *)
Read(k) ==
  /\ reader # "ended"
  /\ LET p == buffer \o SubSeq(line, 1, k)
     IN  Receive(p) \/ NeedMore(p) \/ Misread(p)
  /\ Consume(k)
  /\ UNCHANGED <<outgoing, retries>>

(* At the end of the stream every receive fails.  The UPS thread ends; the *)
(* World thread goes on asking, at full speed.                             *)
EndOfStream ==
  /\ reader # "ended" /\ closed /\ line = <<>>
  /\ reader' = AfterFailure
  /\ buffer' = <<>>
  /\ wrong' = TRUE
  /\ UNCHANGED <<outgoing, line, retries, received, torn>>
-----------------------------------------------------------------------------
Next ==
  \/ \E m \in Messages : Write(m)
  \/ PeerCloses
  \/ \E k \in 1..Len(line) : Read(k)
  \/ EndOfStream

Spec == Init /\ [][Next]_vars
-----------------------------------------------------------------------------
(* A receive fails, the UPS thread ends, or a handler is given what nobody *)
(* sent, only if the peer has gone, the writes of two long messages mixed, *)
(* or the read-ahead of an earlier receive tore a message.                 *)
NothingWrongWithoutCause ==
  reader # "clean" \/ wrong => closed \/ mixed \/ torn

Pending == buffer \o line

(* As long as each message is sent after the one before it was received,   *)
(* nothing is lost or misread: throwing away the read-ahead is harmless    *)
(* for peers that take turns, and only for them.                           *)
TakingTurnsIsSafe ==
  ~hasty /\ ~closed =>
    /\ reader = "clean" /\ ~wrong
    /\ \A m \in Messages : written[m] > 0 =>
         Received(m) \/ \E i \in 1..Len(Pending) : Pending[i] = <<m, 1>>

(* Whatever is thrown away, misread or mixed: the messages that the        *)
(* handlers are given are a line with losses, on which the first piece of  *)
(* a message stands for the message, and every other piece is noise.  They *)
(* are given noise only after writes have mixed or a message was torn.     *)
Marks(p) == [i \in 1..Len(p) |-> IF p[i][2] = 1 THEN p[i][1] ELSE Noise]

L == INSTANCE LossyLine WITH
       queue <- Marks(Pending),
       harmed <- mixed \/ torn,
       Sizes <- {1} \cup {pieces[m] : m \in Messages}

ImplementsLossyLine == L!Spec

=============================================================================
