------------------------------- MODULE Outbox -------------------------------
(***************************************************************************)
(* Sequence numbers, the bit set of acknowledgements and the sending       *)
(* threads of the server (common.hpp, Send_command_to_World,               *)
(* Send_command_to_UPS).                                                   *)
(*                                                                         *)
(* A handler that sends a command draws a number, clears the number's bit  *)
(* in send_acks and starts a thread that sends the command again and again *)
(* until the bit is set.  The World thread and the UPS thread set bits as  *)
(* acknowledgements arrive.  The bit set is shared without a lock: setting *)
(* or clearing a bit loads the word that holds it and later stores the     *)
(* whole word, so that two threads at work on one word may undo each       *)
(* other.                                                                  *)
(*                                                                         *)
(* The peers are outside src/: they carry out a command the first time it  *)
(* reaches them and acknowledge every copy.  Copies and acknowledgements   *)
(* may be lost (a receiver of either side throws away what it read ahead). *)
(* The same loss can make a read fail, and the UPS thread does not outlive *)
(* its first failed read; the World thread tries again.                    *)
(*                                                                         *)
(* A definition marked "slip" is a wrong variant of the one below it.  It  *)
(* is not part of the specification: it shows what a property would catch. *)
(***************************************************************************)
EXTENDS Naturals

CONSTANTS
  Commands,     \* commands, one handler thread and one sending thread each
  Peers,        \* the World and UPS
  Fragile,      \* peers whose receiving thread ends at a failed read: UPS
  to,           \* to[c]: the peer command c is for
  AckBits,      \* size of the bit set, 100000 in the code; bound on numbers
  WordBits,     \* bits in a machine word
  None,         \* not a number
  SendMayFail   \* may writing to the socket fail?

ASSUME OutboxAssumption ==
  /\ to \in [Commands -> Peers] /\ Fragile \subseteq Peers
  /\ AckBits \in Nat /\ WordBits \in Nat \ {0}
  /\ None \notin Nat
  /\ SendMayFail \in BOOLEAN

VARIABLES
  server_seq_num,  \* the next number
  send_acks,       \* the numbers whose bit is set
  seq,             \* seq[c]: the number drawn for c
  handler,         \* handler[c]: progress of the handler that sends c
  sender,          \* sender[c]: the thread that sends c
  wire,            \* numbers of the copies on their way to the peers
  acks,            \* acknowledgements on their way back
  carried_out,     \* commands the peers have carried out
  receiver,        \* receiver[p]: the number the thread that reads p marks
  word,            \* word[t]: the word that thread t loaded
  reading          \* peers whose receiving thread is still there

vars == <<server_seq_num, send_acks, seq, handler, sender, wire, acks,
          carried_out, receiver, word, reading>>

Bits == 0..(AckBits - 1)
Word(s) == {b \in Bits : b \div WordBits = s \div WordBits}

(* A thread loads the word of a bit, changes the bit, and stores the word. *)
Load(t, s) == word' = [word EXCEPT ![t] = send_acks \cap Word(s)]
Store(s, new) == send_acks' = (send_acks \ Word(s)) \cup new

(* Slip: true for false.                                                   *)
StoreSetForCleared(t, s) == Store(s, word[t] \cup {s})

StoreCleared(t, s) == Store(s, word[t] \ {s})

(* Slip: the whole word is set.                                            *)
StoreWholeWord(t, s) == Store(s, Word(s))

(* Slip: the acknowledgement is read and forgotten.                        *)
StoreUnchanged(t, s) == Store(s, word[t])

StoreSet(t, s) == Store(s, word[t] \cup {s})

Init ==
  /\ server_seq_num = 0
  /\ send_acks = {}
  /\ seq = [c \in Commands |-> None]
  /\ handler = [c \in Commands |-> "idle"]
  /\ sender = [c \in Commands |-> "none"]
  /\ wire = {}
  /\ acks = {}
  /\ carried_out = {}
  /\ receiver = [p \in Peers |-> None]
  /\ word = [t \in Commands \cup Peers |-> {}]
  /\ reading = Peers
-----------------------------------------------------------------------------
(* The handler.                                                            *)

(* Slip: no lock_guard, an increment may be lost.                          *)
IncrementUnlocked == server_seq_num' \in {server_seq_num, server_seq_num + 1}

(* Slip: numbers are skipped.                                              *)
IncrementByTwo == server_seq_num' = server_seq_num + 2

Increment == server_seq_num' = server_seq_num + 1

(* get_server_seq_num, under its mutex.  Numbers past the bit set would be *)
(* out of range: the model stops there.                                    *)
GetSeqNum(c) ==
  /\ handler[c] = "idle"
  /\ server_seq_num < AckBits
  /\ seq' = [seq EXCEPT ![c] = server_seq_num]
  /\ Increment
  /\ handler' = [handler EXCEPT ![c] = "numbered"]
  /\ UNCHANGED <<send_acks, sender, wire, acks, carried_out, receiver, word,
                 reading>>

(* send_acks[seq_num]=false, in two steps.                                 *)
LoadToClear(c) ==
  /\ handler[c] = "numbered"
  /\ Load(c, seq[c])
  /\ handler' = [handler EXCEPT ![c] = "clearing"]
  /\ UNCHANGED <<server_seq_num, send_acks, seq, sender, wire, acks,
                 carried_out, receiver, reading>>

(* The rest of the handler starts the sending thread.                      *)
ClearAndStart(c) ==
  /\ handler[c] = "clearing"
  /\ StoreCleared(c, seq[c])
  /\ word' = [word EXCEPT ![c] = {}]
  /\ handler' = [handler EXCEPT ![c] = "done"]
  /\ sender' = [sender EXCEPT ![c] = "running"]
  /\ UNCHANGED <<server_seq_num, seq, wire, acks, carried_out, receiver,
                 reading>>

Handler(c) == GetSeqNum(c) \/ LoadToClear(c) \/ ClearAndStart(c)
-----------------------------------------------------------------------------
(* The sending thread: one turn of its loop is a test of the bit and,      *)
(* when it is not set, a copy on the wire and a nap.                       *)
SendCopy(c) ==
  /\ sender[c] = "running" /\ seq[c] \notin send_acks
  /\ wire' = wire \cup {seq[c]}
  /\ UNCHANGED <<server_seq_num, send_acks, seq, handler, sender, acks,
                 carried_out, receiver, word, reading>>

StopSending(c) ==
  /\ sender[c] = "running" /\ seq[c] \in send_acks
  /\ sender' = [sender EXCEPT ![c] = "stopped"]
  /\ UNCHANGED <<server_seq_num, send_acks, seq, handler, wire, acks,
                 carried_out, receiver, word, reading>>

(* An exception while sending ends the thread, and nobody tries again.     *)
(* sendMesgTo does not look at the result of Flush: only a message larger  *)
(* than its stream's buffer gets here.                                     *)
SendFails(c) ==
  /\ SendMayFail
  /\ sender[c] = "running" /\ seq[c] \notin send_acks
  /\ sender' = [sender EXCEPT ![c] = "failed"]
  /\ UNCHANGED <<server_seq_num, send_acks, seq, handler, wire, acks,
                 carried_out, receiver, word, reading>>

Sender(c) == SendCopy(c) \/ StopSending(c)
-----------------------------------------------------------------------------
(* The peers.                                                              *)
PeerReceives(c) ==
  /\ seq[c] \in wire
  /\ wire' = wire \ {seq[c]}
  /\ carried_out' = carried_out \cup {c}
  /\ acks' = acks \cup {seq[c]}
  /\ UNCHANGED <<server_seq_num, send_acks, seq, handler, sender, receiver,
                 word, reading>>

LoseCopy(c) ==
  /\ seq[c] \in wire
  /\ wire' = wire \ {seq[c]}
  /\ UNCHANGED <<server_seq_num, send_acks, seq, handler, sender, acks,
                 carried_out, receiver, word, reading>>

LoseAck(c) ==
  /\ seq[c] \in acks
  /\ acks' = acks \ {seq[c]}
  /\ UNCHANGED <<server_seq_num, send_acks, seq, handler, sender, wire,
                 carried_out, receiver, word, reading>>
-----------------------------------------------------------------------------
(* The World thread and the UPS thread: send_acks[now_ack]=true, in two    *)
(* steps.                                                                  *)
LoadToSet(c) ==
  /\ to[c] \in reading /\ receiver[to[c]] = None
  /\ seq[c] \in acks
  /\ acks' = acks \ {seq[c]}
  /\ receiver' = [receiver EXCEPT ![to[c]] = seq[c]]
  /\ Load(to[c], seq[c])
  /\ UNCHANGED <<server_seq_num, send_acks, seq, handler, sender, wire,
                 carried_out, reading>>

SetBit(p) ==
  /\ receiver[p] # None
  /\ StoreSet(p, receiver[p])
  /\ receiver' = [receiver EXCEPT ![p] = None]
  /\ word' = [word EXCEPT ![p] = {}]
  /\ UNCHANGED <<server_seq_num, seq, handler, sender, wire, acks, carried_out,
                 reading>>

(* A read fails, and the thread is gone: what comes now, nobody reads.     *)
ReceiverEnds(p) ==
  /\ p \in Fragile \cap reading /\ receiver[p] = None
  /\ reading' = reading \ {p}
  /\ UNCHANGED <<server_seq_num, send_acks, seq, handler, sender, wire, acks,
                 carried_out, receiver, word>>
-----------------------------------------------------------------------------
Next ==
  \/ \E c \in Commands : \/ Handler(c) \/ Sender(c) \/ SendFails(c)
                         \/ PeerReceives(c) \/ LoseCopy(c)
                         \/ LoadToSet(c) \/ LoseAck(c)
  \/ \E p \in Peers : SetBit(p) \/ ReceiverEnds(p)

Spec == Init /\ [][Next]_vars

(* Threads keep running; of a command sent again and again some copy gets  *)
(* through, and so does some acknowledgement of those sent again and again,*)
(* as long as there is a thread to read it.                                *)
Fairness ==
  /\ \A c \in Commands : /\ WF_vars(Handler(c))
                         /\ WF_vars(SendCopy(c)) /\ SF_vars(StopSending(c))
                         /\ SF_vars(PeerReceives(c)) /\ SF_vars(LoadToSet(c))
  /\ \A p \in Peers : WF_vars(SetBit(p))

FairSpec == Spec /\ Fairness
-----------------------------------------------------------------------------
TypeOK ==
  /\ server_seq_num \in 0..AckBits
  /\ send_acks \subseteq Bits
  /\ seq \in [Commands -> Bits \cup {None}]
  /\ handler \in [Commands -> {"idle", "numbered", "clearing", "done"}]
  /\ sender \in [Commands -> {"none", "running", "stopped", "failed"}]
  /\ wire \subseteq Bits
  /\ acks \subseteq Bits
  /\ carried_out \subseteq Commands
  /\ receiver \in [Peers -> Bits \cup {None}]
  /\ word \in [Commands \cup Peers -> SUBSET Bits]
  /\ reading \subseteq Peers

(* Two commands never share a number: an acknowledgement stops the thread  *)
(* of the command it is for, and no other.                                 *)
UniqueNumbers ==
  \A c, d \in Commands : seq[c] = seq[d] /\ seq[c] # None => c = d

(* A thread that stopped after an acknowledgement leaves a command behind  *)
(* that its peer has carried out, although the bit it looked at shares its *)
(* word with others that are stored back, stale, at any moment.            *)
StoppedMeansCarriedOut ==
  \A c \in Commands : sender[c] = "stopped" => c \in carried_out

(* The sending threads keep the promise of Handover.                       *)
H == INSTANCE Handover WITH
       handed   <- {c \in Commands : sender[c] # "none"},
       done     <- carried_out,
       released <- {c \in Commands : sender[c] = "stopped"},
       given_up <- {c \in Commands : sender[c] = "failed"}

ImplementsHandover == H!Spec

(* Lost copies, lost acknowledgements and lost bits only cost time: every  *)
(* sending thread ends, after an acknowledgement or a socket error, while  *)
(* there is a thread that reads what its peer says.                        *)
EverySenderStops ==
  \A c \in Commands :
    sender[c] = "running" ~>
      sender[c] \in {"stopped", "failed"} \/ to[c] \notin reading

=============================================================================
