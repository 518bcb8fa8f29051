---------------------------- MODULE FrameReader ----------------------------
(***************************************************************************)
(* frameReader and writeFrame (src/handshake.js): length-prefixed frames   *)
(* cut out of a byte stream that arrives in chunks of any size, read one   *)
(* at a time by a caller that may be busy when they come.                  *)
(***************************************************************************)
EXTENDS Integers, SequencesExt

CONSTANTS
  Base,        \* a byte is a number below Base (256)
  HeaderLen,   \* bytes of the length prefix (4)
  Caps,        \* the cap of each read the caller makes, in order
  TOTAL_CAP,
  MaxStream,   \* bound on what the peer sends
  MaxChunk     \* bound on one chunk

ASSUME FrameAssumption ==
  /\ Base \in Nat \ {0, 1}
  /\ HeaderLen \in Nat \ {0}
  /\ Caps \in Seq(Nat)
  /\ TOTAL_CAP \in Nat
  /\ MaxChunk \in Nat

VARIABLES
  buf,         \* bytes received and not yet read
  total,
  ended,
  failure,     \* the total cap was exceeded, or the socket failed
  waiter,      \* a read is pending
  delivered,   \* the frames read so far
  rejected,    \* a read was rejected, and the caller has given up
  destroyed,   \* socket.destroy() was called: no more events come
  accepted     \* all the bytes that ever entered the buffer

frameVars == <<buf, total, ended, failure, waiter, delivered, rejected, destroyed, accepted>>

Byte == 0 .. Base - 1

(* Big-endian, HeaderLen bytes wide, the most significant cut off: u32     *)
(* takes the last byte first, what is left of n then gives the others.     *)
writeUInt(n) ==
  LET left[i \in 1 .. HeaderLen] == IF i = 1 THEN n ELSE left[i - 1] \div Base
  IN  [i \in 1 .. HeaderLen |-> left[HeaderLen + 1 - i] % Base]

(* The number that the first HeaderLen bytes of b stand for.               *)
readUInt(b) ==
  LET value[i \in 1 .. HeaderLen] == IF i = 1 THEN b[1] ELSE value[i - 1] * Base + b[i]
  IN  value[HeaderLen]

(* The bytes of one frame on the wire.                                     *)
writeFrame(payload) == writeUInt(Len(payload)) \o payload

FrameTypeOK ==
  /\ buf \in Seq(Byte) /\ Len(buf) <= TOTAL_CAP
  /\ total \in Nat
  /\ ended \in BOOLEAN /\ failure \in BOOLEAN /\ waiter \in BOOLEAN
  /\ rejected \in BOOLEAN /\ destroyed \in BOOLEAN
  /\ delivered \in Seq(Seq(Byte)) /\ Len(delivered) <= Len(Caps)
  /\ accepted \in Seq(Byte)

FrameInit ==
  /\ buf = <<>>
  /\ total = 0
  /\ ended = FALSE
  /\ failure = FALSE
  /\ waiter = FALSE
  /\ delivered = <<>>
  /\ rejected = FALSE
  /\ destroyed = FALSE
  /\ accepted = <<>>

(* The cap of the read that is pending, or comes next.                     *)
cap == Caps[Len(delivered) + 1]

-----------------------------------------------------------------------------
HasHeader(b) == Len(b) >= HeaderLen
TooLong(b)   == HasHeader(b) /\ readUInt(b) > cap
Complete(b)  == HasHeader(b) /\ Len(b) >= HeaderLen + readUInt(b)

(* Mutants: an end hides what is still buffered; off by one.               *)
VerdictEndFirst(b, fails, ends) ==
  IF fails \/ ends \/ TooLong(b) THEN "reject"
  ELSE IF Complete(b) THEN "deliver" ELSE "wait"

VerdictLongFrames(b, fails, ends) ==
  IF fails THEN "reject"
  ELSE IF HasHeader(b) /\ readUInt(b) > cap + 1 THEN "reject"
  ELSE IF Complete(b) THEN "deliver"
  ELSE IF ends THEN "reject" ELSE "wait"

(* What pump does with a pending read, in the order it looks.              *)
Verdict(b, fails, ends) ==
  IF fails \/ TooLong(b) THEN "reject"
  ELSE IF Complete(b) THEN "deliver"
  ELSE IF ends THEN "reject" ELSE "wait"

(* Mutant: what follows the frame in the buffer is dropped.                *)
RestDropped(b) == <<>>

(* What the first frame in the buffer carries.                             *)
First(b) == SubSeq(b, HeaderLen + 1, HeaderLen + readUInt(b))

(* The buffer once its first frame is cut off.                             *)
Rest(b) == SubSeq(b, HeaderLen + readUInt(b) + 1, Len(b))

(* pump, with buffer b, for a read if one is pending. A rejection destroys *)
(* the socket, in pump itself or in the caller's catch.                    *)
pump(b, fails, ends, pending) ==
  LET verdict == IF pending THEN Verdict(b, fails, ends) ELSE "wait" IN
  /\ buf' = IF verdict = "deliver" THEN Rest(b) ELSE b
  /\ delivered' = IF verdict = "deliver" THEN Append(delivered, First(b)) ELSE delivered
  /\ waiter' = (pending /\ verdict = "wait")
  /\ rejected' = (rejected \/ verdict = "reject")

(* Mutant: only the chunk itself is held against the cap.                  *)
OverCapChunk(chunk) == Len(chunk) > TOTAL_CAP

OverCap(chunk) == total + Len(chunk) > TOTAL_CAP

(* 'data'.                                                                 *)
Data(chunk) ==
  /\ ~destroyed /\ ~ended
  /\ total' = total + Len(chunk)
  /\ IF OverCap(chunk)
       THEN /\ failure' = TRUE
            /\ destroyed' = TRUE
            /\ pump(buf, TRUE, ended, waiter)
            /\ UNCHANGED accepted
       ELSE /\ accepted' = accepted \o chunk
            /\ pump(buf \o chunk, failure, ended, waiter)
            /\ destroyed' = (rejected' \/ destroyed)
            /\ UNCHANGED failure
  /\ UNCHANGED ended

(* 'end'.                                                                  *)
End ==
  /\ ~destroyed /\ ~ended
  /\ ended' = TRUE
  /\ pump(buf, failure, TRUE, waiter)
  /\ destroyed' = (rejected' \/ destroyed)
  /\ UNCHANGED <<total, failure, accepted>>

(* 'error'.                                                                *)
Error ==
  /\ ~destroyed
  /\ failure' = TRUE
  /\ destroyed' = TRUE
  /\ pump(buf, TRUE, ended, waiter)
  /\ UNCHANGED <<total, ended, accepted>>

(* The handshake's deadline destroys the socket: no event tells the reader.*)
Deadline ==
  /\ ~destroyed
  /\ destroyed' = TRUE
  /\ UNCHANGED <<buf, total, ended, failure, waiter, delivered, rejected, accepted>>

(* Mutant: the read is only served by the next event.                      *)
ReadLazily ==
  /\ ~waiter /\ ~rejected
  /\ Len(delivered) < Len(Caps)
  /\ waiter' = TRUE
  /\ UNCHANGED <<buf, total, ended, failure, delivered, rejected, destroyed, accepted>>

(* read(cap): served at once from what is buffered, if that is enough.     *)
Read ==
  /\ ~waiter /\ ~rejected
  /\ Len(delivered) < Len(Caps)
  /\ pump(buf, failure, ended, TRUE)
  /\ destroyed' = (rejected' \/ destroyed)
  /\ UNCHANGED <<total, ended, failure, accepted>>

Chunk == UNION {[1 .. n -> Byte] : n \in 1 .. MaxChunk}

FrameNext ==
  \/ \E chunk \in Chunk : total + Len(chunk) <= MaxStream /\ Data(chunk)
  \/ End
  \/ Error
  \/ Deadline
  \/ Read

FrameSpec == FrameInit /\ [][FrameNext]_frameVars

-----------------------------------------------------------------------------
(* Properties.                                                             *)

(* However the stream is cut into chunks and whenever the caller reads, the*)
(* frames it gets are those that were sent, in order, each whole and once: *)
(* they and the buffer together are exactly the bytes accepted.            *)
NoByteLost ==
  FlattenSeq([i \in DOMAIN delivered |-> writeFrame(delivered[i])]) \o buf = accepted

(* No read waits for what is already there: not for a whole frame in the   *)
(* buffer, nor past an oversize length, the end of the stream or a failure.*)
NoStarvedRead == waiter => ~Complete(buf) /\ ~TooLong(buf) /\ ~ended /\ ~failure

(* A read is refused only for cause: a failure, a length beyond the cap, or*)
(* the end of the stream with no whole frame left in the buffer.           *)
RefusedForCause ==
  rejected => \/ failure
              \/ HasHeader(buf) /\ readUInt(buf) > cap
              \/ ended /\ ~Complete(buf)

(* No frame exceeds the cap of the read that returned it.                  *)
CapsRespected == \A i \in DOMAIN delivered : Len(delivered[i]) <= Caps[i]

=============================================================================
