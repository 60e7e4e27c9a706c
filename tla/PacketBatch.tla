------------------------------ MODULE PacketBatch ------------------------------
(***************************************************************************)
(* The data protocol of common/protocol: Transport.BatchWrite packs queued *)
(* packets into messages, compresses and encrypts them, and ReadMessage    *)
(* and ParseBatch undo it on the other side.  Bytes are left out; what is  *)
(* kept is every length, every limit and the region of the two work        *)
(* buffers each layer reads and writes, because each Transport reuses two  *)
(* arrays of 65535 bytes for all layers.                                   *)
(***************************************************************************)
EXTENDS Integers, SeqFolds

CONSTANTS BatchInputs,  \* sequences of packet sizes given to BatchWrite
          RxBatchSize,  \* Config.BatchSize of the receiving hub
          RxMTU         \* its Config.MTU

MaxTransportByteSize == 65535
MaxTransportBatchSize == 128
DefaultCompressThreshold == 10240
NonceSize == 24     \* Chacha20Poly1305NonceSize
TagSize == 16       \* Chacha20Poly1305Overhead
ZstdOverhead == 17
MaxDataLen == 65530 \* what batchWrite accepts
Uint16 == 65536     \* a length in a header is modulo this

ASSUME InputsAssumption ==
  /\ RxBatchSize \in Nat /\ RxMTU \in Nat
  /\ BatchInputs \subseteq Seq(1..RxMTU)

VARIABLES
  pktOpts,  \* [encrypt, compress] of both transports
  packets,  \* the packet sizes given to BatchWrite; a packet is its index
  start,    \* first packet not yet written
  wire,     \* messages written and not yet read
  received, \* packets handed to the receiving hub
  txErr,    \* error returned by BatchWrite
  rxErr,    \* error returned by ReadMessage or ParseBatch
  touched   \* pairs of buffer regions that one call reads and writes

pktVars == <<pktOpts, packets, start, wire, received, txErr, rxErr, touched>>

NoErr == "none"

PktInit ==
  /\ pktOpts \in [encrypt : BOOLEAN, compress : BOOLEAN]
  /\ packets \in BatchInputs
  /\ start = 1
  /\ wire = <<>>
  /\ received = <<>>
  /\ txErr = NoErr
  /\ rxErr = NoErr
  /\ touched = {}

-------------------------------------------------------------------------------
(* A batch holds its count, the size of each packet and the packets.  The   *)
(* sum is taken in two halves, so that a recursion over a full batch stays  *)
(* within TLC's stack.                                                      *)
DataLen(sizes) ==
  LET half == Len(sizes) \div 2
      share(lo, hi) == Total([i \in 1..(hi - lo) |-> 2 + sizes[lo + i]])
  IN 2 + share(0, half) + share(half, Len(sizes))

(* What one iteration of BatchWrite reserves before it counts packets. *)
BaseOverhead == 7 + 2 + IF pktOpts.encrypt THEN TagSize ELSE 0

(* Where a message that begins with the first unwritten packet may end. *)
BatchEnds ==
  {start - 1} \cup
  {e \in start..Len(packets) :
     /\ e - start < MaxTransportBatchSize
     /\ DataLen(SubSeq(packets, start, e)) - 2 <= MaxTransportByteSize - BaseOverhead}

(* The inner loop takes packets as long as they fit. *)
BatchEnd ==
  LET ends == BatchEnds IN CHOOSE e \in ends : \A other \in ends : other <= e

Region(buf, lo, hi) == [buf |-> buf, lo |-> lo, hi |-> hi]

(* Compression of type, length and data inside cryptoBuffer: the layout     *)
(* depends on whether source and worst-case target fit side by side.        *)
SideBySide(headerLen) ==
  /\ headerLen + 1000 < MaxTransportByteSize
  /\ MaxTransportByteSize - headerLen >= headerLen + ZstdOverhead

CompressSource(headerLen) ==
  IF SideBySide(headerLen) THEN Region("crypto", 0, headerLen)
  ELSE Region("crypto", 7, 7 + headerLen)

(* The zstd frame: anything from a fraction of the input to the input and   *)
(* its frame header.                                                        *)
CompressedLens(headerLen) ==
  {headerLen \div 4, headerLen - 4, headerLen - 3, headerLen + ZstdOverhead}

CompressError(headerLen) ==
  LET src == CompressSource(headerLen) IN
  IF src.hi > MaxTransportByteSize THEN "ErrMessageTooLarge"
  ELSE IF MaxTransportByteSize - src.hi < headerLen + ZstdOverhead
       THEN "buffer capacity too small"
       ELSE NoErr

Plain(sizes, first) ==
  [typ |-> "batch", len |-> DataLen(sizes), body |-> [i \in DOMAIN sizes |-> first + i - 1],
   at |-> Region("buffer", 7, 7 + DataLen(sizes)), calls |-> {}, err |-> NoErr]

(* The compression layer: used only when the result is smaller. *)
Compress(m, clen) ==
  LET headerLen == 3 + m.len
      src == CompressSource(headerLen)
      dst == Region("crypto", src.hi, src.hi + clen)
      calls == {<<src, dst>>} IN
  IF ~pktOpts.compress \/ m.len < DefaultCompressThreshold THEN m
  ELSE IF CompressError(headerLen) # NoErr
       THEN [m EXCEPT !.err = CompressError(headerLen)]
       ELSE IF clen < m.len
            THEN [typ |-> "compress", len |-> clen, at |-> dst, calls |-> calls,
                  body |-> [typ |-> m.typ, len |-> m.len, body |-> m.body], err |-> NoErr]
            ELSE [m EXCEPT !.calls = calls]

SealInPlace(innerLen, sealedLen) == Region("crypto", 0, sealedLen)

(* Where Encrypt writes: behind the inner message when cryptoBuffer holds   *)
(* both, else over cryptoBuffer with the inner message in buffer.           *)
SealTarget(innerLen, sealedLen) ==
  IF innerLen + sealedLen <= MaxTransportByteSize
  THEN Region("crypto", innerLen, innerLen + sealedLen)
  ELSE Region("crypto", 0, sealedLen)

(* The encryption layer: type, length and data, a nonce and a tag. *)
Encrypt(m) ==
  LET innerLen == 3 + m.len
      sealedLen == innerLen + NonceSize + TagSize
      dst == SealTarget(innerLen, sealedLen)
      buf == IF innerLen + sealedLen <= MaxTransportByteSize THEN "crypto" ELSE "buffer" IN
  IF ~pktOpts.encrypt \/ m.err # NoErr THEN m
  ELSE IF sealedLen > MaxTransportByteSize - 7
       THEN [m EXCEPT !.err = "ErrMessageTooLarge"]
       ELSE [typ |-> "encrypted", len |-> sealedLen, at |-> dst, err |-> NoErr,
             body |-> [typ |-> m.typ, len |-> m.len, body |-> m.body],
             calls |-> m.calls \cup {<<Region(buf, 0, 3), m.at>>,
                                     <<Region(buf, 0, innerLen), dst>>}]

(* batchWrite of the packets first..last, compressed to clen bytes. *)
batchWrite(first, last, clen) ==
  LET m == Plain(SubSeq(packets, first, last), first) IN
  IF m.len > MaxDataLen THEN [m EXCEPT !.err = "ErrMessageTooLarge"]
  ELSE Encrypt(Compress(m, clen))

(* The header in front of a message: its type and its length on 16 bits. *)
Writable(m) == [typ |-> m.typ, len |-> m.len % Uint16, body |-> m.body]

(* One iteration of BatchWrite. *)
BatchWrite ==
  /\ txErr = NoErr
  /\ start <= Len(packets)
  /\ LET end == BatchEnd IN
     IF end < start
     THEN /\ txErr' = "ErrMessageTooLarge"
          /\ UNCHANGED <<start, wire, touched>>
     ELSE \E clen \in CompressedLens(3 + DataLen(SubSeq(packets, start, end))) :
            LET m == batchWrite(start, end, clen) IN
            /\ txErr' = m.err
            /\ touched' = m.calls
            /\ IF m.err = NoErr
               THEN start' = end + 1 /\ wire' = Append(wire, Writable(m))
               ELSE UNCHANGED <<start, wire>>
  /\ UNCHANGED <<pktOpts, packets, received, rxErr>>

-------------------------------------------------------------------------------
FitsStrictly(outerLen, inner) == outerLen % Uint16 > (3 + inner.len) % Uint16

(* One layer of ReadMessage: the inner message is accepted when its header  *)
(* and length fit in what the layer held, in arithmetic on 16 bits.         *)
Fits(outerLen, inner) == outerLen % Uint16 >= (3 + inner.len) % Uint16

(* A message that cannot be read.  Decrypt passes an inner length that does *)
(* not fit on without an error; what then comes out is nothing BatchWrite   *)
(* was given, so it counts as unreadable too.                               *)
Garbled(error) == [typ |-> "none", len |-> 0, body |-> <<>>, err |-> error]

(* Decrypt into cryptoBuffer and move the inner message back to buffer. *)
Decrypt(m) ==
  IF m.typ # "encrypted" THEN m
  ELSE IF Fits(m.len - NonceSize - TagSize, m.body)
       THEN [typ |-> m.body.typ, len |-> m.body.len, body |-> m.body.body, err |-> NoErr]
       ELSE Garbled("inner length")

(* Decompress into cryptoBuffer and copy the original data to buffer. *)
Decompress(m) ==
  IF m.typ # "compress" \/ m.err # NoErr THEN m
  ELSE IF 3 + m.body.len > MaxTransportByteSize - 7 THEN Garbled("ErrMessageTooLarge")
       ELSE IF Fits(3 + m.body.len, m.body)
            THEN [typ |-> m.body.typ, len |-> m.body.len, body |-> m.body.body, err |-> NoErr]
            ELSE Garbled("ErrDecompressionFailed")

(* The slice of buffer that holds the data ends at 7 + length, on 16 bits. *)
ReadMessage(m) ==
  IF (7 + m.len) % Uint16 < 7 THEN Garbled("slice bounds out of range")
  ELSE Decompress(Decrypt([typ |-> m.typ, len |-> m.len, body |-> m.body, err |-> NoErr]))

ParseBatch(ids) ==
  IF Len(ids) > RxBatchSize THEN "sizes array too small"
  ELSE IF \E i \in DOMAIN ids : packets[ids[i]] > RxMTU THEN "buf slice too small"
       ELSE NoErr

(* One message through HandleRx: read, parse, hand over. *)
HandleBatch ==
  /\ wire # <<>>
  /\ rxErr = NoErr
  /\ wire' = Tail(wire)
  /\ LET m == ReadMessage(Head(wire)) IN
     LET err == IF m.err # NoErr THEN m.err ELSE ParseBatch(m.body) IN
     /\ rxErr' = err
     /\ received' = IF err = NoErr THEN received \o m.body ELSE received
  /\ UNCHANGED <<pktOpts, packets, start, txErr, touched>>

PktNext == BatchWrite \/ HandleBatch

PktSpec == PktInit /\ [][PktNext]_pktVars

-------------------------------------------------------------------------------
(* Types; a message written leaves room for its header of seven bytes in    *)
(* MaxTransportByteSize.                                                    *)
PktTypeOK ==
  /\ packets \in BatchInputs
  /\ start \in 1..(Len(packets) + 1)
  /\ \A i \in DOMAIN wire : wire[i].len <= MaxTransportByteSize - 7
  /\ \A i \in DOMAIN received : received[i] \in DOMAIN packets

(* Whatever layers are on, the receiving hub gets the packets of BatchWrite *)
(* once each, in order and without an error, and all those of the messages  *)
(* written so far once it has read them (ReadMessage undoes the layers in   *)
(* the reverse order, with lengths on 16 bits).                             *)
PacketsArriveInOrder ==
  /\ rxErr = NoErr
  /\ received = [i \in DOMAIN received |-> i]
  /\ wire = <<>> => Len(received) = start - 1

Overlap(a, b) == a.buf = b.buf /\ a.lo < b.hi /\ b.lo < a.hi

(* Compress and Encrypt never write over the bytes they are reading, and    *)
(* never past the end of the buffer, although all layers of a message share *)
(* two arrays.                                                              *)
BuffersApart ==
  \A c \in touched :
    ~Overlap(c[1], c[2]) /\ c[1].hi <= MaxTransportByteSize
                         /\ c[2].hi <= MaxTransportByteSize

===============================================================================
