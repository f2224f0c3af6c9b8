---------------------------- MODULE FramedStreams ----------------------------
(***************************************************************************)
(* The stream codecs of the outbounds (vmess.rs, shadowsocks.rs, snell.rs, *)
(* ssr.rs, shadowtls.rs, protocol/ws.rs, protocol/obfs.rs) below the relay *)
(* of common/stream.rs.  None of them offers a shared handle, so the relay *)
(* arms a 25 ms read timeout: a read may be interrupted after any byte, and *)
(* the codec has to resume where it stopped.                               *)
(*                                                                         *)
(* A byte of the downlink is its position on the wire.  A record is a list *)
(* of fields of two bytes each, so that a poll can fall inside every one.  *)
(* A field opens (its MAC holds, its length makes sense) when the two      *)
(* bytes collected for it are the two the peer sent for it.                *)
(***************************************************************************)
EXTENDS Integers, FiniteSets, Sequences, SequencesExt, FiniteSetTheorems, TLAPS

CONSTANTS Codecs,   \* the codecs of the run
          Frames,   \* records with payload the peer sends
          Limit,    \* the largest chunk counter: u16::MAX for VMess
          Chunks    \* chunks of one write: RELAY_BUF_SIZE over the chunk size

Known == {"vmess", "legacy", "ss", "snell", "ssr", "shadowtls", "ws", "tlsobfs", "httpobfs"}

ASSUME FramedAssumption ==
    Codecs \subseteq Known /\ Frames \in Nat \ {0} /\ Limit \in Nat /\ Chunks \in Nat \ {0}

VARIABLES codec,
          arr, rd,   \* bytes that have arrived, and bytes taken off the socket
          closed,    \* the peer has closed: no byte arrives any more
          stage,     \* the field being read
          fill,      \* its bytes so far
          dec,       \* fields opened so far: the counter of the downlink, and its key
          left,      \* payload_remaining of a record that is passed through
          first,     \* first_record: no record of the data phase seen yet
          out,       \* the bytes the relay was given
          status,    \* the last read: "open", "eof" or "error"
          enc,       \* the chunk counter of the uplink
          used,      \* every nonce the uplink sealed with, in order
          endSent,   \* end_chunk_sent, close_sent
          uplink     \* "open", "failed" (a write came back with an error), then "shut" or "aborted"

down == <<arr, rd, closed, stage, fill, dec, left, first, out, status>>
up == <<enc, used, endSent, uplink>>
vars == <<codec, down, up>>

-----------------------------------------------------------------------------
(* What the peer sends, per protocol: the fields before the first record,  *)
(* those of a record, and the record that says there is no more.           *)

Prologue(c) ==
    CASE c = "vmess" -> <<"hlen", "hpay">>
      [] c = "legacy" -> <<"legacy">>
      [] c \in {"ss", "snell"} -> <<"salt">>
      [] c = "ssr" -> <<"preamble", "iv">>
      [] c = "shadowtls" -> <<"len", "straggler">>
      [] c = "ws" -> <<>>
      [] c = "tlsobfs" -> <<"hello", "len", "pay">>   \* its first record has no prefix
      [] c = "httpobfs" -> <<"head">>

RecordFields(c) ==
    CASE c = "snell" -> <<"len", "padding", "pay">>
      [] c = "tlsobfs" -> <<"prefix", "len", "pay">>
      [] c = "httpobfs" -> <<"pay">>
      [] OTHER -> <<"len", "pay">>

EndMark(c) == IF c \in {"vmess", "legacy", "shadowtls", "ws"} THEN <<"len", "end">> ELSE <<>>

\* Where the f-th of the records ends, the last field of which is its payload.
Records(c) == IF c = "tlsobfs" THEN Frames - 1 ELSE Frames
RecordEnd(c, f) == Len(Prologue(c)) + f * Len(RecordFields(c))
PayField(c, f) == RecordEnd(c, f - (Frames - Records(c)))
WireLen(c) == RecordEnd(c, Records(c)) + Len(EndMark(c))

Field(c, k) ==
    LET r == k - Len(Prologue(c))
        e == k - RecordEnd(c, Records(c))
    IN IF r <= 0 THEN Prologue(c)[k]
       ELSE IF e <= 0 THEN RecordFields(c)[1 + ((r - 1) % Len(RecordFields(c)))]
       ELSE EndMark(c)[e]

\* The fields of the wire, and the bytes of it that are payload.
WireOf == [c \in Codecs |-> [k \in 1 .. WireLen(c) |-> Field(c, k)]]
PayloadOf ==
    [c \in Codecs |-> [i \in 1 .. 2 * Frames |-> 2 * PayField(c, (i + 1) \div 2) - (i % 2)]]
Wire == WireOf[codec]
Payload == PayloadOf[codec]

\* The bytes collected are the two of one field of the given kind.
Genuine(bytes, field) ==
    /\ bytes[2] = bytes[1] + 1 /\ bytes[1] % 2 = 1
    /\ Wire[(bytes[1] + 1) \div 2] = field

\* A sealed field opens only with the key and the counter it was sealed with:
\* when it is the next one after those that were opened before.
Opens(bytes, field) == Genuine(bytes, field) /\ bytes[1] = 2 * dec + 1

-----------------------------------------------------------------------------
FirstStage(c) == IF c = "ws" THEN "len" ELSE Head(Prologue(c))

Init ==
    /\ codec \in Codecs
    /\ arr = 0 /\ rd = 0 /\ closed = FALSE
    /\ stage = FirstStage(codec)
    /\ fill = <<>> /\ dec = 0 /\ left = 0 /\ first = TRUE
    /\ out = <<>> /\ status = "open"
    /\ enc = 0 /\ used = <<>> /\ endSent = FALSE /\ uplink = "open"

-----------------------------------------------------------------------------
(* A field is complete: where each codec goes from there.  The operators   *)
(* give the next stage, the bytes delivered and the verdict of the read.   *)

Go(s) == [stage |-> s, out |-> <<>>, status |-> "open"]
Broken == [stage |-> stage, out |-> <<>>, status |-> "error"]
Finished == [stage |-> stage, out |-> <<>>, status |-> "eof"]
Hand(bytes) == [stage |-> "len", out |-> bytes, status |-> "open"]

\* dec_exhausted: the chunk after the one that used the last counter value.
VmessDecExhausted == (dec - Len(Prologue(codec))) \div 2 > Limit

\* Each stage keeps its scratch buffer across calls; an empty chunk is the end.
VmessAdvance(b) ==
    CASE stage = "hlen" -> IF Opens(b, "hlen") THEN Go("hpay") ELSE Broken
      [] stage \in {"hpay", "legacy"} -> IF Opens(b, stage) THEN Go("len") ELSE Broken
      [] stage = "len" -> Go("pay")
      [] stage = "pay" -> CASE ~ VmessDecExhausted /\ Opens(b, "pay") -> Hand(b)
                            [] ~ VmessDecExhausted /\ Opens(b, "end") -> Finished
                            [] OTHER -> Broken

\* A build whose decrypt takes the nonce from elsewhere than the counter.
ShadowsocksAdvanceAnyNonce(b) ==
    CASE stage = "salt" -> Go("len")
      [] stage = "len" /\ Genuine(b, "len") -> Go("pay")
      [] stage = "pay" /\ Genuine(b, "pay") -> Hand(b)
      [] OTHER -> Broken

\* The salt makes the key; the length is sealed and so is the chunk.
ShadowsocksAdvance(b) ==
    CASE stage = "salt" -> Go("len")
      [] stage = "len" /\ Opens(b, "len") -> Go("pay")
      [] stage = "pay" /\ Opens(b, "pay") -> Hand(b)
      [] OTHER -> Broken

SnellAdvance(b) ==
    CASE stage = "salt" -> Go("len")
      [] stage = "len" /\ Opens(b, "len") -> Go("padding")
      [] stage = "padding" -> Go("pay")
      [] stage = "pay" /\ Opens(b, "pay") -> Hand(b)
      [] OTHER -> Broken

\* The fake response or handshake in front (SsrObfsState::unwrap), the IV
\* (drain_incoming), then the frames of the auth protocols, each checked
\* against its MAC before it is drained from the buffer.
SsrUnwrapObfs(b) == IF Opens(b, "preamble") THEN Go("iv") ELSE Broken
SsrUnwrapFrame(b) == IF Opens(b, stage) THEN IF stage = "len" THEN Go("pay") ELSE Hand(b) ELSE Broken
SsrAdvance(b) ==
    CASE stage = "preamble" -> SsrUnwrapObfs(b)
      [] stage = "iv" -> Go("len")
      [] OTHER -> SsrUnwrapFrame(b)

\* A late record of the camouflage handshake is dropped by its own MAC, an
\* alert is the end, and the first frame under the data MAC retires the other.
ShadowTlsDecode(b) ==
    CASE stage = "len" -> Go("pay")
      [] stage = "pay" /\ Opens(b, "end") -> Finished
      [] stage = "pay" /\ Opens(b, "straggler") /\ first -> Go("len")
      [] stage = "pay" /\ Opens(b, "pay") -> Hand(b)
      [] OTHER -> Broken

\* The session of the WebSocket library buffers a frame until it is whole.
WebSocketRead(b) ==
    CASE stage = "len" -> Go("pay")
      [] stage = "pay" /\ Opens(b, "end") -> Finished
      [] OTHER -> Hand(b)

\* The record prefix is skipped once: after the first record.
TlsObfsRead(b) ==
    CASE stage \in {"hello", "prefix"} -> Go("len")
      [] OTHER -> Go("pay")
TlsObfsAfterRecord == IF first THEN "prefix" ELSE "len"
\* The length of a record, and what the prefix of one reads as: far too much.
TlsObfsLength(b) == IF Genuine(b, "len") THEN 2 ELSE 2 * Len(Wire)

Advance(b) ==
    CASE codec \in {"vmess", "legacy"} -> VmessAdvance(b)
      [] codec = "ss" -> ShadowsocksAdvance(b)
      [] codec = "snell" -> SnellAdvance(b)
      [] codec = "ssr" -> SsrAdvance(b)
      [] codec = "shadowtls" -> ShadowTlsDecode(b)
      [] codec = "ws" -> WebSocketRead(b)
      [] codec = "tlsobfs" -> TlsObfsRead(b)
      [] codec = "httpobfs" -> Go("pay")

\* These two give payload to the relay as it comes, byte by byte.
PassesThrough == codec \in {"httpobfs", "tlsobfs"} /\ stage = "pay"

-----------------------------------------------------------------------------
(* The socket of the downlink and the read of the relay.                   *)

Arrive ==
    /\ ~ closed /\ arr < 2 * Len(Wire)
    /\ arr' = arr + 1
    /\ UNCHANGED <<codec, rd, closed, stage, fill, dec, left, first, out, status, up>>

\* The peer closes, wherever it is.
PeerCloses ==
    /\ ~ closed
    /\ closed' = TRUE
    /\ UNCHANGED <<codec, arr, rd, stage, fill, dec, left, first, out, status, up>>

\* The key made from a salt of which some bytes are missing opens nothing.
WrongKey == -1000

\* One byte of the field being read; the last one completes it.
Collect ==
    /\ status = "open" /\ rd < arr /\ ~ PassesThrough
    /\ rd' = rd + 1
    /\ LET b == Append(fill, rd + 1)
           next == Advance(b)
       IN IF Len(b) < 2
            THEN fill' = b /\ UNCHANGED <<stage, dec, left, first, out, status>>
            ELSE /\ fill' = <<>>
                 /\ stage' = next.stage
                 /\ out' = out \o next.out
                 /\ status' = next.status
                 /\ left' = IF codec = "tlsobfs" /\ next.stage = "pay" THEN TlsObfsLength(b) ELSE left
                 /\ first' = (first /\ next.out = <<>>)
                 /\ dec' = IF stage = "salt" /\ ~ Genuine(b, "salt") THEN WrongKey ELSE dec + 1
    /\ UNCHANGED <<codec, arr, closed, up>>

\* One byte handed on as it is.
PassThrough ==
    /\ status = "open" /\ rd < arr /\ PassesThrough
    /\ rd' = rd + 1
    /\ out' = Append(out, rd + 1)
    /\ IF codec = "tlsobfs" /\ left = 1
         THEN stage' = TlsObfsAfterRecord /\ left' = 0 /\ first' = FALSE
         ELSE UNCHANGED <<stage, first>> /\ left' = IF left > 0 THEN left - 1 ELSE left
    /\ UNCHANGED <<codec, arr, closed, fill, dec, status, up>>

\* The poll of the relay elapses: read_exact forgets what it had, and what
\* comes next is taken for the start of a chunk.
ShadowsocksIdle == fill' = <<>> /\ stage' = (IF stage = "pay" THEN "len" ELSE stage) /\ UNCHANGED status
\* Every error of read_record becomes ErrorKind::Other, the poll included.
SnellIdle == status' = "error" /\ UNCHANGED <<fill, stage>>
\* response_skipped is set before the head has been read.
HttpObfsIdle == fill' = <<>> /\ stage' = "pay" /\ UNCHANGED status
ForgetsProgress == fill' = <<>> /\ UNCHANGED <<stage, status>>
KeepsProgress == UNCHANGED <<fill, stage, status>>

Idle ==
    /\ status = "open" /\ rd = arr /\ ~ closed
    /\ CASE codec = "ss" -> ShadowsocksIdle
         [] codec = "snell" -> SnellIdle
         [] codec = "httpobfs" -> HttpObfsIdle
         [] OTHER -> KeepsProgress
    /\ UNCHANGED <<codec, arr, rd, closed, dec, left, first, out, up>>

\* The socket has no more bytes: which codecs can tell where that happened.
VmessEnd == IF stage = "len" /\ fill = <<>> THEN "eof" ELSE "error"
ShadowsocksEnd == IF stage = "len" THEN "eof" ELSE "error"
SnellEnd == IF stage = "salt" /\ fill = <<>> THEN "eof" ELSE "error"
SsrReadsOn == "open"
SsrEnd == "eof"
ShadowTlsEnd == "eof"
WebSocketEnd == "eof"
TlsObfsEnd ==
    CASE stage = "pay" -> "error"
      [] stage = "len" -> IF fill = <<>> THEN "eof" ELSE "error"
      [] OTHER -> "eof"
HttpObfsEnd == "eof"

EndOfStream ==
    /\ status = "open" /\ rd = arr /\ closed
    /\ status' = CASE codec \in {"vmess", "legacy"} -> VmessEnd
                   [] codec = "ss" -> ShadowsocksEnd
                   [] codec = "snell" -> SnellEnd
                   [] codec = "ssr" -> SsrEnd
                   [] codec = "shadowtls" -> ShadowTlsEnd
                   [] codec = "ws" -> WebSocketEnd
                   [] codec = "tlsobfs" -> TlsObfsEnd
                   [] codec = "httpobfs" -> HttpObfsEnd
    /\ UNCHANGED <<codec, arr, rd, closed, stage, fill, dec, left, first, out, up>>

-----------------------------------------------------------------------------
(* The uplink: a write seals one chunk after another, each with the next   *)
(* counter; a write to the socket may fail (RELAY_WRITE_TIMEOUT) and then  *)
(* the relay releases the stream, which shuts it down.                     *)

Counter(k) == [i \in 1 .. k |-> enc + i - 1]

\* A build without enc_exhausted: the u16 wraps.
VmessWriteWraps(n) ==
    \/ used' = used \o Counter(n) /\ enc' = (enc + n) % (Limit + 1) /\ UNCHANGED uplink
    \/ uplink' = "failed" /\ UNCHANGED <<enc, used>>

\* VMess: the counter is stored only after the last chunk; u16::MAX is its
\* last value, after which the stream refuses to write.
VmessWrite(n) ==
    /\ enc <= Limit
    /\ n <= Limit - enc + 1
    /\ \/ used' = used \o Counter(n) /\ enc' = enc + n /\ UNCHANGED uplink
       \/ \E k \in 1 .. n : used' = used \o Counter(k) /\ UNCHANGED enc /\ uplink' = "failed"
VmessRefuses(n) == (enc > Limit \/ n > Limit - enc + 1) /\ uplink' = "failed" /\ UNCHANGED <<enc, used>>
\* The end-of-stream chunk, once, with the next counter.
VmessShutdown ==
    IF endSent \/ enc > Limit THEN UNCHANGED <<enc, used>>
    ELSE used' = Append(used, enc) /\ enc' = enc + 1

\* Shadowsocks, Snell and ShadowTLS move their counter or their rolling MAC
\* on before the bytes are written, whether or not the write succeeds.
SealThenWrite(n) ==
    \/ used' = used \o Counter(n) /\ enc' = enc + n /\ UNCHANGED uplink
    \/ \E k \in 1 .. n : used' = used \o Counter(k) /\ enc' = enc + k /\ uplink' = "failed"
ShadowsocksWrite(n) == SealThenWrite(2 * n)   \* the length and the data
SnellWrite(n) == SealThenWrite(2 * n)         \* the header and the payload
ShadowTlsWrite(n) == SealThenWrite(n)
\* The others have no counter.
PlainWrite == UNCHANGED <<enc, used>> /\ uplink' \in {uplink, "failed"}
SsrWrite == PlainWrite
WebSocketWrite == PlainWrite
TlsObfsWrite == PlainWrite
HttpObfsWrite == PlainWrite

Write(n) ==
    /\ uplink = "open" /\ status # "error"
    /\ codec \in {"vmess", "legacy"} \/ enc + n <= Limit + 1  \* the bound of the other counters
    /\ CASE codec \in {"vmess", "legacy"} -> VmessWrite(n) \/ VmessRefuses(n)
         [] codec = "ss" -> ShadowsocksWrite(n)
         [] codec = "snell" -> SnellWrite(n)
         [] codec = "shadowtls" -> ShadowTlsWrite(n)
         [] codec = "ssr" -> SsrWrite
         [] codec = "ws" -> WebSocketWrite
         [] codec = "tlsobfs" -> TlsObfsWrite
         [] codec = "httpobfs" -> HttpObfsWrite
    /\ UNCHANGED <<codec, down, endSent>>

\* shutdown: the end of the client (Write) or the release of the relay (Both).
Shutdown ==
    /\ uplink \in {"open", "failed"}
    /\ IF codec \in {"vmess", "legacy"} THEN VmessShutdown ELSE UNCHANGED <<enc, used>>
    /\ endSent' = TRUE
    /\ uplink' = IF uplink = "failed" THEN "aborted" ELSE "shut"
    /\ UNCHANGED <<codec, down>>

Next ==
    \/ Arrive \/ PeerCloses
    \/ Collect \/ PassThrough \/ Idle \/ EndOfStream
    \/ \E n \in 1 .. Chunks : Write(n)
    \/ Shutdown

Reading == Collect \/ PassThrough \/ EndOfStream

Spec == Init /\ [][Next]_vars /\ WF_vars(Reading)

-----------------------------------------------------------------------------
(* The codecs that keep their place, as the abstract pipe of RecordStream. *)

Keeping == {"vmess", "legacy", "ssr", "shadowtls", "ws"}
Sealed == {"vmess", "legacy", "ss", "snell", "ssr", "shadowtls"}

\* The bytes that have arrived end between two records.
AtBoundary ==
    arr = 2 * WireLen(codec) \/ \E f \in 0 .. Records(codec) : arr = 2 * RecordEnd(codec, f)

\* Payload whose record has arrived in full.
WholeRecords == 2 * Cardinality({f \in 1 .. Frames : 2 * PayField(codec, f) <= arr})

\* The other codecs map to a pipe on which nothing ever happens.
Kept(value, otherwise) == IF codec \in Keeping THEN value ELSE otherwise

PipeArrived == Kept(WholeRecords, 0)
PipeDelivered == Kept(IF IsPrefix(out, Payload) THEN Len(out) ELSE -1, 0)
PipeEnded == Kept(IF ~ closed THEN "no" ELSE IF AtBoundary THEN "between" ELSE "inside", "no")
PipeStatus == Kept(status, "open")

Pipe == INSTANCE RecordStream WITH
    total <- Len(Payload),
    strict <- codec \in {"vmess", "legacy"},
    arrived <- PipeArrived, delivered <- PipeDelivered, ended <- PipeEnded, status <- PipeStatus

\* Whatever the polls of the relay interrupt, VMess, SSR, ShadowTLS and the
\* WebSocket deliver what arrived, once and in order, end only with all of it
\* delivered, and (VMess) fail only on a record the peer left unfinished.
ImplementsRecordStream == Pipe!Spec

\* A codec that authenticates its records never hands on a byte out of place,
\* not even after a poll has cost it part of a field.
NothingOutOfPlace == codec \in Sealed => IsPrefix(out, Payload)

\* No two chunks of a direction are sealed with the same counter, up to and
\* past its last value, except by VMess after a write that failed half-way.
NonceUsedOnce ==
    (codec \in {"vmess", "legacy"} => uplink \in {"open", "shut"})
        => \A i, j \in DOMAIN used : i # j => used[i] # used[j]

\* A codec that authenticates its records hands on no byte out of place, and
\* seals no two chunks with one counter (vmess.rs, shadowsocks.rs, snell.rs,
\* ssr.rs, shadowtls.rs).
RecordsAreSound == NothingOutOfPlace /\ NonceUsedOnce

\* The read side comes to an end once the peer has closed.
Unread == closed /\ status = "open"
ReadEnds == <>[]~Unread

\* What the head of protocol/obfs.rs asks of the read sides: a poll between or
\* inside records leaves them in step with the peer.
ResumesInStep == IsPrefix(out, Payload) /\ (status = "error" => closed)

-----------------------------------------------------------------------------
(* RecordsAreSound for every number of records and every counter limit,    *)
(* and ImplementsRecordStream while the records fit the counter.           *)

\* What the socket, the field being read and the uplink look like.
Shapes ==
    /\ codec \in Codecs
    /\ arr \in Nat /\ rd \in Nat /\ rd <= arr /\ arr <= 2 * WireLen(codec)
    /\ fill \in Seq(Nat \ {0}) /\ Len(fill) <= 1 /\ \A i \in DOMAIN fill : fill[i] <= rd
    /\ dec \in Int
    /\ enc \in Nat /\ used \in Seq(Nat)
    /\ uplink \in {"open", "failed", "shut", "aborted"}
    /\ status \in {"open", "eof", "error"}

\* Up to the write that failed half-way the nonces are the counter's values.
Counted ==
    (codec \in {"vmess", "legacy"} => uplink \in {"open", "shut"}) =>
        Len(used) = enc /\ \A i \in DOMAIN used : used[i] = i - 1

\* The bytes handed on are the first ones of the payload.
InPlace ==
    codec \in Sealed \cup Keeping =>
        /\ out \in Seq(Nat) /\ Len(out) <= 2 * Frames
        /\ \A i \in DOMAIN out : out[i] = Payload[i]

\* The stage of a codec that keeps its place inside the fields before the records.
PrologueStage(c, k) == IF c = "shadowtls" /\ k = 1 THEN "pay" ELSE Prologue(c)[k + 1]

\* A codec that keeps its place has opened what it has read, but for the
\* byte in hand, and its stage is the one of the next field.
InStep ==
    codec \in Keeping /\ status = "open" =>
        /\ rd = 2 * dec + Len(fill)
        /\ fill \in {<<>>, <<2 * dec + 1>>}
        /\ first <=> out = <<>>
        /\ \E n \in 0 .. Frames :
              /\ Len(out) = 2 * n
              /\ \/ n = 0 /\ dec \in 0 .. Len(Prologue(codec)) - 1 /\ stage = PrologueStage(codec, dec)
                 \/ dec = RecordEnd(codec, n) /\ stage = "len"
                 \/ dec = RecordEnd(codec, n) + 1 /\ stage = "pay"

\* n records end among the first k fields.
Passed(n, k) ==
    /\ n \in 0 .. Frames
    /\ n > 0 => RecordEnd(codec, n) <= k
    /\ n < Frames => k < RecordEnd(codec, n + 1)

\* One that may lose its place has opened fields in order all the same: its
\* counter says how many records it has handed on.  A wrong key opens none.
InOrder ==
    codec \in {"ss", "snell"} /\ status = "open" =>
        /\ stage \in {"salt", "len", "padding", "pay"}
        /\ stage = "salt" => dec = 0
        /\ dec < 0 => stage = "len" /\ out = <<>>
        /\ dec >= 0 => \E n \in 0 .. Frames : Len(out) = 2 * n /\ Passed(n, dec)
        /\ stage = "padding" =>
              codec = "snell" /\ \E f \in 1 .. Frames : dec + 2 = RecordEnd(codec, f)

StreamInv == Shapes /\ Counted /\ InPlace /\ InStep /\ InOrder


\* The layout of the wire of a codec whose record is a length and a payload.
LEMMA PairLayout ==
  ASSUME NEW c \in Keeping \cup {"ss"}
  PROVE  /\ Len(Prologue(c)) \in 0 .. 2 /\ RecordFields(c) = <<"len", "pay">>
         /\ Len(EndMark(c)) = IF c \in {"ss", "ssr"} THEN 0 ELSE 2
         /\ Records(c) = Frames
         /\ \A f \in Int : RecordEnd(c, f) = Len(Prologue(c)) + 2 * f /\ PayField(c, f) = RecordEnd(c, f)
         /\ WireLen(c) = Len(Prologue(c)) + 2 * Frames + Len(EndMark(c))
  <1>1. /\ Len(Prologue(c)) \in 0 .. 2 /\ RecordFields(c) = <<"len", "pay">>
        /\ Len(EndMark(c)) = IF c \in {"ss", "ssr"} THEN 0 ELSE 2
        /\ Records(c) = Frames
    BY DEF Keeping, Prologue, RecordFields, EndMark, Records
  <1>2. Len(RecordFields(c)) = 2 /\ Frames \in Int
    BY <1>1, FramedAssumption
  <1>3. ASSUME NEW f \in Int
        PROVE  RecordEnd(c, f) = Len(Prologue(c)) + 2 * f /\ PayField(c, f) = RecordEnd(c, f)
    <2>1. \A g \in Int : RecordEnd(c, g) = Len(Prologue(c)) + 2 * g
      BY <1>2 DEF RecordEnd
    <2>2. f - (Frames - Records(c)) = f
      BY <1>1, <1>2
    <2> QED
      BY <2>1, <2>2 DEF PayField
  <1> QED
    BY <1>1, <1>2, <1>3 DEF WireLen

\* The same for Snell, whose records are padded.
LEMMA SnellLayout ==
    /\ Len(Prologue("snell")) = 1 /\ RecordFields("snell") = <<"len", "padding", "pay">>
    /\ Len(EndMark("snell")) = 0 /\ Records("snell") = Frames
    /\ \A f \in Int : RecordEnd("snell", f) = 1 + 3 * f /\ PayField("snell", f) = RecordEnd("snell", f)
    /\ WireLen("snell") = 1 + 3 * Frames
  <1>1. /\ Len(Prologue("snell")) = 1 /\ RecordFields("snell") = <<"len", "padding", "pay">>
        /\ Len(EndMark("snell")) = 0 /\ Records("snell") = Frames
    BY DEF Prologue, RecordFields, EndMark, Records
  <1>2. Len(Prologue("snell")) = 1 /\ Len(RecordFields("snell")) = 3 /\ Frames \in Int
    BY <1>1, FramedAssumption
  <1>3. ASSUME NEW f \in Int
        PROVE  RecordEnd("snell", f) = 1 + 3 * f /\ PayField("snell", f) = RecordEnd("snell", f)
    <2>1. ASSUME NEW g \in Int PROVE RecordEnd("snell", g) = 1 + 3 * g
      <3>1. RecordEnd("snell", g) = Len(Prologue("snell")) + g * Len(RecordFields("snell"))
        BY Zenon DEF RecordEnd
      <3>2. RecordEnd("snell", g) = 1 + g * 3
        BY <1>2, <3>1, Zenon
      <3> QED
        BY <3>2
    <2>2. f - (Frames - Records("snell")) = f
      BY <1>1, <1>2
    <2>3. PayField("snell", f) = RecordEnd("snell", f)
      BY <2>2 DEF PayField
    <2> QED
      BY <2>1, <2>3
  <1> QED
    BY <1>1, <1>2, <1>3 DEF WireLen

\* Which of the three parts of the wire a field belongs to.
LEMMA FieldOfRecord ==
  ASSUME NEW c, NEW k, ~ (k - Len(Prologue(c)) <= 0), k - RecordEnd(c, Records(c)) <= 0
  PROVE  Field(c, k) = RecordFields(c)[1 + ((k - Len(Prologue(c)) - 1) % Len(RecordFields(c)))]
  BY Zenon DEF Field

LEMMA FieldOfEnd ==
  ASSUME NEW c, NEW k, ~ (k - Len(Prologue(c)) <= 0), ~ (k - RecordEnd(c, Records(c)) <= 0)
  PROVE  Field(c, k) = EndMark(c)[k - RecordEnd(c, Records(c))]
  BY Zenon DEF Field

LEMMA PairFields ==
  ASSUME NEW c \in Keeping \cup {"ss"}
  PROVE  /\ \A k \in 1 .. Len(Prologue(c)) : Field(c, k) = Prologue(c)[k]
         /\ \A f \in 1 .. Frames : Field(c, RecordEnd(c, f) - 1) = "len" /\ Field(c, RecordEnd(c, f)) = "pay"
         /\ \A k \in 1 .. Len(EndMark(c)) : Field(c, RecordEnd(c, Frames) + k) = EndMark(c)[k]
  <1>1. PICK P \in 0 .. 2 : P = Len(Prologue(c))
    BY PairLayout
  <1>2. Frames \in Nat
    BY FramedAssumption
  <1>3. /\ RecordFields(c) = <<"len", "pay">> /\ Len(EndMark(c)) \in Nat
        /\ \A f \in Int : RecordEnd(c, f) = P + 2 * f
        /\ Records(c) = Frames
    BY <1>1, PairLayout
  <1>4. RecordEnd(c, Records(c)) = P + 2 * Frames
    BY <1>2, <1>3
  <1>5. ASSUME NEW f \in 1 .. Frames, NEW j \in {1, 2}
        PROVE  Field(c, P + 2 * f - 2 + j) = <<"len", "pay">>[j]
    <2>1. PICK k \in Int : k = P + 2 * f - 2 + j
      BY <1>2
    <2>2. ~ (k - P <= 0) /\ k - (P + 2 * Frames) <= 0
      BY <1>2, <2>1
    <2>3. k - P - 1 = 2 * (f - 1) + (j - 1)
      BY <1>2, <2>1
    <2>4. (k - P - 1) % 2 = j - 1
      BY <2>3
    <2>5. Field(c, k) = RecordFields(c)[1 + ((k - Len(Prologue(c)) - 1) % Len(RecordFields(c)))]
      BY <1>1, <1>4, <2>2, FieldOfRecord
    <2>6. Len(RecordFields(c)) = 2 /\ 1 + (j - 1) = j
      BY <1>3
    <2> QED
      BY <1>1, <1>3, <2>1, <2>4, <2>5, <2>6
  <1>6. ASSUME NEW f \in 1 .. Frames
        PROVE  Field(c, RecordEnd(c, f) - 1) = "len" /\ Field(c, RecordEnd(c, f)) = "pay"
    <2>0. f \in Int /\ RecordEnd(c, f) = P + 2 * f
      BY <1>2, <1>3
    <2>1. RecordEnd(c, f) = P + 2 * f - 2 + 2 /\ RecordEnd(c, f) - 1 = P + 2 * f - 2 + 1
      BY <2>0
    <2> QED
      BY <1>5, <2>1
  <1>7. ASSUME NEW k \in 1 .. Len(Prologue(c)) PROVE Field(c, k) = Prologue(c)[k]
    BY <1>1 DEF Field
  <1>8. ASSUME NEW k \in 1 .. Len(EndMark(c)) PROVE Field(c, RecordEnd(c, Frames) + k) = EndMark(c)[k]
    <2>1. PICK q \in Int : q = P + 2 * Frames + k
      BY <1>2, <1>3
    <2>2. ~ (q - P <= 0) /\ ~ (q - (P + 2 * Frames) <= 0) /\ q - (P + 2 * Frames) = k
      BY <1>2, <1>3, <2>1
    <2>3. Field(c, q) = EndMark(c)[q - RecordEnd(c, Records(c))]
      BY <1>1, <1>4, <2>2, FieldOfEnd
    <2> QED
      BY <1>3, <1>4, <2>1, <2>2, <2>3
  <1> QED
    BY <1>6, <1>7, <1>8

LEMMA SnellFields ==
  /\ Field("snell", 1) = "salt"
  /\ \A f \in 1 .. Frames : /\ Field("snell", RecordEnd("snell", f) - 2) = "len"
                            /\ Field("snell", RecordEnd("snell", f) - 1) = "padding"
                            /\ Field("snell", RecordEnd("snell", f)) = "pay"
  <1>1. Frames \in Nat
    BY FramedAssumption
  <1>2. /\ Len(Prologue("snell")) = 1 /\ RecordFields("snell") = <<"len", "padding", "pay">>
        /\ \A f \in Int : RecordEnd("snell", f) = 1 + 3 * f
        /\ Records("snell") = Frames
    BY SnellLayout
  <1>3. RecordEnd("snell", Records("snell")) = 1 + 3 * Frames
    BY <1>1, <1>2
  <1>4. ASSUME NEW f \in 1 .. Frames, NEW j \in {1, 2, 3}
        PROVE  Field("snell", 1 + 3 * f - 3 + j) = <<"len", "padding", "pay">>[j]
    <2>1. PICK k \in Int : k = 1 + 3 * f - 3 + j
      BY <1>1
    <2>2. ~ (k - 1 <= 0) /\ k - (1 + 3 * Frames) <= 0
      BY <1>1, <2>1
    <2>3. k - 1 - 1 = 3 * (f - 1) + (j - 1)
      BY <1>1, <2>1
    <2>4. (k - 1 - 1) % 3 = j - 1
      BY <2>3
    <2>5. Field("snell", k) = RecordFields("snell")[1 + ((k - Len(Prologue("snell")) - 1) % Len(RecordFields("snell")))]
      BY <1>2, <1>3, <2>2, FieldOfRecord
    <2>6. Len(RecordFields("snell")) = 3 /\ 1 + (j - 1) = j
      BY <1>2
    <2> QED
      BY <1>2, <2>1, <2>4, <2>5, <2>6
  <1>5. ASSUME NEW f \in 1 .. Frames
        PROVE  /\ Field("snell", RecordEnd("snell", f) - 2) = "len"
               /\ Field("snell", RecordEnd("snell", f) - 1) = "padding"
               /\ Field("snell", RecordEnd("snell", f)) = "pay"
    <2>1. f \in Int /\ RecordEnd("snell", f) = 1 + 3 * f
      BY <1>1, <1>2
    <2>2. /\ RecordEnd("snell", f) - 2 = 1 + 3 * f - 3 + 1
          /\ RecordEnd("snell", f) - 1 = 1 + 3 * f - 3 + 2
          /\ RecordEnd("snell", f) = 1 + 3 * f - 3 + 3
      BY <2>1
    <2> QED
      BY <1>4, <2>2
  <1>6. Field("snell", 1) = Prologue("snell")[1]
    BY <1>2 DEF Field
  <1> QED
    BY <1>5, <1>6 DEF Prologue

\* A field of Snell is the salt, or one of the three of a record.
LEMMA SnellPlaces ==
  ASSUME NEW k \in 1 .. WireLen("snell"), k # 1
  PROVE  \E f \in 1 .. Frames, d \in 0 .. 2 : k = RecordEnd("snell", f) - d
  <1>1. Frames \in Nat
    BY FramedAssumption
  <1>2. WireLen("snell") = 1 + 3 * Frames /\ \A f \in Int : RecordEnd("snell", f) = 1 + 3 * f
    BY SnellLayout
  <1>3. PICK q \in Int : k + 1 = 3 * q \/ k + 1 = 3 * q + 1 \/ k + 1 = 3 * q + 2
    <2>1. (k + 1) \div 3 \in Int /\ \/ k + 1 = 3 * ((k + 1) \div 3)
                                    \/ k + 1 = 3 * ((k + 1) \div 3) + 1
                                    \/ k + 1 = 3 * ((k + 1) \div 3) + 2
      BY <1>1, <1>2
    <2> QED
      BY <2>1
  <1>4. q \in 1 .. Frames
    BY <1>1, <1>2, <1>3
  <1>5. RecordEnd("snell", q) = 1 + 3 * q
    BY <1>2, <1>3
  <1>6. \E d \in 0 .. 2 : k = 1 + 3 * q - d
    BY <1>1, <1>2, <1>3
  <1> QED
    BY <1>4, <1>5, <1>6

\* The padding comes after the length.
LEMMA SnellPadding ==
  ASSUME NEW k \in 1 .. WireLen("snell"), Field("snell", k) = "len"
  PROVE  \E f \in 1 .. Frames : k + 2 = RecordEnd("snell", f)
  <1>1. Frames \in Nat
    BY FramedAssumption
  <1>2. k # 1
    BY SnellFields
  <1>3. PICK f \in 1 .. Frames, d \in 0 .. 2 : k = RecordEnd("snell", f) - d
    BY <1>2, SnellPlaces
  <1>4. RecordEnd("snell", f) = 1 + 3 * f
    BY <1>1, SnellLayout
  <1>5. d = 2
    <2>1. d # 0
      <3>1. d = 0 => k = RecordEnd("snell", f)
        BY <1>1, <1>3, <1>4
      <3> QED
        BY <3>1, SnellFields
    <2>2. d # 1
      BY <1>3, SnellFields
    <2> QED
      BY <2>1, <2>2
  <1> QED
    BY <1>1, <1>3, <1>4, <1>5

\* In the codecs that may lose their place, payload ends a record.
LEMMA PayEndsRecord ==
  ASSUME NEW c \in {"ss", "snell"}, NEW k \in 1 .. WireLen(c), Field(c, k) = "pay"
  PROVE  \E f \in 1 .. Frames : k = RecordEnd(c, f)
  <1>1. Frames \in Nat
    BY FramedAssumption
  <1>2. CASE c = "ss"
    <2>1. "ss" \in Keeping \cup {"ss"} /\ Len(Prologue("ss")) = 1 /\ Prologue("ss")[1] # "pay"
      BY DEF Prologue
    <2>2. WireLen("ss") = 1 + 2 * Frames /\ \A f \in Int : RecordEnd("ss", f) = 1 + 2 * f
      <3>1. /\ WireLen("ss") = Len(Prologue("ss")) + 2 * Frames + Len(EndMark("ss"))
            /\ Len(EndMark("ss")) = 0
            /\ \A f \in Int : RecordEnd("ss", f) = Len(Prologue("ss")) + 2 * f
        BY <2>1, PairLayout
      <3>2. WireLen("ss") = 1 + 2 * Frames + 0
        BY <2>1, <3>1, Zenon
      <3>3. ASSUME NEW f \in Int PROVE RecordEnd("ss", f) = 1 + 2 * f
        BY <2>1, <3>1
      <3> QED
        BY <1>1, <3>2, <3>3
    <2>3. k # 1
      BY <1>2, <2>1, PairFields
    <2>4. PICK f \in Int : k = 2 * f + 1 \/ k = 2 * f
      <3>1. k \in Int /\ k \div 2 \in Int /\ (k = 2 * (k \div 2) + 1 \/ k = 2 * (k \div 2))
        BY <1>1, <1>2, <2>2
      <3> QED
        BY <3>1
    <2>5. CASE k = 2 * f + 1
      <3>1. f \in 1 .. Frames /\ RecordEnd("ss", f) = k
        BY <1>1, <1>2, <2>2, <2>3, <2>5
      <3> QED
        BY <1>2, <3>1
    <2>6. CASE k = 2 * f
      <3>1. f \in 1 .. Frames /\ RecordEnd("ss", f) - 1 = k
        BY <1>1, <1>2, <2>2, <2>6
      <3> QED
        BY <1>2, <2>1, <3>1, PairFields
    <2> QED
      BY <2>4, <2>5, <2>6
  <1>3. CASE c = "snell"
    <2>1. k # 1
      BY <1>3, SnellFields
    <2>2. PICK f \in 1 .. Frames, d \in 0 .. 2 : k = RecordEnd("snell", f) - d
      BY <1>3, <2>1, SnellPlaces
    <2>3. RecordEnd("snell", f) = 1 + 3 * f
      BY <1>1, SnellLayout
    <2>4. d = 0
      BY <1>3, <2>2, SnellFields
    <2> QED
      BY <1>1, <1>3, <2>2, <2>3, <2>4
  <1> QED
    BY <1>2, <1>3

-----------------------------------------------------------------------------
(* The wire and the payload of the codec that runs.                        *)

LEMMA WireIs ==
  ASSUME codec \in Codecs
  PROVE  /\ WireLen(codec) \in Nat /\ Len(Wire) = WireLen(codec)
         /\ \A k \in 1 .. WireLen(codec) : Wire[k] = Field(codec, k)
         /\ Payload \in Seq(Int) /\ Len(Payload) = 2 * Frames
  <1>1. Frames \in Nat \ {0} /\ codec \in Known
    BY FramedAssumption
  <1>2. /\ Len(Prologue(codec)) \in Nat /\ Len(RecordFields(codec)) \in {1, 2, 3}
        /\ Len(EndMark(codec)) \in Nat
    BY <1>1 DEF Known, Prologue, RecordFields, EndMark
  <1>3. Records(codec) \in Nat
    BY <1>1 DEF Records
  <1>4. \A f \in Int : RecordEnd(codec, f) \in Int
    BY <1>2 DEF RecordEnd
  <1>5. WireLen(codec) \in Nat
    <2>1. RecordEnd(codec, Records(codec)) \in Nat
      BY <1>2, <1>3 DEF RecordEnd
    <2> QED
      BY <1>2, <2>1 DEF WireLen
  <1>6. Wire = [k \in 1 .. WireLen(codec) |-> Field(codec, k)]
    BY Zenon DEF Wire, WireOf
  <1>7. Payload = [i \in 1 .. 2 * Frames |-> 2 * PayField(codec, (i + 1) \div 2) - (i % 2)]
    BY Zenon DEF Payload, PayloadOf
  <1>8. ASSUME NEW i \in 1 .. 2 * Frames
        PROVE  2 * PayField(codec, (i + 1) \div 2) - (i % 2) \in Int
    <2>1. (i + 1) \div 2 \in Int /\ i % 2 \in Int
      BY <1>1
    <2>2. (i + 1) \div 2 - (Frames - Records(codec)) \in Int
      BY <1>1, <1>3, <2>1
    <2>3. PayField(codec, (i + 1) \div 2) \in Int
      BY <1>4, <2>2 DEF PayField
    <2> QED
      BY <2>1, <2>3
  <1>9. Payload \in [1 .. 2 * Frames -> Int]
    BY <1>7, <1>8, Zenon
  <1>10. Payload \in Seq(Int) /\ Len(Payload) = 2 * Frames
    BY <1>1, <1>9
  <1>11. Len(Wire) = WireLen(codec)
    BY <1>5, <1>6
  <1> QED
    BY <1>5, <1>6, <1>10, <1>11

\* The two bytes of the n-th payload field.
LEMMA PayloadIs ==
  ASSUME codec \in Codecs, codec \in Sealed \cup Keeping, NEW n \in 0 .. Frames - 1
  PROVE  /\ Payload[2 * n + 1] = 2 * RecordEnd(codec, n + 1) - 1
         /\ Payload[2 * n + 2] = 2 * RecordEnd(codec, n + 1)
  <1>1. Frames \in Nat \ {0} /\ n \in Nat /\ n + 1 \in Int
    BY FramedAssumption
  <1>2. PICK e \in Int : e = RecordEnd(codec, n + 1) /\ e = PayField(codec, n + 1)
    <2>1. CASE codec \in Keeping \cup {"ss"}
      <3>0. Len(Prologue(codec)) \in 0 .. 2 /\ \A f \in Int : RecordEnd(codec, f) = Len(Prologue(codec)) + 2 * f
        BY <2>1, PairLayout
      <3>1. RecordEnd(codec, n + 1) = Len(Prologue(codec)) + 2 * (n + 1)
        BY <1>1, <3>0, Zenon
      <3>2. RecordEnd(codec, n + 1) \in Int
        BY <1>1, <3>0, <3>1
      <3> QED
        BY <1>1, <2>1, <3>2, PairLayout
    <2>2. CASE codec = "snell"
      <3>1. RecordEnd(codec, n + 1) = 1 + 3 * (n + 1)
        BY <1>1, <2>2, SnellLayout
      <3>2. RecordEnd(codec, n + 1) \in Int
        BY <1>1, <3>1
      <3> QED
        BY <1>1, <2>2, <3>2, SnellLayout
    <2> QED
      BY <2>1, <2>2 DEF Sealed, Keeping
  <1>3. Payload = [i \in 1 .. 2 * Frames |-> 2 * PayField(codec, (i + 1) \div 2) - (i % 2)]
    BY Zenon DEF Payload, PayloadOf
  <1>4. /\ 2 * n + 1 \in 1 .. 2 * Frames /\ 2 * n + 2 \in 1 .. 2 * Frames
        /\ (2 * n + 1 + 1) \div 2 = n + 1 /\ (2 * n + 2 + 1) \div 2 = n + 1
        /\ (2 * n + 1) % 2 = 1 /\ (2 * n + 2) % 2 = 0
    BY <1>1
  <1>5. /\ Payload[2 * n + 1] = 2 * PayField(codec, (2 * n + 1 + 1) \div 2) - ((2 * n + 1) % 2)
        /\ Payload[2 * n + 2] = 2 * PayField(codec, (2 * n + 2 + 1) \div 2) - ((2 * n + 2) % 2)
    BY <1>3, <1>4, Zenon
  <1>6. Payload[2 * n + 1] = 2 * e - 1 /\ Payload[2 * n + 2] = 2 * e - 0
    BY <1>2, <1>4, <1>5
  <1> QED
    BY <1>2, <1>6

\* A field that opens is the next one, and the bytes are the two of it.
LEMMA OpensNext ==
  ASSUME codec \in Codecs, NEW x \in Nat \ {0}, NEW y, x <= 2 * WireLen(codec), dec \in Int,
         NEW field, Opens(<<x, y>>, field)
  PROVE  /\ x = 2 * dec + 1 /\ y = 2 * dec + 2
         /\ dec + 1 \in 1 .. WireLen(codec) /\ Field(codec, dec + 1) = field
  <1>1. x = 2 * dec + 1 /\ y = x + 1 /\ Wire[(x + 1) \div 2] = field
    BY DEF Opens, Genuine
  <1>2. WireLen(codec) \in Nat
    BY WireIs
  <1>3. dec + 1 \in 1 .. WireLen(codec) /\ (x + 1) \div 2 = dec + 1
    BY <1>1, <1>2
  <1>4. Wire[dec + 1] = field
    BY <1>1, <1>3
  <1> QED
    BY <1>1, <1>3, <1>4, WireIs

LEMMA RecordEnds ==
  ASSUME NEW c \in Sealed \cup Keeping
  PROVE  \E p \in 0 .. 2 : \/ c # "snell" /\ \A f \in Int : RecordEnd(c, f) = p + 2 * f
                           \/ c = "snell" /\ \A f \in Int : RecordEnd(c, f) = p + 3 * f
  <1>1. CASE c \in Keeping \cup {"ss"}
    BY <1>1, PairLayout, Zenon DEF Keeping
  <1>2. CASE c = "snell"
    BY <1>2, SnellLayout
  <1> QED
    BY <1>1, <1>2 DEF Sealed, Keeping

\* The next field is payload exactly where the next record ends.
LEMMA PassedOn ==
  ASSUME codec \in {"ss", "snell"}, NEW n, NEW k \in Nat, Passed(n, k), k + 1 \in 1 .. WireLen(codec)
  PROVE  /\ Field(codec, k + 1) # "pay" => Passed(n, k + 1)
         /\ Field(codec, k + 1) = "pay" => n < Frames /\ k + 1 = RecordEnd(codec, n + 1) /\ Passed(n + 1, k + 1)
  <1>1. Frames \in Nat \ {0} /\ n \in 0 .. Frames
    BY FramedAssumption DEF Passed
  <1>2. codec \in Sealed \cup Keeping
    BY DEF Sealed
  <1>3. PICK p \in 0 .. 2, w \in {2, 3} : \A f \in Int : RecordEnd(codec, f) = p + w * f
    BY <1>2, RecordEnds
  <1>4. \A f \in 1 .. Frames : Field(codec, RecordEnd(codec, f)) = "pay"
    <2>1. CASE codec = "ss"
      BY <2>1, PairFields
    <2>2. CASE codec = "snell"
      BY <2>2, SnellFields
    <2> QED
      BY <2>1, <2>2
  <1>5. ASSUME Field(codec, k + 1) # "pay" PROVE Passed(n, k + 1)
    <2>1. n < Frames => k < RecordEnd(codec, n + 1) /\ k + 1 # RecordEnd(codec, n + 1)
      BY <1>1, <1>4, <1>5 DEF Passed
    <2>2. RecordEnd(codec, n + 1) \in Int /\ RecordEnd(codec, n) \in Int
      <3>1. RecordEnd(codec, n + 1) = p + w * (n + 1) /\ RecordEnd(codec, n) = p + w * n
        BY <1>1, <1>3
      <3> QED
        BY <1>1, <3>1
    <2> QED
      BY <1>1, <2>1, <2>2 DEF Passed
  <1>6. ASSUME Field(codec, k + 1) = "pay"
        PROVE  n < Frames /\ k + 1 = RecordEnd(codec, n + 1) /\ Passed(n + 1, k + 1)
    <2>1. PICK f \in 1 .. Frames : k + 1 = RecordEnd(codec, f)
      BY <1>6, PayEndsRecord
    <2>2. \A g \in Int : RecordEnd(codec, g) = p + 2 * g \/ RecordEnd(codec, g) = p + 3 * g
      BY <1>3
    <2>3. /\ k + 1 = p + w * f /\ RecordEnd(codec, n) = p + w * n
          /\ RecordEnd(codec, n + 1) = p + w * (n + 1) /\ RecordEnd(codec, n + 1 + 1) = p + w * (n + 1 + 1)
      BY <1>1, <1>3, <2>1
    <2>4. CASE w = 2
      <3>1. n < f
        BY <1>1, <2>3, <2>4 DEF Passed
      <3>2. f = n + 1
        BY <1>1, <2>3, <2>4, <3>1 DEF Passed
      <3> QED
        BY <1>1, <2>3, <2>4, <3>2 DEF Passed
    <2>5. CASE w = 3
      <3>1. n < f
        BY <1>1, <2>3, <2>5 DEF Passed
      <3>2. f = n + 1
        BY <1>1, <2>3, <2>5, <3>1 DEF Passed
      <3> QED
        BY <1>1, <2>3, <2>5, <3>2 DEF Passed
    <2> QED
      BY <2>4, <2>5
  <1> QED
    BY <1>5, <1>6

LEMMA AppendTwo ==
  ASSUME NEW s \in Seq(Nat), NEW a \in Nat, NEW b \in Nat
  PROVE  /\ s \o <<a, b>> \in Seq(Nat) /\ Len(s \o <<a, b>>) = Len(s) + 2
         /\ \A i \in 1 .. Len(s) : (s \o <<a, b>>)[i] = s[i]
         /\ (s \o <<a, b>>)[Len(s) + 1] = a /\ (s \o <<a, b>>)[Len(s) + 2] = b
  <1>1. PICK t : t = <<a, b>>
    OBVIOUS
  <1>2. t \in Seq(Nat) /\ Len(t) = 2 /\ t[1] = a /\ t[2] = b
    BY <1>1
  <1> QED
    BY <1>1, <1>2

\* The payload field of the next record is handed on in its place.
LEMMA HandKeeps ==
  ASSUME codec \in Codecs, codec \in Sealed \cup Keeping, InPlace, codec' = codec,
         NEW n \in 0 .. Frames - 1, Len(out) = 2 * n,
         NEW e \in Int, e = RecordEnd(codec, n + 1), e > 0,
         out' = out \o <<2 * e - 1, 2 * e>>
  PROVE  InPlace' /\ Len(out') = 2 * (n + 1)
  <1>1. Frames \in Nat \ {0} /\ n \in Nat /\ n < Frames
    BY FramedAssumption
  <1>2. out \in Seq(Nat) /\ \A i \in DOMAIN out : out[i] = Payload[i]
    BY DEF InPlace
  <1>3. Payload[2 * n + 1] = 2 * e - 1 /\ Payload[2 * n + 2] = 2 * e
    BY PayloadIs
  <1>4. Payload' = Payload
    BY DEF Payload
  <1>5. PICK a, b \in Nat : a = 2 * e - 1 /\ b = 2 * e
    OBVIOUS
  <1>6. out' = out \o <<a, b>>
    BY <1>5
  <1>7. /\ out' \in Seq(Nat) /\ Len(out') = Len(out) + 2
        /\ \A i \in 1 .. Len(out) : out'[i] = out[i]
        /\ out'[Len(out) + 1] = a /\ out'[Len(out) + 2] = b
    <2>1. PICK t : t = out \o <<a, b>>
      OBVIOUS
    <2>2. /\ t \in Seq(Nat) /\ Len(t) = Len(out) + 2
          /\ \A i \in 1 .. Len(out) : t[i] = out[i]
          /\ t[Len(out) + 1] = a /\ t[Len(out) + 2] = b
      <3>1. PICK o \in Seq(Nat) : o = out
        BY <1>2
      <3>2. PICK u : u = o \o <<a, b>>
        OBVIOUS
      <3>3. /\ u \in Seq(Nat) /\ Len(u) = Len(o) + 2
            /\ \A i \in 1 .. Len(o) : u[i] = o[i]
            /\ u[Len(o) + 1] = a /\ u[Len(o) + 2] = b
        BY <3>2, AppendTwo
      <3>4. u = t
        BY <2>1, <3>1, <3>2
      <3> QED
        BY <3>1, <3>3, <3>4, Zenon
    <2>3. out' = t
      BY <1>6, <2>1, Zenon
    <2> QED
      BY <2>2, <2>3, Zenon
  <1>8. Len(out') = 2 * (n + 1) /\ DOMAIN out' = 1 .. 2 * (n + 1) /\ DOMAIN out = 1 .. 2 * n
    BY <1>1, <1>2, <1>7
  <1>9. ASSUME NEW i \in 1 .. 2 * (n + 1) PROVE out'[i] = Payload[i]
    <2>1. i \in 1 .. 2 * n \/ i = 2 * n + 1 \/ i = 2 * n + 2
      BY <1>1
    <2> QED
      BY <1>2, <1>3, <1>5, <1>7, <1>8, <2>1
  <1>10. 2 * (n + 1) <= 2 * Frames
    BY <1>1
  <1> QED
    BY <1>4, <1>7, <1>8, <1>9, <1>10 DEF InPlace

\* Being in place is being a prefix of the payload.
LEMMA InPlaceIsPrefix ==
  ASSUME codec \in Codecs, codec \in Sealed \cup Keeping, InPlace
  PROVE  IsPrefix(out, Payload)
  <1>1. out \in Seq(Int) /\ Payload \in Seq(Int) /\ Len(out) <= Len(Payload)
    BY WireIs DEF InPlace
  <1>2. \A i \in 1 .. Len(out) : out[i] = Payload[i]
    BY <1>1 DEF InPlace
  <1>3. SubSeq(out, 1, Len(out)) = SubSeq(Payload, 1, Len(out))
    BY <1>1, <1>2
  <1> QED
    BY <1>1, <1>3 DEF IsPrefix

-----------------------------------------------------------------------------
(* A complete field of a codec that keeps its place.                       *)

\* Where such a codec stands after n records.
At(n) ==
    \/ n = 0 /\ dec \in 0 .. Len(Prologue(codec)) - 1 /\ stage = PrologueStage(codec, dec)
    \/ dec = RecordEnd(codec, n) /\ stage = "len"
    \/ dec = RecordEnd(codec, n) + 1 /\ stage = "pay"

\* What the field makes of it: nothing yet, the next record, the end of all
\* records, or a refusal past the last value of the counter.
Leads(next, b, n) ==
    \/ /\ next.status = "open" /\ next.out = <<>>
       /\ \/ n = 0 /\ dec + 1 \in 0 .. Len(Prologue(codec)) - 1 /\ next.stage = PrologueStage(codec, dec + 1)
          \/ dec + 1 = RecordEnd(codec, n) /\ next.stage = "len"
          \/ dec = RecordEnd(codec, n) /\ next.stage = "pay"
    \/ /\ next.status = "open" /\ next.out = b /\ next.stage = "len"
       /\ n < Frames /\ dec + 1 = RecordEnd(codec, n + 1)
    \/ next.status = "eof" /\ next.out = <<>> /\ n = Frames
    \/ next.status = "error" /\ next.out = <<>> /\ n > Limit

\* In step, the field that is complete is the next one of the wire.
LEMMA InStepOpens ==
  ASSUME codec \in Codecs, dec \in Nat, 2 * dec + 2 <= 2 * WireLen(codec), NEW field
  PROVE  Opens(<<2 * dec + 1, 2 * dec + 2>>, field) <=> Field(codec, dec + 1) = field
  <1>1. WireLen(codec) \in Nat
    BY WireIs
  <1>2. dec + 1 \in 1 .. WireLen(codec) /\ (2 * dec + 1 + 1) \div 2 = dec + 1 /\ (2 * dec + 1) % 2 = 1
    BY <1>1
  <1>3. Wire[(2 * dec + 1 + 1) \div 2] = Field(codec, dec + 1)
    BY <1>2, WireIs
  <1>4. 2 * dec + 2 = 2 * dec + 1 + 1
    OBVIOUS
  <1> QED
    BY <1>2, <1>3, <1>4 DEF Opens, Genuine

\* The field after n records, where there is one.
LEMMA InStepField ==
  ASSUME codec \in Keeping, NEW n \in 0 .. Frames, dec \in Nat, dec + 1 <= WireLen(codec)
  PROVE  /\ RecordEnd(codec, n) \in Nat
         /\ dec < Len(Prologue(codec)) => Field(codec, dec + 1) = Prologue(codec)[dec + 1]
         /\ dec = RecordEnd(codec, n) => Field(codec, dec + 1) = "len"
         /\ dec = RecordEnd(codec, n) + 1 =>
              \/ n < Frames /\ Field(codec, dec + 1) = "pay" /\ dec + 1 = RecordEnd(codec, n + 1)
              \/ n = Frames /\ Field(codec, dec + 1) = "end" /\ codec # "ssr"
  <1>1. Frames \in Nat \ {0} /\ n \in Nat /\ n + 1 \in Int
    BY FramedAssumption
  <1>2. PICK p \in 0 .. 2 : p = Len(Prologue(codec)) /\ \A f \in Int : RecordEnd(codec, f) = p + 2 * f
    <2>1. /\ Len(Prologue(codec)) \in 0 .. 2
          /\ \A f \in Int : RecordEnd(codec, f) = Len(Prologue(codec)) + 2 * f
      BY PairLayout
    <2> QED
      BY <2>1, Zenon
  <1>10. PICK e \in {0, 2} : e = Len(EndMark(codec)) /\ (e = 0 <=> codec = "ssr")
    <2>1. Len(EndMark(codec)) = IF codec \in {"ss", "ssr"} THEN 0 ELSE 2
      BY PairLayout
    <2>2. codec # "ss"
      BY DEF Keeping
    <2> QED
      BY <2>1, <2>2
  <1>11. dec + 1 <= p + 2 * Frames + e
    BY <1>2, <1>10, PairLayout
  <1>3. /\ \A k \in 1 .. p : Field(codec, k) = Prologue(codec)[k]
        /\ \A f \in 1 .. Frames : Field(codec, RecordEnd(codec, f) - 1) = "len" /\ Field(codec, RecordEnd(codec, f)) = "pay"
        /\ \A k \in 1 .. e : Field(codec, RecordEnd(codec, Frames) + k) = EndMark(codec)[k]
    BY <1>2, <1>10, PairFields
  <1>4. /\ RecordEnd(codec, n) = p + 2 * n /\ RecordEnd(codec, n + 1) = p + 2 * n + 2
        /\ RecordEnd(codec, Frames) = p + 2 * Frames
    <2>1. n \in Int /\ Frames \in Int /\ 2 * (n + 1) = 2 * n + 2
      BY <1>1
    <2>2. RecordEnd(codec, n) = p + 2 * n /\ RecordEnd(codec, Frames) = p + 2 * Frames
      BY <1>2, <2>1, Zenon
    <2>3. RecordEnd(codec, n + 1) = p + 2 * (n + 1)
      BY <1>1, <1>2, Zenon
    <2> QED
      BY <2>1, <2>2, <2>3
  <1>5. e = 2 => EndMark(codec)[1] = "len" /\ EndMark(codec)[2] = "end"
    BY <1>10 DEF EndMark
  <1>6. ASSUME dec < p PROVE Field(codec, dec + 1) = Prologue(codec)[dec + 1]
    BY <1>3, <1>6
  <1>7. ASSUME dec = p + 2 * n PROVE Field(codec, dec + 1) = "len"
    <2>1. CASE n < Frames
      <3>1. n + 1 \in 1 .. Frames /\ dec + 1 = RecordEnd(codec, n + 1) - 1
        BY <1>1, <1>4, <1>7, <2>1
      <3> QED
        BY <1>3, <3>1
    <2>2. CASE n = Frames
      <3>1. e = 2 /\ 1 \in 1 .. e /\ dec + 1 = RecordEnd(codec, Frames) + 1
        BY <1>1, <1>11, <1>4, <1>7, <2>2
      <3> QED
        BY <1>3, <1>5, <3>1
    <2> QED
      BY <1>1, <2>1, <2>2
  <1>8. ASSUME dec = p + 2 * n + 1
        PROVE  \/ n < Frames /\ Field(codec, dec + 1) = "pay" /\ dec + 1 = RecordEnd(codec, n + 1)
               \/ n = Frames /\ Field(codec, dec + 1) = "end" /\ codec # "ssr"
    <2>1. CASE n < Frames
      <3>1. n + 1 \in 1 .. Frames /\ dec + 1 = RecordEnd(codec, n + 1)
        BY <1>1, <1>4, <1>8, <2>1
      <3> QED
        BY <1>3, <2>1, <3>1
    <2>2. CASE n = Frames
      <3>1. e = 2 /\ 2 \in 1 .. e /\ dec + 1 = RecordEnd(codec, Frames) + 2
        BY <1>1, <1>11, <1>4, <1>8, <2>2
      <3> QED
        BY <1>10, <1>3, <1>5, <2>2, <3>1
    <2> QED
      BY <1>1, <2>1, <2>2
  <1>9. RecordEnd(codec, n) \in Nat
    BY <1>1, <1>4
  <1> QED
    BY <1>2, <1>4, <1>6, <1>7, <1>8, <1>9

\* In step, a complete field leads on as the wire does.
LEMMA KeepingLeads ==
  ASSUME codec \in Codecs, codec \in Keeping, NEW n \in 0 .. Frames, dec \in Nat, At(n),
         2 * dec + 2 <= 2 * WireLen(codec), n = 0 => first, NEW b, b = <<2 * dec + 1, 2 * dec + 2>>
  PROVE  Leads(Advance(b), b, n)
  <1>1. Frames \in Nat \ {0} /\ n \in Nat /\ Limit \in Nat
    BY FramedAssumption
  <1>2. PICK field : field = Field(codec, dec + 1)
    OBVIOUS
  <1>3. \A g : Opens(b, g) <=> field = g
    BY <1>2, InStepOpens
  <1>4. WireLen(codec) \in Nat /\ dec + 1 <= WireLen(codec)
    BY WireIs
  <1>5. RecordEnd(codec, n) \in Nat /\ RecordEnd(codec, 0) = Len(Prologue(codec))
    <2>1. \A f \in Int : RecordEnd(codec, f) = Len(Prologue(codec)) + 2 * f
      BY PairLayout
    <2>2. RecordEnd(codec, 0) = Len(Prologue(codec)) + 2 * 0
      BY <2>1, 0 \in Int, Zenon
    <2>3. Len(Prologue(codec)) \in 0 .. 2
      BY PairLayout
    <2> QED
      BY <1>4, <2>2, <2>3, InStepField
  \* Inside the prologue.
  <1>6. CASE n = 0 /\ dec \in 0 .. Len(Prologue(codec)) - 1 /\ stage = PrologueStage(codec, dec)
    <2>1. field = Prologue(codec)[dec + 1] /\ first
      BY <1>2, <1>4, <1>6, InStepField
    <2>2. CASE codec = "vmess"
      <3>1. Prologue(codec) = <<"hlen", "hpay">> /\ dec \in {0, 1}
        BY <1>6, <2>2 DEF Prologue
      <3>2. CASE dec = 0
        <4>1. stage = "hlen" /\ field = "hlen" /\ PrologueStage(codec, dec + 1) = "hpay" /\ Len(Prologue(codec)) = 2
          BY <1>6, <2>1, <2>2, <3>1, <3>2 DEF PrologueStage
        <4>2. Advance(b) = Go("hpay")
          BY <1>3, <2>2, <4>1 DEF Advance, VmessAdvance
        <4> QED
          BY <1>6, <3>2, <4>1, <4>2 DEF Leads, Go
      <3>3. CASE dec = 1
        <4>1. stage = "hpay" /\ field = "hpay" /\ Len(Prologue(codec)) = 2
          BY <1>6, <2>1, <2>2, <3>1, <3>3 DEF PrologueStage
        <4>2. Advance(b) = Go("len")
          BY <1>3, <2>1, <2>2, <4>1 DEF Advance, VmessAdvance
        <4> QED
          BY <1>5, <1>6, <3>3, <4>1, <4>2 DEF Leads, Go
      <3> QED
        BY <3>1, <3>2, <3>3
    <2>3. CASE codec = "legacy"
      <3>1. Prologue(codec) = <<"legacy">> /\ dec = 0
        BY <1>6, <2>3 DEF Prologue
      <3> QED
        BY <1>3, <1>5, <1>6, <2>1, <2>3, <3>1 DEF Advance, VmessAdvance, Leads, Go, PrologueStage
    <2>4. CASE codec = "ssr"
      <3>1. Prologue(codec) = <<"preamble", "iv">> /\ dec \in {0, 1}
        BY <1>6, <2>4 DEF Prologue
      <3>2. CASE dec = 0
        <4>1. stage = "preamble" /\ field = "preamble" /\ PrologueStage(codec, dec + 1) = "iv" /\ Len(Prologue(codec)) = 2
          BY <1>6, <2>1, <2>4, <3>1, <3>2 DEF PrologueStage
        <4>2. Advance(b) = Go("iv")
          BY <1>3, <2>4, <4>1 DEF Advance, SsrAdvance, SsrUnwrapObfs
        <4> QED
          BY <1>6, <3>2, <4>1, <4>2 DEF Leads, Go
      <3>3. CASE dec = 1
        <4>1. stage = "iv" /\ field = "iv" /\ Len(Prologue(codec)) = 2
          BY <1>6, <2>1, <2>4, <3>1, <3>3 DEF PrologueStage
        <4>2. Advance(b) = Go("len")
          BY <1>3, <2>1, <2>4, <4>1 DEF Advance, SsrAdvance, SsrUnwrapObfs
        <4> QED
          BY <1>5, <1>6, <3>3, <4>1, <4>2 DEF Leads, Go
      <3> QED
        BY <3>1, <3>2, <3>3
    <2>5. CASE codec = "shadowtls"
      <3>1. Prologue(codec) = <<"len", "straggler">> /\ dec \in {0, 1}
        BY <1>6, <2>5 DEF Prologue
      <3>2. CASE dec = 0
        <4>1. stage = "len" /\ field = "len" /\ PrologueStage(codec, dec + 1) = "pay" /\ Len(Prologue(codec)) = 2
          BY <1>6, <2>1, <2>5, <3>1, <3>2 DEF PrologueStage
        <4>2. Advance(b) = Go("pay")
          BY <1>3, <2>5, <4>1 DEF Advance, ShadowTlsDecode
        <4> QED
          BY <1>6, <3>2, <4>1, <4>2 DEF Leads, Go
      <3>3. CASE dec = 1
        <4>1. stage = "pay" /\ field = "straggler" /\ Len(Prologue(codec)) = 2
          BY <1>6, <2>1, <2>5, <3>1, <3>3 DEF PrologueStage
        <4>2. Advance(b) = Go("len")
          BY <1>3, <2>1, <2>5, <4>1 DEF Advance, ShadowTlsDecode
        <4> QED
          BY <1>5, <1>6, <3>3, <4>1, <4>2 DEF Leads, Go
      <3> QED
        BY <3>1, <3>2, <3>3
    <2>6. CASE codec = "ws"
      <3>1. Prologue(codec) = <<>>
        BY <2>6 DEF Prologue
      <3> QED
        BY <1>6, <3>1
    <2> QED
      BY <2>2, <2>3, <2>4, <2>5, <2>6 DEF Keeping
  \* The length of a record.
  <1>7. CASE dec = RecordEnd(codec, n) /\ stage = "len"
    <2>1. field = "len"
      BY <1>2, <1>4, <1>7, InStepField
    <2>2. Advance(b) = Go("pay")
      BY <1>3, <1>7, <2>1 DEF Keeping, Advance, VmessAdvance, SsrAdvance, SsrUnwrapFrame, ShadowTlsDecode, WebSocketRead
    <2> QED
      BY <1>7, <2>2 DEF Leads, Go
  \* Its payload, or the mark of the end in its place.
  <1>8. CASE dec = RecordEnd(codec, n) + 1 /\ stage = "pay"
    <2>1. \/ n < Frames /\ field = "pay" /\ dec + 1 = RecordEnd(codec, n + 1)
          \/ n = Frames /\ field = "end" /\ codec # "ssr"
      BY <1>2, <1>4, <1>8, InStepField
    <2>2. CASE codec \in {"vmess", "legacy"} /\ VmessDecExhausted
      <3>1. RecordEnd(codec, n) = Len(Prologue(codec)) + 2 * n /\ Len(Prologue(codec)) \in 0 .. 2
        BY <1>1, PairLayout
      <3>2. dec - Len(Prologue(codec)) = 2 * n + 1
        BY <1>1, <1>8, <3>1
      <3>3. (2 * n + 1) \div 2 = n
        BY <1>1
      <3>4. n > Limit
        BY <2>2, <3>2, <3>3 DEF VmessDecExhausted
      <3>5. Advance(b) = VmessAdvance(b)
        BY <2>2 DEF Advance
      <3>6. VmessAdvance(b) = Broken
        BY <1>8, <2>2 DEF VmessAdvance
      <3> QED
        BY <3>4, <3>5, <3>6 DEF Leads, Broken
    <2>3. CASE ~ (codec \in {"vmess", "legacy"} /\ VmessDecExhausted)
      <3>1. field = "pay" => Advance(b) = Hand(b)
        BY <1>3, <1>8, <2>3 DEF Keeping, Advance, VmessAdvance, SsrAdvance, SsrUnwrapFrame, ShadowTlsDecode, WebSocketRead
      <3>2. field = "end" /\ codec # "ssr" => Advance(b) = Finished
        BY <1>3, <1>8, <2>3 DEF Keeping, Advance, VmessAdvance, ShadowTlsDecode, WebSocketRead
      <3> QED
        BY <2>1, <3>1, <3>2 DEF Leads, Hand, Finished
    <2> QED
      BY <2>2, <2>3
  <1> QED
    BY <1>6, <1>7, <1>8 DEF At

-----------------------------------------------------------------------------
(* Every step keeps the invariant.                                         *)

LEMMA InHand ==
  ASSUME Shapes
  PROVE  fill = <<>> \/ \E x \in 1 .. rd : fill = <<x>>
  <1>1. /\ fill \in Seq(Nat \ {0}) /\ rd \in Nat /\ (Len(fill) = 0 \/ Len(fill) = 1)
        /\ \A i \in DOMAIN fill : fill[i] <= rd
    <2>1. /\ fill \in Seq(Nat \ {0}) /\ rd \in Nat /\ Len(fill) <= 1
          /\ \A i \in DOMAIN fill : fill[i] <= rd
      BY DEF Shapes
    <2>2. PICK l \in Nat : l = Len(fill) /\ l <= 1
      BY <2>1
    <2>3. l = 0 \/ l = 1
      BY <2>2
    <2> QED
      BY <2>1, <2>2, <2>3, Zenon
  <1>2. CASE Len(fill) = 0
    BY <1>1, <1>2
  <1>3. CASE Len(fill) = 1
    <2>1. fill = <<fill[1]>> /\ fill[1] \in Nat \ {0} /\ 1 \in DOMAIN fill
      BY <1>1, <1>3
    <2>2. fill[1] \in 1 .. rd
      BY <1>1, <2>1
    <2> QED
      BY <2>1, <2>2
  <1> QED
    BY <1>1, <1>2, <1>3

\* The first byte of a field.
LEMMA CollectFirst ==
  ASSUME StreamInv, Collect, fill = <<>>
  PROVE  StreamInv'
  <1>1. /\ fill' = <<rd + 1>> /\ rd' = rd + 1 /\ rd < arr
        /\ UNCHANGED <<stage, dec, left, first, out, status, codec, arr, closed, enc, used, endSent, uplink>>
    <2>1. Append(fill, rd + 1) = <<rd + 1>> /\ Len(Append(fill, rd + 1)) < 2
      OBVIOUS
    <2> QED
      BY <2>1 DEF Collect, up
  <1>2. rd \in Nat /\ arr \in Nat
    BY DEF StreamInv, Shapes
  <1>3. Shapes'
    <2>1. <<rd + 1>> \in Seq(Nat \ {0}) /\ Len(<<rd + 1>>) = 1 /\ \A i \in DOMAIN <<rd + 1>> : <<rd + 1>>[i] <= rd + 1
      BY <1>2
    <2>2. WireLen(codec)' = WireLen(codec)
      BY <1>1
    <2> QED
      BY <1>1, <1>2, <2>1, <2>2 DEF StreamInv, Shapes
  <1>4. Counted' /\ InPlace'
    BY <1>1 DEF StreamInv, Counted, InPlace, Payload
  <1>5. InStep'
    <2> SUFFICES ASSUME codec \in Keeping, status = "open"
                 PROVE  /\ rd' = 2 * dec' + Len(fill') /\ fill' \in {<<>>, <<2 * dec' + 1>>}
                        /\ first' <=> out' = <<>>
                        /\ (\E n \in 0 .. Frames : Len(out) = 2 * n /\ At(n))'
      BY <1>1 DEF InStep, At
    <2>1. rd = 2 * dec + 0 /\ dec \in Int
      BY DEF StreamInv, InStep, Shapes
    <2>2. rd + 1 = 2 * dec + 1 /\ Len(<<rd + 1>>) = 1
      BY <1>2, <2>1
    <2>3. rd' = 2 * dec' + Len(fill') /\ fill' \in {<<>>, <<2 * dec' + 1>>}
      BY <1>1, <1>2, <2>1, <2>2
    <2>4. (first <=> out = <<>>) /\ \E n \in 0 .. Frames : Len(out) = 2 * n /\ At(n)
      BY DEF StreamInv, InStep, At
    <2> QED
      BY <1>1, <2>3, <2>4 DEF At
  <1>6. InOrder'
    BY <1>1 DEF StreamInv, InOrder, Passed
  <1> QED
    BY <1>3, <1>4, <1>5, <1>6 DEF StreamInv

\* The last byte of a field: what the codec makes of the two.
Completes(b) ==
    /\ fill' = <<>> /\ stage' = Advance(b).stage /\ status' = Advance(b).status
    /\ out' = out \o Advance(b).out
    /\ first' = (first /\ Advance(b).out = <<>>)
    /\ dec' = IF stage = "salt" /\ ~ Genuine(b, "salt") THEN WrongKey ELSE dec + 1
    /\ status = "open" /\ rd < arr /\ rd' = rd + 1
    /\ UNCHANGED <<codec, arr, closed, enc, used, endSent, uplink>>

LEMMA CollectLast ==
  ASSUME Collect, Shapes, NEW x \in 1 .. rd, fill = <<x>>
  PROVE  Completes(<<x, rd + 1>>)
  <1>1. Append(fill, rd + 1) = <<x, rd + 1>> /\ ~ (Len(<<x, rd + 1>>) < 2)
    <2>1. PICK y \in Nat : y = rd + 1
      BY DEF Shapes
    <2>2. Append(<<x>>, y) = <<x, y>>
      <3>1. <<x>> \in Seq(Nat) /\ Len(<<x>>) = 1 /\ <<x>>[1] = x
        BY DEF Shapes
      <3>2. PICK t : t = Append(<<x>>, y)
        OBVIOUS
      <3>3. t \in Seq(Nat) /\ Len(t) = 2 /\ t[1] = x /\ t[2] = y
        BY <3>1, <3>2
      <3>4. t = <<x, y>>
        BY <3>3
      <3> QED
        BY <3>2, <3>4
    <2>3. Len(<<x, y>>) = 2
      OBVIOUS
    <2> QED
      BY <2>1, <2>2, <2>3
  <1> QED
    BY <1>1 DEF Collect, Completes, up

LEMMA CompletedShapes ==
  ASSUME Shapes, NEW b, Completes(b), Advance(b).status \in {"open", "eof", "error"}
  PROVE  Shapes'
  <1>1. dec' \in Int
    BY DEF Shapes, Completes, WrongKey
  <1>2. rd \in Nat /\ arr \in Nat /\ rd' \in Nat /\ rd' <= arr'
    BY DEF Shapes, Completes
  <1>3. fill' \in Seq(Nat \ {0}) /\ Len(fill') <= 1 /\ \A i \in DOMAIN fill' : fill'[i] <= rd'
    BY DEF Completes
  <1>4. UNCHANGED <<codec, arr, enc, used, uplink>> /\ status' \in {"open", "eof", "error"}
    BY DEF Completes
  <1> QED
    BY <1>1, <1>2, <1>3, <1>4 DEF Shapes

LEMMA CompletedKeeping ==
  ASSUME StreamInv, codec \in Keeping, NEW x \in 1 .. rd, fill = <<x>>, Completes(<<x, rd + 1>>)
  PROVE  StreamInv'
  <1>1. codec \in Codecs /\ rd \in Nat /\ arr \in Nat /\ dec \in Int /\ arr <= 2 * WireLen(codec)
    BY DEF StreamInv, Shapes
  <1>2. rd < arr /\ status = "open" /\ codec' = codec
    BY DEF Completes
  <1>3. rd = 2 * dec + 1 /\ x = 2 * dec + 1
    BY <1>2 DEF StreamInv, InStep
  <1>4. PICK n \in 0 .. Frames : Len(out) = 2 * n /\ At(n)
    BY <1>2 DEF StreamInv, InStep, At
  <1>5. first <=> out = <<>>
    BY <1>2 DEF StreamInv, InStep
  <1>6. Frames \in Nat \ {0} /\ n \in Nat /\ Limit \in Nat
    BY FramedAssumption
  <1>7. out \in Seq(Nat) /\ InPlace
    BY DEF StreamInv, InPlace
  <1>8. dec \in Nat /\ WireLen(codec) \in Nat /\ 2 * dec + 2 <= 2 * WireLen(codec) /\ rd + 1 = 2 * dec + 2
    BY <1>1, <1>2, <1>3, WireIs
  <1>9. n = 0 => out = <<>>
    BY <1>4, <1>7
  <1>10. PICK b : b = <<2 * dec + 1, 2 * dec + 2>> /\ b = <<x, rd + 1>>
    BY <1>3, <1>8
  <1>11. Leads(Advance(b), b, n)
    BY <1>1, <1>4, <1>5, <1>8, <1>9, <1>10, KeepingLeads
  <1>12. stage # "salt"
    <2>1. CASE stage \in {"len", "pay"}
      BY <2>1
    <2>2. CASE dec \in 0 .. Len(Prologue(codec)) - 1 /\ stage = PrologueStage(codec, dec)
      BY <2>2 DEF PrologueStage, Prologue, Keeping
    <2> QED
      BY <1>4, <2>1, <2>2 DEF At
  <1>13. dec' = dec + 1 /\ rd' = 2 * dec' + Len(fill') /\ fill' = <<>>
    <2>1. fill' = <<>> /\ Len(fill') = 0 /\ rd' = rd + 1
      BY DEF Completes
    <2>2. dec' = dec + 1
      BY <1>12 DEF Completes
    <2> QED
      BY <1>8, <2>1, <2>2
  <1>14. /\ stage' = Advance(b).stage /\ status' = Advance(b).status /\ out' = out \o Advance(b).out
         /\ first' = (first /\ Advance(b).out = <<>>)
    BY <1>10 DEF Completes
  <1>15. Advance(b).status \in {"open", "eof", "error"}
    BY <1>11 DEF Leads
  <1>16. Shapes' /\ Counted' /\ InOrder'
    <2>1. Shapes'
      BY <1>10, <1>15, CompletedShapes DEF StreamInv
    <2>2. Counted'
      BY DEF StreamInv, Counted, Completes
    <2>3. InOrder'
      BY <1>2 DEF InOrder, Keeping
    <2> QED
      BY <2>1, <2>2, <2>3
  <1>17. CASE Advance(b).out = <<>>
    <2>1. out' = out
      BY <1>7, <1>14, <1>17
    <2>2. InPlace'
      BY <1>2, <1>7, <2>1 DEF InPlace, Payload
    <2>3. ASSUME status' = "open" PROVE At(n)'
      <3>1. b # <<>>
        BY <1>10
      <3> QED
        BY <1>2, <1>11, <1>13, <1>14, <1>17, <2>3, <3>1 DEF Leads, At
    <2>4. first' <=> out' = <<>>
      BY <1>5, <1>14, <1>17, <2>1
    <2>5. InStep'
      BY <1>4, <1>13, <2>1, <2>3, <2>4 DEF InStep, At
    <2> QED
      BY <1>16, <2>2, <2>5 DEF StreamInv
  <1>18. CASE Advance(b).out # <<>>
    <2>1. /\ Advance(b).out = b /\ Advance(b).stage = "len" /\ n < Frames
          /\ dec + 1 = RecordEnd(codec, n + 1)
      BY <1>11, <1>18 DEF Leads
    <2>2. PICK e \in Int : e = dec + 1 /\ e > 0 /\ e = RecordEnd(codec, n + 1)
      BY <1>8, <2>1
    <2>3. 2 * e - 1 = 2 * dec + 1 /\ 2 * e = 2 * dec + 2 /\ n \in 0 .. Frames - 1
      BY <1>6, <1>8, <2>1, <2>2
    <2>4. out' = out \o <<2 * e - 1, 2 * e>>
      BY <1>10, <1>14, <2>1, <2>3
    <2>5. InPlace' /\ Len(out') = 2 * (n + 1)
      BY <1>1, <1>2, <1>4, <1>7, <2>2, <2>3, <2>4, HandKeeps
    <2>6. n + 1 \in 0 .. Frames /\ 2 * (n + 1) # 0
      BY <1>6, <2>1
    <2>7. ~ first' /\ out' # <<>>
      BY <1>14, <1>18, <2>5, <2>6
    <2>8. At(n + 1)'
      BY <1>2, <1>13, <1>14, <2>1 DEF At
    <2>9. InStep'
      BY <1>13, <2>5, <2>6, <2>7, <2>8 DEF InStep, At
    <2> QED
      BY <1>16, <2>5, <2>9 DEF StreamInv
  <1> QED
    BY <1>17, <1>18

\* A codec that may have lost its place hands on what opens, and only that.
LEMMA CompletedOrder ==
  ASSUME StreamInv, codec \in {"ss", "snell"}, NEW x \in 1 .. rd, fill = <<x>>, Completes(<<x, rd + 1>>)
  PROVE  StreamInv'
  <1>1. codec \in Codecs /\ rd \in Nat /\ arr \in Nat /\ dec \in Int /\ arr <= 2 * WireLen(codec)
    BY DEF StreamInv, Shapes
  <1>2. /\ rd < arr /\ status = "open" /\ codec' = codec
        /\ codec \in Sealed \cup Keeping /\ codec \notin Keeping
    BY DEF Completes, Sealed, Keeping
  <1>3. Frames \in Nat \ {0}
    BY FramedAssumption
  <1>4. out \in Seq(Nat) /\ InPlace
    BY <1>2 DEF StreamInv, InPlace
  <1>5. WireLen(codec) \in Nat /\ x <= 2 * WireLen(codec) /\ x \in Nat \ {0}
    BY <1>1, <1>2, WireIs
  <1>6. PICK b : b = <<x, rd + 1>>
    OBVIOUS
  <1>7. /\ stage' = Advance(b).stage /\ status' = Advance(b).status /\ out' = out \o Advance(b).out
        /\ dec' = IF stage = "salt" /\ ~ Genuine(b, "salt") THEN WrongKey ELSE dec + 1
    BY <1>6 DEF Completes
  <1>8. \A field : Opens(b, field) =>
          /\ x = 2 * dec + 1 /\ rd + 1 = 2 * dec + 2 /\ dec \in Nat
          /\ dec + 1 \in 1 .. WireLen(codec) /\ Field(codec, dec + 1) = field
    <2>1. ASSUME NEW field, Opens(b, field)
          PROVE  /\ x = 2 * dec + 1 /\ rd + 1 = 2 * dec + 2 /\ dec \in Nat
                 /\ dec + 1 \in 1 .. WireLen(codec) /\ Field(codec, dec + 1) = field
      <3>1. /\ x = 2 * dec + 1 /\ rd + 1 = 2 * dec + 2
            /\ dec + 1 \in 1 .. WireLen(codec) /\ Field(codec, dec + 1) = field
        BY <1>1, <1>5, <1>6, <2>1, OpensNext
      <3> QED
        BY <1>1, <1>5, <3>1
    <2> QED
      BY <2>1
  <1>9. Advance(b) \in {Go("len"), Go("pay"), Go("padding"), Hand(b), Broken}
    BY DEF Advance, ShadowsocksAdvance, SnellAdvance
  <1>10. Shapes' /\ Counted' /\ InStep'
    <2>1. Advance(b).status \in {"open", "eof", "error"}
      BY <1>9 DEF Go, Hand, Broken
    <2>2. Shapes'
      BY <1>6, <2>1, CompletedShapes DEF StreamInv
    <2>3. Counted'
      BY DEF StreamInv, Counted, Completes
    <2>4. InStep'
      BY <1>2 DEF InStep
    <2> QED
      BY <2>2, <2>3, <2>4
  <1>11. ASSUME Advance(b).out = <<>> PROVE out' = out /\ InPlace'
    <2>1. out' = out
      BY <1>4, <1>7, <1>11
    <2> QED
      BY <1>2, <1>4, <2>1 DEF InPlace, Payload
  <1>12. ASSUME dec \in Nat
         PROVE  \E n \in 0 .. Frames : Len(out) = 2 * n /\ Passed(n, dec)
    BY <1>2, <1>12 DEF StreamInv, InOrder
  \* A field that is no payload leaves the count of the records as it is.
  <1>13. ASSUME dec \in Nat, dec + 1 \in 1 .. WireLen(codec), Field(codec, dec + 1) # "pay"
         PROVE  \E n \in 0 .. Frames : Len(out) = 2 * n /\ Passed(n, dec + 1)
    <2>1. PICK n \in 0 .. Frames : Len(out) = 2 * n /\ Passed(n, dec)
      BY <1>12, <1>13
    <2>2. Passed(n, dec + 1)
      BY <1>13, <2>1, PassedOn
    <2> QED
      BY <2>1, <2>2
  <1>14. CASE Advance(b).status # "open"
    <2>1. Advance(b).out = <<>>
      BY <1>9, <1>14 DEF Go, Hand, Broken
    <2>2. InPlace'
      BY <1>11, <2>1
    <2>3. InOrder'
      BY <1>7, <1>14 DEF InOrder
    <2> QED
      BY <1>10, <2>2, <2>3 DEF StreamInv
  <1>15. CASE stage = "salt"
    <2>1. Advance(b) = Go("len") /\ dec = 0
      BY <1>2, <1>15 DEF Advance, ShadowsocksAdvance, SnellAdvance, StreamInv, InOrder
    <2>2. out' = out /\ InPlace' /\ stage' = "len"
      BY <1>7, <1>11, <2>1 DEF Go
    <2>3. Field(codec, dec + 1) = "salt" /\ dec + 1 \in 1 .. WireLen(codec)
      <3>1. CASE codec = "snell"
        <4>1. Field("snell", 1) = "salt" /\ WireLen("snell") = 1 + 3 * Frames
          BY SnellFields, SnellLayout
        <4> QED
          BY <1>3, <2>1, <3>1, <4>1
      <3>2. CASE codec = "ss"
        <4>1. Prologue("ss") = <<"salt">> /\ Len(Prologue("ss")) = 1
          BY DEF Prologue
        <4>2. Field("ss", 1) = "salt"
          BY <4>1, PairFields
        <4>3. WireLen("ss") = Len(Prologue("ss")) + 2 * Frames + Len(EndMark("ss")) /\ Len(EndMark("ss")) = 0
          BY PairLayout
        <4> QED
          BY <1>3, <2>1, <3>2, <4>1, <4>2, <4>3
      <3> QED
        BY <3>1, <3>2
    <2>4. \E n \in 0 .. Frames : Len(out) = 2 * n /\ Passed(n, dec + 1)
      BY <1>13, <2>1, <2>3
    <2>5. ASSUME dec' = dec + 1 PROVE InOrder'
      BY <1>2, <2>1, <2>2, <2>4, <2>5 DEF InOrder, Passed
    <2>6. ASSUME dec' = WrongKey PROVE InOrder'
      <3>1. PICK n \in 0 .. Frames : Len(out) = 2 * n /\ Passed(n, dec)
        BY <1>12, <2>1
      <3>2. n = 0
        <4>1. PICK p \in 0 .. 2, w \in {2, 3} : \A f \in Int : RecordEnd(codec, f) = p + w * f
          BY <1>2, RecordEnds
        <4>2. RecordEnd(codec, n) = p + w * n
          BY <1>3, <4>1
        <4>3. n > 0 => p + w * n <= 0
          BY <2>1, <3>1, <4>2 DEF Passed
        <4> QED
          BY <1>3, <4>3
      <3>3. out' = <<>>
        BY <1>4, <2>2, <3>1, <3>2
      <3> QED
        BY <2>2, <2>6, <3>3 DEF InOrder, WrongKey
    <2> QED
      BY <1>7, <1>10, <2>2, <2>5, <2>6 DEF StreamInv
  <1>16. CASE stage = "len" /\ Advance(b).status = "open"
    <2>1. Opens(b, "len") /\ Advance(b) = Go(IF codec = "ss" THEN "pay" ELSE "padding")
      BY <1>16 DEF Advance, ShadowsocksAdvance, SnellAdvance, Broken
    <2>2. dec \in Nat /\ dec + 1 \in 1 .. WireLen(codec) /\ Field(codec, dec + 1) = "len"
      BY <1>8, <2>1
    <2>3. out' = out /\ InPlace' /\ stage' = (IF codec = "ss" THEN "pay" ELSE "padding") /\ dec' = dec + 1
      BY <1>7, <1>11, <1>16, <2>1 DEF Go
    <2>4. \E n \in 0 .. Frames : Len(out) = 2 * n /\ Passed(n, dec + 1)
      BY <1>13, <2>2
    <2>5. codec = "snell" => \E f \in 1 .. Frames : dec' + 2 = RecordEnd(codec, f)
      <3>1. codec = "snell" => \E f \in 1 .. Frames : dec + 1 + 2 = RecordEnd(codec, f)
        BY <2>2, SnellPadding
      <3> QED
        BY <2>3, <3>1
    <2>6. InOrder'
      BY <1>2, <2>2, <2>3, <2>4, <2>5 DEF InOrder, Passed
    <2> QED
      BY <1>10, <2>3, <2>6 DEF StreamInv
  <1>17. CASE stage = "padding"
    <2>1. codec = "snell" /\ \E f \in 1 .. Frames : dec + 2 = RecordEnd(codec, f)
      BY <1>2, <1>17 DEF StreamInv, InOrder
    <2>2. PICK f \in 1 .. Frames : dec + 2 = RecordEnd(codec, f)
      BY <2>1
    <2>3. dec + 2 = 1 + 3 * f /\ WireLen(codec) = 1 + 3 * Frames /\ Field(codec, dec + 2 - 1) = "padding"
      <3>1. f \in Int
        BY <1>3
      <3>2. RecordEnd("snell", f) = 1 + 3 * f /\ WireLen("snell") = 1 + 3 * Frames
        BY <3>1, SnellLayout, Zenon
      <3>3. Field("snell", RecordEnd("snell", f) - 1) = "padding"
        BY SnellFields
      <3>4. dec + 2 = RecordEnd("snell", f)
        BY <2>1, <2>2
      <3>5. Field("snell", dec + 2 - 1) = "padding"
        <4>1. RecordEnd("snell", f) - 1 = dec + 2 - 1
          BY <1>1, <3>1, <3>2, <3>4
        <4> QED
          BY <3>3, <4>1
      <3> QED
        BY <2>1, <3>2, <3>4, <3>5
    <2>4. dec \in Nat /\ dec + 1 \in 1 .. WireLen(codec) /\ dec + 2 - 1 = dec + 1
      BY <1>1, <1>3, <2>3
    <2>5. Advance(b) = Go("pay")
      BY <1>17, <2>1 DEF Advance, SnellAdvance
    <2>6. out' = out /\ InPlace' /\ stage' = "pay" /\ dec' = dec + 1
      BY <1>7, <1>11, <1>17, <2>5 DEF Go
    <2>7. \E n \in 0 .. Frames : Len(out) = 2 * n /\ Passed(n, dec + 1)
      BY <1>13, <2>3, <2>4
    <2>8. InOrder'
      BY <1>2, <2>4, <2>6, <2>7 DEF InOrder, Passed
    <2> QED
      BY <1>10, <2>6, <2>8 DEF StreamInv
  <1>18. CASE stage = "pay" /\ Advance(b).status = "open"
    <2>1. Opens(b, "pay") /\ Advance(b) = Hand(b)
      BY <1>18 DEF Advance, ShadowsocksAdvance, SnellAdvance, Broken
    <2>2. /\ dec \in Nat /\ dec + 1 \in 1 .. WireLen(codec) /\ Field(codec, dec + 1) = "pay"
          /\ x = 2 * dec + 1 /\ rd + 1 = 2 * dec + 2
      BY <1>8, <2>1
    <2>3. PICK n \in 0 .. Frames : Len(out) = 2 * n /\ Passed(n, dec)
      BY <1>12, <2>2
    <2>4. n < Frames /\ dec + 1 = RecordEnd(codec, n + 1) /\ Passed(n + 1, dec + 1)
      BY <2>2, <2>3, PassedOn
    <2>5. PICK e \in Int : e = dec + 1 /\ e > 0 /\ e = RecordEnd(codec, n + 1)
      BY <2>2, <2>4
    <2>6. 2 * e - 1 = 2 * dec + 1 /\ 2 * e = 2 * dec + 2 /\ n \in 0 .. Frames - 1
      BY <1>3, <2>2, <2>4, <2>5
    <2>7. out' = out \o <<2 * e - 1, 2 * e>> /\ stage' = "len" /\ dec' = dec + 1
      <3>1. Advance(b).out = b /\ Advance(b).stage = "len"
        BY <2>1 DEF Hand
      <3>2. b = <<2 * e - 1, 2 * e>>
        BY <1>6, <2>2, <2>6
      <3> QED
        BY <1>7, <1>18, <3>1, <3>2
    <2>8. InPlace' /\ Len(out') = 2 * (n + 1)
      BY <1>1, <1>2, <1>4, <2>3, <2>5, <2>6, <2>7, HandKeeps
    <2>9. n + 1 \in 0 .. Frames
      BY <1>3, <2>4
    <2>10. InOrder'
      BY <1>2, <2>2, <2>4, <2>7, <2>8, <2>9 DEF InOrder, Passed
    <2> QED
      BY <1>10, <2>8, <2>10 DEF StreamInv
  <1> QED
    BY <1>2, <1>14, <1>15, <1>16, <1>17, <1>18 DEF StreamInv, InOrder

LEMMA CompletedObfs ==
  ASSUME StreamInv, codec \in {"tlsobfs", "httpobfs"}, NEW b, Completes(b)
  PROVE  StreamInv'
  <1>1. Advance(b).status = "open"
    BY DEF Advance, TlsObfsRead, Go
  <1>2. Shapes'
    BY <1>1, CompletedShapes DEF StreamInv
  <1>3. codec' = codec /\ codec \notin Sealed \cup Keeping
    BY DEF Completes, Sealed, Keeping
  <1>4. Counted'
    BY DEF StreamInv, Counted, Completes
  <1> QED
    BY <1>2, <1>3, <1>4 DEF StreamInv, InPlace, InStep, InOrder, Sealed

LEMMA CollectKeeps ==
  ASSUME StreamInv, Collect
  PROVE  StreamInv'
  <1>1. CASE fill = <<>>
    BY <1>1, CollectFirst
  <1>2. CASE fill # <<>>
    <2>1. PICK x \in 1 .. rd : fill = <<x>>
      BY <1>2, InHand DEF StreamInv
    <2>2. Completes(<<x, rd + 1>>)
      BY <2>1, CollectLast DEF StreamInv
    <2>3. codec \in Known
      BY FramedAssumption DEF StreamInv, Shapes
    <2> QED
      BY <2>1, <2>2, <2>3, CompletedKeeping, CompletedOrder, CompletedObfs DEF Known, Keeping
  <1> QED
    BY <1>1, <1>2

\* A step that leaves the codec's reading alone, and the uplink.
LEMMA ReadingKept ==
  ASSUME InPlace, InStep, InOrder,
         UNCHANGED <<codec, rd, stage, fill, dec, first, out, status>>
  PROVE  InPlace' /\ InStep' /\ InOrder'
  <1>1. InPlace'
    BY DEF InPlace, Payload
  <1>2. InStep'
    BY DEF InStep
  <1>3. InOrder'
    BY DEF InOrder, Passed
  <1> QED
    BY <1>1, <1>2, <1>3

\* The socket and the peer.
LEMMA SocketKeeps ==
  ASSUME StreamInv, Arrive \/ PeerCloses
  PROVE  StreamInv'
  <1>1. UNCHANGED <<codec, rd, stage, fill, dec, first, out, status, enc, used, endSent, uplink>>
    BY DEF Arrive, PeerCloses, up
  <1>2. arr' \in Nat /\ rd <= arr' /\ arr' <= 2 * WireLen(codec)
    <2>1. /\ arr \in Nat /\ rd \in Nat /\ rd <= arr /\ arr <= 2 * WireLen(codec)
          /\ WireLen(codec) \in Nat /\ Len(Wire) = WireLen(codec)
      BY WireIs DEF StreamInv, Shapes
    <2> QED
      BY <2>1 DEF Arrive, PeerCloses
  <1>3. Shapes'
    BY <1>1, <1>2 DEF StreamInv, Shapes
  <1>4. Counted'
    BY <1>1 DEF StreamInv, Counted
  <1> QED
    BY <1>1, <1>3, <1>4, ReadingKept DEF StreamInv

\* The codecs that pass payload through are not sealed and keep nothing.
LEMMA PassThroughKeeps ==
  ASSUME StreamInv, PassThrough
  PROVE  StreamInv'
  <1>1. codec \notin Sealed \cup Keeping /\ codec \notin {"ss", "snell"}
    BY DEF PassThrough, PassesThrough, Sealed, Keeping
  <1>2. UNCHANGED <<codec, arr, fill, dec, status, enc, used, uplink>> /\ rd' = rd + 1 /\ rd < arr
    BY DEF PassThrough, up
  <1>3. Shapes'
    <2>1. rd \in Nat /\ arr \in Nat /\ rd' \in Nat /\ rd' <= arr
      BY <1>2 DEF StreamInv, Shapes
    <2>2. fill \in Seq(Nat \ {0}) /\ \A i \in DOMAIN fill : fill[i] <= rd'
      <3>1. fill \in Seq(Nat \ {0}) /\ \A i \in DOMAIN fill : fill[i] <= rd
        BY DEF StreamInv, Shapes
      <3>2. \A i \in DOMAIN fill : fill[i] \in Nat
        BY <3>1
      <3> QED
        BY <1>2, <2>1, <3>1, <3>2
    <2> QED
      BY <1>2, <2>1, <2>2 DEF StreamInv, Shapes
  <1>4. Counted'
    BY <1>2 DEF StreamInv, Counted
  <1> QED
    BY <1>1, <1>2, <1>3, <1>4 DEF StreamInv, InPlace, InStep, InOrder

\* A poll that elapses: the codecs that keep their place do not notice, and
\* what the others forget they cannot open any more.
LEMMA IdleKeeps ==
  ASSUME StreamInv, Idle
  PROVE  StreamInv'
  <1>1. UNCHANGED <<codec, arr, rd, dec, first, out, enc, used, uplink>> /\ status = "open"
    BY DEF Idle, up
  <1>2. CASE codec \in {"ss", "snell", "httpobfs"}
    <2>1. /\ fill' \in {fill, <<>>} /\ status' \in {status, "error"}
          /\ codec = "ss" => stage' = (IF stage = "pay" THEN "len" ELSE stage)
          /\ codec = "snell" => status' = "error"
          /\ codec # "ss" /\ status' = "open" => codec = "httpobfs"
      BY <1>2 DEF Idle, ShadowsocksIdle, SnellIdle, HttpObfsIdle
    <2>2. Shapes'
      <3>1. fill' \in Seq(Nat \ {0}) /\ Len(fill') <= 1 /\ \A i \in DOMAIN fill' : fill'[i] <= rd
        <4>1. CASE fill' = <<>>
          BY <4>1
        <4>2. CASE fill' = fill
          BY <4>2 DEF StreamInv, Shapes
        <4> QED
          BY <2>1, <4>1, <4>2
      <3> QED
        BY <1>1, <2>1, <3>1 DEF StreamInv, Shapes
    <2>3. Counted' /\ InPlace'
      BY <1>1 DEF StreamInv, Counted, InPlace, Payload
    <2>4. InStep'
      BY <1>1, <1>2 DEF InStep, Keeping
    <2>5. InOrder'
      <3>1. CASE codec = "ss"
        BY <1>1, <2>1, <3>1 DEF StreamInv, InOrder, Passed
      <3>2. CASE codec # "ss"
        BY <1>1, <2>1, <3>2 DEF InOrder
      <3> QED
        BY <3>1, <3>2
    <2> QED
      BY <2>2, <2>3, <2>4, <2>5 DEF StreamInv
  <1>3. CASE codec \notin {"ss", "snell", "httpobfs"}
    <2>1. UNCHANGED <<fill, stage, status>>
      BY <1>3 DEF Idle, KeepsProgress
    <2>2. Shapes' /\ Counted'
      BY <1>1, <2>1 DEF StreamInv, Shapes, Counted
    <2> QED
      BY <1>1, <2>1, <2>2, ReadingKept DEF StreamInv
  <1> QED
    BY <1>2, <1>3

LEMMA EndOfStreamKeeps ==
  ASSUME StreamInv, EndOfStream
  PROVE  StreamInv'
  <1>1. UNCHANGED <<codec, arr, rd, closed, stage, fill, dec, left, first, out, enc, used, endSent, uplink>>
    BY DEF EndOfStream, up
  <1>2. codec \in Known
    BY FramedAssumption DEF StreamInv, Shapes
  <1>3. status' \in {"eof", "error"}
    BY <1>2 DEF EndOfStream, VmessEnd, ShadowsocksEnd, SnellEnd, SsrEnd, ShadowTlsEnd, WebSocketEnd,
       TlsObfsEnd, HttpObfsEnd, Known
  <1>4. Shapes' /\ Counted' /\ InPlace'
    BY <1>1, <1>3 DEF StreamInv, Shapes, Counted, InPlace, Payload
  <1> QED
    BY <1>1, <1>3, <1>4 DEF StreamInv, InStep, InOrder

\* k values of the counter are appended to the nonces.
LEMMA CountOn ==
  ASSUME used \in Seq(Nat), enc \in Nat, NEW k \in Nat
  PROVE  /\ used \o Counter(k) \in Seq(Nat)
         /\ Len(used) = enc /\ (\A i \in DOMAIN used : used[i] = i - 1) =>
              /\ Len(used \o Counter(k)) = enc + k
              /\ \A i \in DOMAIN (used \o Counter(k)) : (used \o Counter(k))[i] = i - 1
  <1>1. Counter(k) = [i \in 1 .. k |-> enc + i - 1]
    BY DEF Counter
  <1>2. PICK c : c = Counter(k)
    OBVIOUS
  <1>3. c \in Seq(Nat) /\ Len(c) = k /\ \A i \in 1 .. k : c[i] = enc + i - 1
    <2>1. c \in [1 .. k -> Nat]
      BY <1>1, <1>2
    <2> QED
      BY <1>1, <1>2, <2>1
  <1>4. used \o c \in Seq(Nat)
    BY <1>3
  <1>5. ASSUME Len(used) = enc, \A i \in DOMAIN used : used[i] = i - 1
        PROVE  Len(used \o c) = enc + k /\ \A i \in DOMAIN (used \o c) : (used \o c)[i] = i - 1
    <2>1. Len(used \o c) = enc + k /\ DOMAIN (used \o c) = 1 .. enc + k /\ DOMAIN used = 1 .. enc
      <3>1. Len(used \o c) = Len(used) + Len(c)
        BY <1>3
      <3>2. Len(used \o c) = enc + k
        BY <1>3, <1>5, <3>1
      <3> QED
        BY <1>4, <1>5, <3>2
    <2>2. ASSUME NEW i \in 1 .. enc + k PROVE (used \o c)[i] = i - 1
      <3>1. CASE i \in 1 .. enc
        <4>1. (used \o c)[i] = used[i]
          BY <1>3, <1>5, <2>1, <3>1
        <4> QED
          BY <1>5, <2>1, <3>1, <4>1
      <3>2. CASE i \notin 1 .. enc
        <4>1. PICK j \in 1 .. k : i = enc + j
          <5>1. i - enc \in 1 .. k /\ i = enc + (i - enc)
            BY <3>2
          <5> QED
            BY <5>1
        <4>2. (used \o c)[Len(used) + j] = c[j]
          BY <1>3, <1>5, <4>1
        <4>3. c[j] = enc + j - 1
          BY <1>3
        <4> QED
          BY <1>5, <4>1, <4>2, <4>3
      <3> QED
        BY <3>1, <3>2
    <2> QED
      BY <2>1, <2>2
  <1> QED
    BY <1>2, <1>4, <1>5

\* A write of any codec seals with the next values of the counter, and only a
\* failed one of VMess does not store where it got to.
LEMMA WriteKeeps ==
  ASSUME StreamInv, NEW m \in 1 .. Chunks, Write(m)
  PROVE  StreamInv'
  <1>1. UNCHANGED <<codec, arr, rd, closed, stage, fill, dec, left, first, out, status>> /\ uplink = "open"
    BY DEF Write, down
  <1>2. used \in Seq(Nat) /\ enc \in Nat /\ m \in Nat /\ codec \in Known
    BY FramedAssumption DEF StreamInv, Shapes
  <1>3. Len(used) = enc /\ \A i \in DOMAIN used : used[i] = i - 1
    BY <1>1 DEF StreamInv, Counted
  <1>4. \/ UNCHANGED <<enc, used>> /\ uplink' \in {uplink, "failed"}
        \/ \E k \in Nat : used' = used \o Counter(k) /\ enc' = enc + k /\ uplink' \in {uplink, "failed"}
        \/ codec \in {"vmess", "legacy"} /\ uplink' = "failed" /\ UNCHANGED enc
             /\ \E k \in Nat : used' = used \o Counter(k)
    <2>1. CASE codec \in {"vmess", "legacy"}
      <3>1. VmessWrite(m) \/ VmessRefuses(m)
        BY <2>1 DEF Write
      <3>2. CASE VmessRefuses(m)
        BY <3>2 DEF VmessRefuses
      <3>3. CASE VmessWrite(m)
        <4>1. \/ used' = used \o Counter(m) /\ enc' = enc + m /\ UNCHANGED uplink
              \/ \E k \in 1 .. m : used' = used \o Counter(k) /\ UNCHANGED enc /\ uplink' = "failed"
          BY <3>3, Zenon DEF VmessWrite
        <4>2. 1 .. m \subseteq Nat
          BY <1>2
        <4> QED
          BY <1>2, <2>1, <4>1, <4>2, Zenon
      <3> QED
        BY <3>1, <3>2, <3>3
    <2>2. CASE codec \in {"ss", "snell", "shadowtls"}
      <3>1. PICK j \in Nat : SealThenWrite(j)
        <4>1. 2 * m \in Nat
          BY <1>2
        <4>2. SealThenWrite(2 * m) \/ SealThenWrite(m)
          BY <2>2 DEF Write, ShadowsocksWrite, SnellWrite, ShadowTlsWrite
        <4> QED
          BY <1>2, <4>1, <4>2
      <3>2. \/ used' = used \o Counter(j) /\ enc' = enc + j /\ UNCHANGED uplink
            \/ \E k \in 1 .. j : used' = used \o Counter(k) /\ enc' = enc + k /\ uplink' = "failed"
        BY <3>1, Zenon DEF SealThenWrite
      <3>3. 1 .. j \subseteq Nat
        OBVIOUS
      <3> QED
        BY <3>2, <3>3, Zenon
    <2>3. CASE codec \in {"ssr", "ws", "tlsobfs", "httpobfs"}
      BY <2>3 DEF Write, SsrWrite, WebSocketWrite, TlsObfsWrite, HttpObfsWrite, PlainWrite
    <2> QED
      BY <1>2, <2>1, <2>2, <2>3 DEF Known
  <1>5. used' \in Seq(Nat) /\ enc' \in Nat /\ uplink' \in {"open", "failed"} /\ Counted'
    <2>1. CASE UNCHANGED <<enc, used>> /\ uplink' \in {uplink, "failed"}
      BY <1>1, <1>2, <1>3, <2>1 DEF Counted
    <2>2. CASE \E k \in Nat : used' = used \o Counter(k) /\ enc' = enc + k /\ uplink' \in {uplink, "failed"}
      <3>1. PICK k \in Nat : used' = used \o Counter(k) /\ enc' = enc + k /\ uplink' \in {uplink, "failed"}
        BY <2>2
      <3>2. used' \in Seq(Nat) /\ Len(used') = enc' /\ \A i \in DOMAIN used' : used'[i] = i - 1
        BY <1>2, <1>3, <3>1, CountOn
      <3>3. enc' \in Nat
        BY <1>2, <3>1
      <3> QED
        BY <1>1, <3>1, <3>2, <3>3 DEF Counted
    <2>3. CASE codec \in {"vmess", "legacy"} /\ uplink' = "failed" /\ UNCHANGED enc
                 /\ \E k \in Nat : used' = used \o Counter(k)
      <3>1. PICK k \in Nat : used' = used \o Counter(k)
        BY <2>3
      <3>2. used' \in Seq(Nat)
        BY <1>2, <3>1, CountOn
      <3> QED
        BY <1>1, <1>2, <2>3, <3>2 DEF Counted
    <2> QED
      BY <1>4, <2>1, <2>2, <2>3
  <1>6. Shapes'
    BY <1>1, <1>5 DEF StreamInv, Shapes
  <1> QED
    BY <1>1, <1>5, <1>6, ReadingKept DEF StreamInv

LEMMA ShutdownKeeps ==
  ASSUME StreamInv, Shutdown
  PROVE  StreamInv'
  <1>1. /\ UNCHANGED <<codec, arr, rd, closed, stage, fill, dec, left, first, out, status>>
        /\ uplink \in {"open", "failed"} /\ uplink' = IF uplink = "failed" THEN "aborted" ELSE "shut"
    BY DEF Shutdown, down
  <1>2. used \in Seq(Nat) /\ enc \in Nat
    BY DEF StreamInv, Shapes
  <1>3. \/ UNCHANGED <<enc, used>>
        \/ used' = Append(used, enc) /\ enc' = enc + 1
    BY Zenon DEF Shutdown, VmessShutdown
  <1>4. used' \in Seq(Nat) /\ enc' \in Nat
    <2>1. CASE UNCHANGED <<enc, used>>
      BY <1>2, <2>1
    <2>2. CASE used' = Append(used, enc) /\ enc' = enc + 1
      <3>1. Append(used, enc) \in Seq(Nat) /\ enc + 1 \in Nat
        BY <1>2
      <3> QED
        BY <2>2, <3>1
    <2> QED
      BY <1>3, <2>1, <2>2
  <1>5. Counted'
    <2>1. CASE UNCHANGED <<enc, used>>
      BY <1>1, <2>1 DEF StreamInv, Counted
    <2>2. CASE used' = Append(used, enc) /\ enc' = enc + 1
      <3> SUFFICES ASSUME (codec \in {"vmess", "legacy"} => uplink' \in {"open", "shut"})
                   PROVE  Len(used') = enc' /\ \A i \in DOMAIN used' : used'[i] = i - 1
        BY <1>1 DEF Counted
      <3>1. Len(used) = enc /\ \A i \in DOMAIN used : used[i] = i - 1
        BY <1>1 DEF StreamInv, Counted
      <3>2. Len(used') = enc' /\ DOMAIN used' = 1 .. enc + 1 /\ DOMAIN used = 1 .. enc
        BY <1>2, <2>2, <3>1
      <3>3. ASSUME NEW i \in 1 .. enc + 1 PROVE used'[i] = i - 1
        <4>1. CASE i \in 1 .. enc
          BY <1>2, <2>2, <3>1, <3>2, <4>1
        <4>2. CASE i = enc + 1
          BY <1>2, <2>2, <3>1, <4>2
        <4> QED
          BY <1>2, <4>1, <4>2
      <3> QED
        BY <3>2, <3>3
    <2> QED
      BY <1>3, <2>1, <2>2
  <1>6. Shapes'
    BY <1>1, <1>4 DEF StreamInv, Shapes
  <1> QED
    BY <1>1, <1>5, <1>6, ReadingKept DEF StreamInv

LEMMA StreamStarts == Init => StreamInv
  <1> SUFFICES ASSUME Init PROVE StreamInv
    OBVIOUS
  <1>1. codec \in Codecs /\ codec \in Known /\ Frames \in Nat \ {0} /\ WireLen(codec) \in Nat
    BY FramedAssumption, WireIs DEF Init
  <1>2. /\ arr = 0 /\ rd = 0 /\ fill = <<>> /\ dec = 0 /\ first = TRUE /\ out = <<>> /\ status = "open"
        /\ enc = 0 /\ used = <<>> /\ uplink = "open" /\ stage = FirstStage(codec)
    BY DEF Init
  <1>3. Shapes
    BY <1>1, <1>2 DEF Shapes
  <1>4. Counted /\ InPlace
    BY <1>1, <1>2 DEF Counted, InPlace
  <1>5. ASSUME codec \in Keeping PROVE At(0)
    <2>1. CASE codec = "ws"
      <3>1. stage = "len" /\ Prologue(codec) = <<>>
        BY <1>2, <2>1 DEF FirstStage, Prologue
      <3>2. RecordEnd(codec, 0) = Len(Prologue(codec)) + 2 * 0
        BY <1>5, 0 \in Int, PairLayout, Zenon
      <3> QED
        BY <1>2, <3>1, <3>2 DEF At
    <2>2. CASE codec # "ws"
      <3>1. /\ Len(Prologue(codec)) \in 1 .. 2 /\ Head(Prologue(codec)) = Prologue(codec)[1]
        BY <1>5, <2>2 DEF Keeping, Prologue
      <3>2. stage = PrologueStage(codec, 0)
        BY <1>2, <2>2, <3>1 DEF FirstStage, PrologueStage
      <3> QED
        BY <1>2, <3>1, <3>2 DEF At
    <2> QED
      BY <2>1, <2>2
  <1>6. InStep
    <2>1. 0 \in 0 .. Frames /\ Len(out) = 2 * 0 /\ rd = 2 * dec + Len(fill)
      BY <1>1, <1>2
    <2> QED
      BY <1>2, <1>5, <2>1 DEF InStep, At
  <1>7. InOrder
    <2> SUFFICES ASSUME codec \in {"ss", "snell"} PROVE InOrder
      BY DEF InOrder
    <2>1. stage = "salt"
      BY <1>2 DEF FirstStage, Prologue
    <2>2. Passed(0, 0)
      <3>1. PICK p \in 0 .. 2, w \in {2, 3} : \A f \in Int : RecordEnd(codec, f) = p + w * f
        BY RecordEnds DEF Sealed
      <3>2. p = 1
        <4>1. RecordEnd(codec, 0) = p + w * 0
          BY <3>1, 0 \in Int, Zenon
        <4>2. RecordEnd(codec, 0) = Len(Prologue(codec)) + 0 * Len(RecordFields(codec))
          BY DEF RecordEnd
        <4>3. Len(Prologue(codec)) = 1 /\ Len(RecordFields(codec)) \in Int
          BY DEF Prologue, RecordFields
        <4> QED
          BY <4>1, <4>2, <4>3
      <3>3. RecordEnd(codec, 0 + 1) = p + w * 1
        BY <3>1
      <3> QED
        BY <1>1, <3>2, <3>3 DEF Passed
    <2>3. 0 \in 0 .. Frames /\ Len(out) = 2 * 0
      BY <1>1, <1>2
    <2> QED
      BY <1>2, <2>1, <2>2, <2>3 DEF InOrder
  <1> QED
    BY <1>3, <1>4, <1>6, <1>7 DEF StreamInv

LEMMA StreamNext == StreamInv /\ [Next]_vars => StreamInv'
  <1> SUFFICES ASSUME StreamInv, [Next]_vars PROVE StreamInv'
    OBVIOUS
  <1>1. CASE UNCHANGED vars
    <2>1. UNCHANGED <<codec, arr, rd, stage, fill, dec, first, out, status, enc, used, uplink>>
      BY <1>1 DEF vars, down, up
    <2>2. Shapes' /\ Counted'
      BY <2>1 DEF StreamInv, Shapes, Counted
    <2> QED
      BY <2>1, <2>2, ReadingKept DEF StreamInv
  <1>2. CASE Next
    BY <1>2, SocketKeeps, CollectKeeps, PassThroughKeeps, IdleKeeps, EndOfStreamKeeps, WriteKeeps, ShutdownKeeps
       DEF Next
  <1> QED
    BY <1>1, <1>2

LEMMA StreamInvariant == Spec => []StreamInv
  BY StreamStarts, StreamNext, PTL DEF Spec

\* For every number of records and every counter limit: whatever the polls
\* interrupt, no codec with authenticated records hands a byte on out of its
\* place, and no two chunks are sealed with one value of the counter, but by
\* VMess after a write that failed half-way (vmess.rs, shadowsocks.rs,
\* snell.rs, ssr.rs, shadowtls.rs).
THEOREM RecordsAreAlwaysSound == Spec => []RecordsAreSound
  <1>1. ASSUME StreamInv PROVE RecordsAreSound
    <2>1. codec \in Codecs /\ InPlace
      BY <1>1 DEF StreamInv, Shapes
    <2>2. NothingOutOfPlace
      BY <2>1, InPlaceIsPrefix DEF NothingOutOfPlace
    <2>3. NonceUsedOnce
      <3> SUFFICES ASSUME codec \in {"vmess", "legacy"} => uplink \in {"open", "shut"},
                          NEW i \in DOMAIN used, NEW j \in DOMAIN used, used[i] = used[j]
                   PROVE  i = j
        BY DEF NonceUsedOnce
      <3>1. used[i] = i - 1 /\ used[j] = j - 1 /\ i \in Int /\ j \in Int
        BY <1>1 DEF StreamInv, Counted, Shapes
      <3>2. i - 1 = j - 1
        BY <3>1, Zenon
      <3> QED
        BY <3>1, <3>2
    <2> QED
      BY <2>2, <2>3 DEF RecordsAreSound
  <1> QED
    BY <1>1, StreamInvariant, PTL

-----------------------------------------------------------------------------
(* The codecs that keep their place implement RecordStream.                *)

\* The payload that has arrived is that of the first m records.
LEMMA WholeIs ==
  ASSUME NEW c \in Keeping, NEW a \in Nat
  PROVE  \E m \in 0 .. Frames :
           /\ Cardinality({f \in 1 .. Frames : 2 * PayField(c, f) <= a}) = m
           /\ \A f \in 1 .. Frames : 2 * RecordEnd(c, f) <= a <=> f <= m
  <1>1. Frames \in Nat \ {0}
    BY FramedAssumption
  <1>2. PICK p \in 0 .. 2 : \A f \in Int : RecordEnd(c, f) = p + 2 * f /\ PayField(c, f) = RecordEnd(c, f)
    <2>1. /\ Len(Prologue(c)) \in 0 .. 2
          /\ \A f \in Int : RecordEnd(c, f) = Len(Prologue(c)) + 2 * f /\ PayField(c, f) = RecordEnd(c, f)
      BY PairLayout
    <2> QED
      BY <2>1, Zenon
  <1>3. \E m \in 0 .. Frames : \A f \in 1 .. Frames : 2 * (p + 2 * f) <= a <=> f <= m
    <2>1. CASE a < 2 * p
      BY <1>1, <2>1
    <2>2. CASE a >= 2 * p
      <3>1. PICK q \in Nat, r \in 0 .. 3 : a - 2 * p = 4 * q + r
        <4>1. PICK b \in Nat : b = a - 2 * p
          BY <2>2
        <4>2. b \div 4 \in Nat /\ b % 4 \in 0 .. 3 /\ b = 4 * (b \div 4) + (b % 4)
          OBVIOUS
        <4> QED
          BY <4>1, <4>2
      <3>2. \A f \in 1 .. Frames : 2 * (p + 2 * f) <= a <=> f <= q
        BY <1>1, <3>1
      <3>3. CASE q <= Frames
        BY <1>1, <3>2, <3>3
      <3>4. CASE q > Frames
        <4>1. \A f \in 1 .. Frames : f <= q /\ f <= Frames
          BY <1>1, <3>4
        <4>2. Frames \in 0 .. Frames
          BY <1>1
        <4> QED
          BY <3>2, <4>1, <4>2
      <3> QED
        BY <1>1, <3>3, <3>4
    <2> QED
      BY <2>1, <2>2
  <1>4. PICK m \in 0 .. Frames : \A f \in 1 .. Frames : 2 * (p + 2 * f) <= a <=> f <= m
    BY <1>3
  <1>5. \A f \in 1 .. Frames : PayField(c, f) = p + 2 * f /\ RecordEnd(c, f) = p + 2 * f
    BY <1>1, <1>2
  <1>6. {f \in 1 .. Frames : 2 * PayField(c, f) <= a} = 1 .. m
    <2>1. 1 .. m \subseteq 1 .. Frames /\ \A f \in 1 .. Frames : f <= m <=> f \in 1 .. m
      BY <1>1
    <2> QED
      BY <1>4, <1>5, <2>1
  <1>7. Cardinality(1 .. m) = m
    BY <1>1, FS_Interval
  <1> QED
    BY <1>4, <1>5, <1>6, <1>7

\* What the pipe shows of a codec that keeps its place, and of another one.
LEMMA PipeShows ==
  ASSUME StreamInv
  PROVE  /\ Len(Payload) = 2 * Frames
         /\ codec \in Keeping => /\ PipeArrived = WholeRecords /\ PipeDelivered = Len(out) /\ PipeStatus = status
                                 /\ PipeEnded = IF ~ closed THEN "no" ELSE IF AtBoundary THEN "between" ELSE "inside"
         /\ codec \notin Keeping => /\ PipeArrived = 0 /\ PipeDelivered = 0 /\ PipeStatus = "open"
                                    /\ PipeEnded = "no"
  <1>1. codec \in Codecs /\ InPlace
    BY DEF StreamInv, Shapes
  <1>2. codec \in Keeping => IsPrefix(out, Payload)
    BY <1>1, InPlaceIsPrefix
  <1> QED
    BY <1>1, <1>2, WireIs DEF PipeArrived, PipeDelivered, PipeStatus, PipeEnded, Kept

\* A step that changes nothing the pipe shows.
LEMMA PipeStutters ==
  ASSUME UNCHANGED <<codec, arr, closed, out, status>>
  PROVE  UNCHANGED Pipe!vars
  <1>1. Payload' = Payload
    BY DEF Payload
  <1>2. WholeRecords' = WholeRecords
    BY DEF WholeRecords
  <1>3. AtBoundary' = AtBoundary
    BY DEF AtBoundary
  <1>4. PipeArrived' = PipeArrived
    BY <1>2 DEF PipeArrived, Kept
  <1>5. PipeDelivered' = PipeDelivered
    BY <1>1 DEF PipeDelivered, Kept
  <1>6. PipeEnded' = PipeEnded
    BY <1>3 DEF PipeEnded, Kept
  <1>7. PipeStatus' = PipeStatus
    BY DEF PipeStatus, Kept
  <1> QED
    BY <1>1, <1>4, <1>5, <1>6, <1>7 DEF Pipe!vars

\* The codecs that do not keep their place show nothing.
LEMMA PipeIdle ==
  ASSUME StreamInv, StreamInv', codec' = codec, codec \notin Keeping
  PROVE  UNCHANGED Pipe!vars
  <1>1. Payload' = Payload
    BY DEF Payload
  <1>2. /\ PipeArrived = 0 /\ PipeDelivered = 0 /\ PipeStatus = "open" /\ PipeEnded = "no"
    BY PipeShows
  <1>3. /\ PipeArrived' = 0 /\ PipeDelivered' = 0 /\ PipeStatus' = "open" /\ PipeEnded' = "no"
    BY PipeShows DEF PipeArrived, PipeDelivered, PipeStatus, PipeEnded, Kept
  <1> QED
    BY <1>1, <1>2, <1>3 DEF Pipe!vars

LEMMA PipeArrives ==
  ASSUME StreamInv, StreamInv', Arrive, codec \in Keeping
  PROVE  Pipe!Arrive \/ UNCHANGED Pipe!vars
  <1>1. ~ closed /\ arr' = arr + 1 /\ UNCHANGED <<codec, closed, out, status>>
    BY DEF Arrive
  <1>2. codec \in Codecs /\ arr \in Nat /\ arr' \in Nat
    BY DEF StreamInv, Shapes
  <1>3. Frames \in Nat \ {0} /\ Payload' = Payload /\ Len(Payload) = 2 * Frames
    BY <1>1, FramedAssumption, PipeShows DEF Payload
  <1>4. PICK m \in 0 .. Frames :
          /\ WholeRecords = 2 * m /\ \A f \in 1 .. Frames : 2 * RecordEnd(codec, f) <= arr <=> f <= m
    BY <1>2, WholeIs DEF WholeRecords
  <1>5. PICK k \in 0 .. Frames :
          /\ WholeRecords' = 2 * k /\ \A f \in 1 .. Frames : 2 * RecordEnd(codec, f) <= arr' <=> f <= k
    <2>1. WholeRecords' = 2 * Cardinality({f \in 1 .. Frames : 2 * PayField(codec, f) <= arr'})
      BY <1>1 DEF WholeRecords
    <2> QED
      BY <1>2, <2>1, WholeIs
  <1>6. m <= k
    <2>1. CASE m = 0
      BY <1>3, <2>1
    <2>2. CASE m # 0
      <3>1. m \in 1 .. Frames /\ m <= m
        BY <1>3, <2>2
      <3>2. 2 * RecordEnd(codec, m) <= arr
        BY <1>4, <3>1
      <3>3. RecordEnd(codec, m) \in Int
        <4>1. PICK p \in 0 .. 2 : \A f \in Int : RecordEnd(codec, f) = p + 2 * f
          BY RecordEnds DEF Keeping
        <4>2. RecordEnd(codec, m) = p + 2 * m
          BY <1>3, <4>1
        <4> QED
          BY <1>3, <4>2
      <3>4. 2 * RecordEnd(codec, m) <= arr'
        BY <1>1, <1>2, <3>2, <3>3
      <3> QED
        BY <1>5, <3>1, <3>4
    <2> QED
      BY <2>1, <2>2
  <1>7. /\ PipeArrived = 2 * m /\ PipeDelivered = Len(out) /\ PipeStatus = status /\ PipeEnded = "no"
    BY <1>1, <1>4, PipeShows
  <1>8. /\ PipeArrived' = 2 * k /\ PipeDelivered' = Len(out) /\ PipeStatus' = status /\ PipeEnded' = "no"
    <2>1. /\ PipeArrived' = WholeRecords' /\ PipeStatus' = status' /\ PipeEnded' = "no"
      BY <1>1 DEF PipeArrived, PipeStatus, PipeEnded, Kept
    <2>2. PipeDelivered' = PipeDelivered
      BY <1>1, <1>3 DEF PipeDelivered, Kept
    <2> QED
      BY <1>1, <1>5, <1>7, <2>1, <2>2
  <1>9. UNCHANGED <<Len(Payload), codec \in {"vmess", "legacy"}>>
    BY <1>1, <1>3
  <1>10. CASE m = k
    BY <1>7, <1>8, <1>9, <1>10 DEF Pipe!vars
  <1>11. CASE m # k
    <2>1. 2 * m < 2 * Frames /\ 2 * k \in 2 * m + 1 .. 2 * Frames
      BY <1>3, <1>6, <1>11
    <2> QED
      BY <1>3, <1>7, <1>8, <1>9, <2>1 DEF Pipe!Arrive
  <1> QED
    BY <1>10, <1>11

LEMMA PrefixIs ==
  ASSUME NEW s \in Seq(Nat), NEW t \in Seq(Int), Len(s) <= Len(t), \A i \in DOMAIN s : s[i] = t[i]
  PROVE  IsPrefix(s, t)
  <1>1. \A i \in 1 .. Len(s) : s[i] = t[i]
    OBVIOUS
  <1>2. SubSeq(s, 1, Len(s)) = SubSeq(t, 1, Len(s))
    BY <1>1
  <1> QED
    BY <1>2 DEF IsPrefix

\* What the pipe shows after a step of the reader.
LEMMA PipeRead ==
  ASSUME StreamInv, StreamInv', codec \in Keeping, UNCHANGED <<codec, arr, closed>>
  PROVE  /\ UNCHANGED <<Len(Payload), codec \in {"vmess", "legacy"}, PipeArrived, PipeEnded>>
         /\ PipeDelivered = Len(out) /\ PipeDelivered' = Len(out')
         /\ PipeStatus = status /\ PipeStatus' = status'
  <1>1. Payload' = Payload
    BY DEF Payload
  <1>2. WholeRecords' = WholeRecords
    BY DEF WholeRecords
  <1>3. AtBoundary' = AtBoundary
    BY DEF AtBoundary
  <1>4. IsPrefix(out', Payload)
    <2>1. codec \in Codecs /\ Payload \in Seq(Int) /\ Len(Payload) = 2 * Frames
      BY WireIs DEF StreamInv, Shapes
    <2>2. out' \in Seq(Nat) /\ Len(out') <= 2 * Frames /\ \A i \in DOMAIN out' : out'[i] = Payload[i]
      BY <1>1 DEF StreamInv, InPlace
    <2> QED
      BY <2>1, <2>2, PrefixIs
  <1>5. PipeDelivered = Len(out) /\ PipeStatus = status
    BY PipeShows
  <1>6. PipeDelivered' = Len(out')
    BY <1>1, <1>4 DEF PipeDelivered, Kept
  <1>7. PipeStatus' = status' /\ PipeArrived' = PipeArrived /\ PipeEnded' = PipeEnded
    BY <1>2, <1>3 DEF PipeStatus, PipeArrived, PipeEnded, Kept
  <1> QED
    BY <1>1, <1>5, <1>6, <1>7

\* Where an open reader stands: n records handed on, m of them arrived.
LEMMA ReaderStands ==
  ASSUME StreamInv, codec \in Keeping, status = "open"
  PROVE  \E p \in 0 .. 2, n \in 0 .. Frames, m \in 0 .. Frames :
           /\ p = Len(Prologue(codec)) /\ \A f \in Int : RecordEnd(codec, f) = p + 2 * f
           /\ Len(out) = 2 * n /\ At(n)
           /\ WholeRecords = 2 * m /\ \A f \in 1 .. Frames : 2 * (p + 2 * f) <= arr <=> f <= m
           /\ dec \in Nat /\ arr \in Nat /\ rd \in Nat /\ rd <= arr
           /\ \/ fill = <<>> /\ rd = 2 * dec
              \/ fill = <<2 * dec + 1>> /\ rd = 2 * dec + 1
           /\ n = 0 => first
  <1>1. Frames \in Nat \ {0} /\ codec \in Codecs /\ arr \in Nat /\ rd \in Nat /\ rd <= arr /\ dec \in Int
    BY FramedAssumption DEF StreamInv, Shapes
  <1>2. PICK p \in 0 .. 2 : p = Len(Prologue(codec)) /\ \A f \in Int : RecordEnd(codec, f) = p + 2 * f
    <2>1. /\ Len(Prologue(codec)) \in 0 .. 2
          /\ \A f \in Int : RecordEnd(codec, f) = Len(Prologue(codec)) + 2 * f
      BY PairLayout
    <2> QED
      BY <2>1, Zenon
  <1>3. PICK n \in 0 .. Frames : Len(out) = 2 * n /\ At(n)
    BY DEF StreamInv, InStep, At
  <1>4. PICK m \in 0 .. Frames :
          /\ WholeRecords = 2 * m /\ \A f \in 1 .. Frames : 2 * RecordEnd(codec, f) <= arr <=> f <= m
    BY <1>1, WholeIs DEF WholeRecords
  <1>5. \A f \in 1 .. Frames : 2 * (p + 2 * f) <= arr <=> f <= m
    <2> SUFFICES ASSUME NEW f \in 1 .. Frames PROVE 2 * (p + 2 * f) <= arr <=> f <= m
      OBVIOUS
    <2>1. RecordEnd(codec, f) = p + 2 * f
      BY <1>1, <1>2
    <2> QED
      BY <1>4, <2>1
  <1>6. \/ fill = <<>> /\ rd = 2 * dec
        \/ fill = <<2 * dec + 1>> /\ rd = 2 * dec + 1
    <2>1. rd = 2 * dec + Len(fill) /\ fill \in {<<>>, <<2 * dec + 1>>}
      BY DEF StreamInv, InStep
    <2>2. CASE fill = <<>>
      <3>1. Len(fill) = 0
        BY <2>2
      <3> QED
        BY <1>1, <2>1, <2>2, <3>1
    <2>3. CASE fill = <<2 * dec + 1>>
      <3>1. Len(fill) = 1
        BY <2>3
      <3> QED
        BY <2>1, <2>3, <3>1
    <2> QED
      BY <2>1, <2>2, <2>3
  <1>7. dec \in Nat
    BY <1>1, <1>6
  <1>8. n = 0 => first
    <2>1. out \in Seq(Nat) /\ (first <=> out = <<>>)
      BY DEF StreamInv, InPlace, InStep
    <2> QED
      BY <1>3, <2>1
  <1> QED
    BY <1>1, <1>2, <1>3, <1>4, <1>5, <1>6, <1>7, <1>8

LEMMA PipeCloses ==
  ASSUME StreamInv, PeerCloses, codec \in Keeping
  PROVE  Pipe!Close
  <1>1. ~ closed /\ closed' /\ UNCHANGED <<codec, arr, out, status>>
    BY DEF PeerCloses
  <1>2. UNCHANGED <<Len(Payload), codec \in {"vmess", "legacy"}, PipeArrived, PipeDelivered, PipeStatus>>
    BY <1>1 DEF Payload, PipeArrived, PipeDelivered, PipeStatus, Kept, WholeRecords
  <1>3. PipeEnded = "no" /\ PipeEnded' \in {"between", "inside"}
    BY <1>1 DEF PipeEnded, Kept
  <1> QED
    BY <1>2, <1>3 DEF Pipe!Close

\* The reader takes a byte: the first of a field, the last of a field that
\* hands nothing on, a record, or the end of all records.
LEMMA PipeCollects ==
  ASSUME StreamInv, StreamInv', Collect, codec \in Keeping, Frames <= Limit
  PROVE  Pipe!Next \/ UNCHANGED Pipe!vars
  <1>1. status = "open" /\ rd < arr /\ UNCHANGED <<codec, arr, closed>>
    BY DEF Collect
  <1>2. codec \in Codecs /\ arr <= 2 * WireLen(codec) /\ WireLen(codec) \in Nat /\ out \in Seq(Nat)
    BY WireIs DEF StreamInv, Shapes, InPlace
  <1>3. Frames \in Nat \ {0} /\ Limit \in Nat
    BY FramedAssumption
  <1>4. PICK p \in 0 .. 2, n \in 0 .. Frames, m \in 0 .. Frames :
           /\ p = Len(Prologue(codec)) /\ \A f \in Int : RecordEnd(codec, f) = p + 2 * f
           /\ Len(out) = 2 * n /\ At(n)
           /\ WholeRecords = 2 * m /\ \A f \in 1 .. Frames : 2 * (p + 2 * f) <= arr <=> f <= m
           /\ dec \in Nat /\ arr \in Nat /\ rd \in Nat /\ rd <= arr
           /\ \/ fill = <<>> /\ rd = 2 * dec
              \/ fill = <<2 * dec + 1>> /\ rd = 2 * dec + 1
           /\ n = 0 => first
    BY <1>1, ReaderStands
  <1>5. dec \in Nat /\ arr \in Nat /\ rd \in Nat /\ p \in Nat /\ n \in Nat /\ m \in Nat /\ m <= Frames
    BY <1>3, <1>4
  <1>6. Len(out) = 2 * n /\ At(n)
    BY <1>4
  <1>7. CASE fill = <<>>
    <2>1. Append(fill, rd + 1) = <<rd + 1>> /\ Len(<<rd + 1>>) < 2
      BY <1>7
    <2>2. UNCHANGED <<codec, arr, closed, out, status>>
      BY <2>1 DEF Collect
    <2> QED
      BY <2>2, PipeStutters
  <1>8. CASE fill # <<>>
    <2>1. fill = <<2 * dec + 1>> /\ rd = 2 * dec + 1 /\ 2 * dec + 1 \in 1 .. rd /\ rd + 1 = 2 * dec + 2
      BY <1>4, <1>8
    <2>2. PICK b : b = <<2 * dec + 1, 2 * dec + 2>> /\ Completes(b)
      BY <2>1, CollectLast DEF StreamInv
    <2>3. 2 * dec + 2 <= arr /\ 2 * dec + 2 <= 2 * WireLen(codec)
      BY <1>1, <1>2, <1>5, <2>1
    <2>4. Leads(Advance(b), b, n)
      BY <1>2, <1>4, <2>2, <2>3, KeepingLeads
    <2>5. status' = Advance(b).status /\ out' = out \o Advance(b).out
      BY <2>2 DEF Completes
    <2>6. /\ UNCHANGED <<Len(Payload), codec \in {"vmess", "legacy"}, PipeArrived, PipeEnded>>
          /\ PipeDelivered = 2 * n /\ PipeDelivered' = Len(out')
          /\ PipeStatus = "open" /\ PipeStatus' = status'
      BY <1>1, <1>4, PipeRead
    <2>7. PipeArrived = 2 * m /\ Len(Payload) = 2 * Frames
      BY <1>4, PipeShows
    <2>8. CASE Advance(b).status = "open" /\ Advance(b).out = <<>>
      <3>1. UNCHANGED <<codec, arr, closed, out, status>>
        BY <1>1, <1>2, <2>5, <2>8
      <3> QED
        BY <3>1, PipeStutters
    <2>9. CASE /\ Advance(b).status = "open" /\ Advance(b).out = b
               /\ n < Frames /\ dec + 1 = RecordEnd(codec, n + 1)
      <3>1. n + 1 \in 1 .. Frames /\ RecordEnd(codec, n + 1) = p + 2 * (n + 1)
        BY <1>3, <1>4, <2>9
      <3>2. 2 * (p + 2 * (n + 1)) = 2 * dec + 2
        BY <1>5, <2>9, <3>1
      <3>3. n + 1 <= m
        BY <1>4, <2>3, <3>1, <3>2
      <3>4. Len(out') = 2 * n + 2
        <4>1. PICK x, y \in Nat : b = <<x, y>>
          BY <1>5, <2>2
        <4>2. Len(out \o <<x, y>>) = Len(out) + 2
          BY <1>2, AppendTwo
        <4> QED
          BY <1>4, <2>5, <2>9, <4>1, <4>2
      <3>5. 2 * n + 2 \in 2 * n + 1 .. 2 * m
        BY <1>3, <3>3
      <3>6. Pipe!Deliver
        BY <2>5, <2>6, <2>7, <2>9, <3>4, <3>5 DEF Pipe!Deliver
      <3> QED
        BY <3>6 DEF Pipe!Next
    <2>10. CASE Advance(b).status = "eof" /\ Advance(b).out = <<>> /\ n = Frames
      <3>1. out' = out
        BY <1>2, <2>5, <2>10
      <3>2. m = Frames
        <4>1. RecordEnd(codec, Frames) = p + 2 * Frames /\ RecordEnd(codec, n) = p + 2 * Frames
          BY <1>3, <1>4, <2>10
        <4>2. p + 2 * Frames <= dec
          BY <1>3, <1>5, <1>6, <2>10, <4>1 DEF At
        <4>3. 2 * (p + 2 * Frames) <= arr /\ Frames \in 1 .. Frames
          BY <1>3, <1>4, <2>3, <4>2
        <4>4. Frames <= m
          BY <1>4, <4>3
        <4> QED
          BY <1>3, <4>4
      <3>3. Pipe!End
        BY <1>4, <2>5, <2>6, <2>7, <2>10, <3>1, <3>2 DEF Pipe!End
      <3> QED
        BY <3>3 DEF Pipe!Next
    <2>11. ~ (n > Limit)
      BY <1>3
    <2> QED
      BY <2>4, <2>8, <2>9, <2>10, <2>11 DEF Leads
  <1> QED
    BY <1>7, <1>8

\* The socket has run dry: everything whole has been handed on, and VMess
\* knows whether that was between two records.
LEMMA PipeEnds ==
  ASSUME StreamInv, StreamInv', EndOfStream, codec \in Keeping
  PROVE  Pipe!Next
  <1>1. status = "open" /\ rd = arr /\ closed /\ UNCHANGED <<codec, arr, closed, out>>
    BY DEF EndOfStream
  <1>2. Frames \in Nat \ {0}
    BY FramedAssumption
  <1>3. PICK p \in 0 .. 2, n \in 0 .. Frames, m \in 0 .. Frames :
           /\ p = Len(Prologue(codec)) /\ \A f \in Int : RecordEnd(codec, f) = p + 2 * f
           /\ Len(out) = 2 * n /\ At(n)
           /\ WholeRecords = 2 * m /\ \A f \in 1 .. Frames : 2 * (p + 2 * f) <= arr <=> f <= m
           /\ dec \in Nat /\ arr \in Nat /\ rd \in Nat /\ rd <= arr
           /\ \/ fill = <<>> /\ rd = 2 * dec
              \/ fill = <<2 * dec + 1>> /\ rd = 2 * dec + 1
           /\ n = 0 => first
    BY <1>1, ReaderStands
  <1>4. dec \in Nat /\ arr \in Nat /\ p \in Nat /\ n \in Nat /\ m \in Nat /\ n <= Frames /\ m <= Frames
    BY <1>2, <1>3
  <1>5. RecordEnd(codec, n) = p + 2 * n
    BY <1>3, <1>4
  <1>6. \/ n = 0 /\ dec < p /\ stage = PrologueStage(codec, dec)
        \/ dec = p + 2 * n /\ stage = "len"
        \/ dec = p + 2 * n + 1 /\ stage = "pay"
    <2>1. At(n) /\ p = Len(Prologue(codec))
      BY <1>3
    <2> QED
      BY <1>4, <1>5, <2>1 DEF At
  <1>7. \/ fill = <<>> /\ arr = 2 * dec
        \/ fill # <<>> /\ arr = 2 * dec + 1
    <2>1. <<2 * dec + 1>> # <<>>
      OBVIOUS
    <2> QED
      BY <1>1, <1>3, <2>1, Zenon
  <1>8. m = n
    <2>1. \A f \in 1 .. Frames : 2 * (p + 2 * f) <= arr <=> f <= m
      BY <1>3
    <2>2. ASSUME n < m PROVE FALSE
      <3>1. n + 1 \in 1 .. Frames /\ n + 1 <= m
        BY <1>2, <1>4, <2>2
      <3>2. 2 * (p + 2 * (n + 1)) <= arr
        BY <2>1, <3>1
      <3> QED
        BY <1>4, <1>6, <1>7, <3>2
    <2>3. ASSUME m < n PROVE FALSE
      <3>1. n \in 1 .. Frames /\ ~ (n <= m) /\ n # 0
        BY <1>2, <1>4, <2>3
      <3>2. ~ (2 * (p + 2 * n) <= arr)
        BY <2>1, <3>1
      <3> QED
        BY <1>4, <1>6, <1>7, <3>1, <3>2
    <2> QED
      BY <1>4, <2>2, <2>3
  <1>9. /\ UNCHANGED <<Len(Payload), codec \in {"vmess", "legacy"}, PipeArrived, PipeEnded, PipeDelivered>>
        /\ PipeDelivered = PipeArrived /\ PipeStatus = "open" /\ PipeStatus' = status'
    <2>1. PipeArrived = 2 * n /\ Len(out) = 2 * n
      BY <1>3, <1>8, PipeShows
    <2> QED
      BY <1>1, <2>1, PipeRead
  <1>10. PipeEnded = IF AtBoundary THEN "between" ELSE "inside"
    BY <1>1, PipeShows
  <1>11. CASE codec \notin {"vmess", "legacy"}
    <2>1. status' = "eof"
      BY <1>11 DEF EndOfStream, Keeping, SsrEnd, ShadowTlsEnd, WebSocketEnd
    <2>2. Pipe!End
      BY <1>9, <1>10, <1>11, <2>1 DEF Pipe!End
    <2> QED
      BY <2>2 DEF Pipe!Next
  <1>12. CASE codec \in {"vmess", "legacy"}
    <2>1. status' = VmessEnd
      BY <1>12 DEF EndOfStream
    <2>2. CASE stage = "len" /\ fill = <<>>
      <3>1. ~ (dec < p /\ stage = PrologueStage(codec, dec))
        <4>1. ASSUME dec < p PROVE PrologueStage(codec, dec) # "len"
          <5>1. p = Len(Prologue(codec)) /\ dec + 1 \in 1 .. p
            BY <1>3, <1>4, <4>1
          <5>2. \A i \in 1 .. Len(Prologue(codec)) : Prologue(codec)[i] # "len"
            BY <1>12 DEF Prologue
          <5> QED
            BY <1>12, <5>1, <5>2 DEF PrologueStage
        <4> QED
          BY <2>2, <4>1
      <3>2. arr = 2 * RecordEnd(codec, n)
        BY <1>4, <1>5, <1>6, <1>7, <2>2, <3>1
      <3>3. n \in 0 .. Records(codec)
        BY <1>4, PairLayout
      <3>4. AtBoundary
        BY <3>2, <3>3 DEF AtBoundary
      <3>5. status' = "eof"
        BY <2>1, <2>2 DEF VmessEnd
      <3>6. Pipe!End
        BY <1>9, <1>10, <3>4, <3>5 DEF Pipe!End
      <3> QED
        BY <3>6 DEF Pipe!Next
    <2>3. CASE ~ (stage = "len" /\ fill = <<>>)
      <3>1. ASSUME NEW f \in Nat, arr = 2 * (p + 2 * f) PROVE FALSE
        BY <1>4, <1>6, <1>7, <2>3, <3>1
      <3>2. ~ AtBoundary
        <4>1. ASSUME AtBoundary PROVE \E f \in Nat : arr = 2 * (p + 2 * f)
          <5>1. Records(codec) = Frames /\ WireLen(codec) = p + 2 * Frames + 2
            BY <1>3, <1>12, PairLayout
          <5>2. CASE arr = 2 * WireLen(codec)
            <6>1. Frames + 1 \in Nat /\ arr = 2 * (p + 2 * (Frames + 1))
              BY <1>2, <1>4, <5>1, <5>2
            <6> QED
              BY <6>1
          <5>3. CASE \E f \in 0 .. Records(codec) : arr = 2 * RecordEnd(codec, f)
            <6>1. PICK f \in 0 .. Frames : arr = 2 * RecordEnd(codec, f)
              BY <5>1, <5>3
            <6>2. f \in Nat /\ RecordEnd(codec, f) = p + 2 * f
              BY <1>2, <1>3
            <6> QED
              BY <6>1, <6>2
          <5> QED
            BY <4>1, <5>2, <5>3 DEF AtBoundary
        <4> QED
          BY <3>1, <4>1
      <3>3. status' = "error"
        BY <2>1, <2>3 DEF VmessEnd
      <3>4. Pipe!Fail
        BY <1>9, <1>10, <1>12, <3>2, <3>3 DEF Pipe!Fail
      <3> QED
        BY <3>4 DEF Pipe!Next
    <2> QED
      BY <2>2, <2>3
  <1> QED
    BY <1>11, <1>12

LEMMA PipeStarts == Init => Pipe!Init
  <1> SUFFICES ASSUME Init PROVE Pipe!Init
    OBVIOUS
  <1>1. StreamInv
    BY StreamStarts
  <1>2. codec \in Codecs /\ arr = 0 /\ ~ closed /\ out = <<>> /\ status = "open" /\ Frames \in Nat \ {0}
    BY FramedAssumption DEF Init
  <1>3. PipeDelivered = 0 /\ PipeStatus = "open" /\ PipeEnded = "no" /\ Len(Payload) \in Nat
    BY <1>1, <1>2, PipeShows
  <1>4. PipeArrived = 0
    <2>1. CASE codec \notin Keeping
      BY <1>1, <2>1, PipeShows
    <2>2. CASE codec \in Keeping
      <3>1. PICK m \in 0 .. Frames :
              /\ WholeRecords = 2 * m /\ \A f \in 1 .. Frames : 2 * RecordEnd(codec, f) <= arr <=> f <= m
        <4>1. arr \in Nat
          BY <1>1 DEF StreamInv, Shapes
        <4> QED
          BY <2>2, <4>1, WholeIs DEF WholeRecords
      <3>2. ASSUME m # 0 PROVE FALSE
        <4>1. m \in 1 .. Frames /\ m <= m
          BY <1>2, <3>2
        <4>2. 2 * RecordEnd(codec, m) <= arr
          BY <3>1, <4>1
        <4>3. PICK p \in 0 .. 2 : \A f \in Int : RecordEnd(codec, f) = p + 2 * f
          BY <2>2, RecordEnds DEF Keeping
        <4>4. RecordEnd(codec, m) = p + 2 * m
          BY <4>1, <4>3
        <4> QED
          BY <1>2, <4>1, <4>2, <4>4
      <3> QED
        BY <1>1, <2>2, <3>1, <3>2, PipeShows
    <2> QED
      BY <2>1, <2>2
  <1> QED
    BY <1>3, <1>4 DEF Pipe!Init

LEMMA PipeNext ==
  ASSUME StreamInv, StreamInv', [Next]_vars, Frames <= Limit
  PROVE  [Pipe!Next]_(Pipe!vars)
  <1>1. CASE UNCHANGED vars
    BY <1>1, PipeStutters DEF vars, down
  <1>2. CASE codec \notin Keeping
    <2>1. codec' = codec
      BY DEF vars, Next, Arrive, PeerCloses, Collect, PassThrough, Idle, EndOfStream, Write, Shutdown
    <2> QED
      BY <1>2, <2>1, PipeIdle
  <1>3. CASE codec \in Keeping /\ Next
    <2>1. CASE Arrive
      BY <1>3, <2>1, PipeArrives DEF Pipe!Next
    <2>2. CASE PeerCloses
      BY <1>3, <2>2, PipeCloses DEF Pipe!Next
    <2>3. CASE Collect
      BY <1>3, <2>3, PipeCollects
    <2>4. CASE PassThrough
      BY <1>3, <2>4 DEF PassThrough, PassesThrough, Keeping
    <2>5. CASE Idle
      <3>1. UNCHANGED <<codec, arr, closed, out, status>>
        BY <1>3, <2>5 DEF Idle, KeepsProgress, Keeping
      <3> QED
        BY <3>1, PipeStutters
    <2>6. CASE EndOfStream
      BY <1>3, <2>6, PipeEnds
    <2>7. CASE (\E n \in 1 .. Chunks : Write(n)) \/ Shutdown
      <3>1. UNCHANGED <<codec, arr, closed, out, status>>
        BY <2>7 DEF Write, Shutdown, down
      <3> QED
        BY <3>1, PipeStutters
    <2> QED
      BY <1>3, <2>1, <2>2, <2>3, <2>4, <2>5, <2>6, <2>7 DEF Next
  <1> QED
    BY <1>1, <1>2, <1>3

\* As long as the records of the peer and its end mark fit the chunk counter,
\* the codecs that keep their place (vmess.rs, ssr.rs, shadowtls.rs, ws.rs)
\* implement RecordStream: they deliver what arrived, once and in order,
\* whatever the polls interrupt, end only with all of it delivered, and fail
\* only on a record left unfinished.  Past the counter VMess refuses to read.
THEOREM KeepingCodecsImplementRecordStream ==
  ASSUME Frames <= Limit
  PROVE  Spec => ImplementsRecordStream
  <1>1. StreamInv /\ StreamInv' /\ [Next]_vars => [Pipe!Next]_(Pipe!vars)
    BY PipeNext
  <1> QED
    BY <1>1, PipeStarts, StreamInvariant, PTL DEF Spec, ImplementsRecordStream, Pipe!Spec
============================================================================
