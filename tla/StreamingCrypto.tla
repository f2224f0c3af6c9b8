-------------------------- MODULE StreamingCrypto --------------------------
(***************************************************************************)
(* The incremental interface of the hash functions, authenticators and     *)
(* stream ciphers: a message arrives in pieces of any size, is cut into    *)
(* blocks across the calls, and is padded at the end.                      *)
(* (src/crypto/hash, src/crypto/mac, src/crypto/stream, src/crypto/aead)   *)
(*                                                                         *)
(* Compression functions and ciphers are free constructors: what is kept   *)
(* is which blocks they are given, in which order and with which counter   *)
(* and flag.  The standard's padding of the whole message is the           *)
(* reference.  Message byte i is the number i, 0 is the zero byte.         *)
(***************************************************************************)
EXTENDS Integers, Sequences, FiniteSets, FiniteSetsExt, SequencesExt

CONSTANTS Hashes, Ciphers,  \* the algorithms of a run
          B,                \* bytes of a block
          LenBytes,         \* bytes of the length field
          ChunkBlocks,      \* BLAKE3: blocks of a chunk
          W,                \* values of a counter word
          MaxLen            \* bound on the message

VARIABLES alg,    \* the algorithm
          keyed,  \* whether it was given a key
          fed,    \* bytes fed so far
          st,     \* the hasher or cipher
          done

vars == <<alg, keyed, fed, st, done>>

SizesAssumption == B > LenBytes /\ LenBytes > 0 /\ ChunkBlocks > 0 /\ W > 1

----------------------------------------------------------------------------
(* Bytes and blocks                                                        *)

Marker == 1000     \* 0x80, or the domain byte of SHA-3
EndMark == 2000    \* the closing 0x80 of SHA-3
KeyByte == 3000
LenField(n) == [i \in 1 .. LenBytes |-> 4000 + n]
Xor(a, b) == IF a = 0 THEN b ELSE IF b = 0 THEN a ELSE a * 10000 + b
Zeros(n) == [i \in 1 .. n |-> 0]
Bytes(from, k) == [i \in 1 .. k |-> from + i]
Put(buf, at, d) == [i \in DOMAIN buf |-> IF i > at /\ i <= at + Len(d) THEN d[i - at] ELSE buf[i]]
Block(s, i) == SubSeq(s, (i - 1) * B + 1, i * B)
Blocks(s) == [i \in 1 .. Len(s) \div B |-> Block(s, i)]
Step(block, last, t) == [block |-> block, last |-> last, t |-> t]

----------------------------------------------------------------------------
(* The block buffer shared by MD5, SHA-1, SHA-2, SHA-3, BLAKE2, Poly1305   *)
(* and GHASH                                                               *)

New == [buf |-> Zeros(B), len |-> 0, total |-> 0, t |-> 0, aad |-> 0, log |-> << >>,
        chunk |-> << >>, counter |-> 0, stack |-> << >>]
\* A keyed BLAKE2 starts with the padded key as a full buffer; HMAC has
\* already been fed the block of the padded key.
Start(a, k) ==
  CASE a = "blake2" /\ k -> [New EXCEPT !.buf = [i \in 1 .. B |-> KeyByte], !.len = B]
    [] a = "hmac" -> [New EXCEPT !.log = <<Step([i \in 1 .. B |-> KeyByte], FALSE, 0)>>, !.total = B]
    [] OTHER -> New

Counts(a) == a = "blake2"
Compress(s, block, last) ==
  LET t == IF Counts(alg) /\ ~last THEN s.t + B ELSE s.t
  IN [s EXCEPT !.log = Append(@, Step(block, last, t)), !.t = t]
CompressAll(s, data) ==
  FoldLeft(LAMBDA acc, block : Compress(acc, block, FALSE), s, Blocks(data))

\* update: fill the buffer and compress it when it is full, compress whole
\* blocks straight from the input, keep the rest at the start of the buffer.
UpdateBuffered(s, data) ==
  LET take == IF s.len = 0 THEN 0 ELSE Min({B - s.len, Len(data)})
      filled == [s EXCEPT !.buf = Put(@, s.len, SubSeq(data, 1, take)), !.len = @ + take]
      s1 == IF filled.len = B THEN [Compress(filled, filled.buf, FALSE) EXCEPT !.len = 0] ELSE filled
      rest == SubSeq(data, take + 1, Len(data))
      whole == (Len(rest) \div B) * B
      tail == SubSeq(rest, whole + 1, Len(rest))
      s2 == CompressAll(s1, rest)
  IN [s2 EXCEPT !.buf = Put(@, 0, tail), !.len = IF tail = << >> THEN @ ELSE Len(tail),
                !.total = @ + Len(data)]

\* Fault: the length is taken to fit always.
FinalizeOneBlock(s) ==
  Compress(s, Put(Put([i \in 1 .. B |-> IF i <= s.len THEN s.buf[i] ELSE 0], s.len, <<Marker>>),
                  B - LenBytes, LenField(s.total)), FALSE)
\* SHA-1, SHA-2: one block when the length still fits, two otherwise.
FinalizeSha(s) ==
  LET clean == [i \in 1 .. B |-> IF i <= s.len THEN s.buf[i] ELSE 0]
      marked == Put(clean, s.len, <<Marker>>)
  IN IF s.len < B - LenBytes
     THEN Compress(s, Put(marked, B - LenBytes, LenField(s.total)), FALSE)
     ELSE Compress(Compress(s, marked, FALSE),
                   Put(Zeros(B), B - LenBytes, LenField(s.total)), FALSE)
Sha512Finalize(s) == FinalizeSha(s)
Sha1Finalize(s) == FinalizeSha(s)
\* MD5: byte after byte through the buffer.
AbsorbByte(s, byte) ==
  LET put == [s EXCEPT !.buf = Put(@, s.len, <<byte>>), !.len = @ + 1]
  IN IF put.len = B THEN [Compress(put, put.buf, FALSE) EXCEPT !.len = 0] ELSE put
FinalizeMd5(s) ==
  LET zeros == (B - LenBytes - (s.len + 1)) % B
  IN FoldLeft(AbsorbByte, s, <<Marker>> \o Zeros(zeros) \o LenField(s.total))
\* SHA-3: the domain byte and the closing bit are xored into the buffer.
FinalizeSha3(s) ==
  LET domain == Put(s.buf, s.len, <<Xor(s.buf[s.len + 1], Marker)>>)
      zeroed == [i \in 1 .. B |-> IF i > s.len + 1 /\ i < B THEN 0 ELSE domain[i]]
  IN Compress(s, Put(zeroed, B - 1, <<Xor(zeroed[B], EndMark)>>), FALSE)
\* BLAKE2: what is buffered, padded with zeros, is the last block.
FinalizeBlake2(s) ==
  Compress([s EXCEPT !.t = @ + s.len],
           [i \in 1 .. B |-> IF i <= s.len THEN s.buf[i] ELSE 0], TRUE)
\* Poly1305: a partial block carries its closing one inside.
FinalizePoly(s) ==
  IF s.len = 0 THEN s
  ELSE Compress(s, Put([i \in 1 .. B |-> IF i <= s.len THEN s.buf[i] ELSE 0], s.len, <<Marker>>), TRUE)
\* GHASH: what is buffered is padded with zeros, the lengths follow.
PadToBlock(s) ==
  IF s.len = 0 THEN s
  ELSE [Compress(s, [i \in 1 .. B |-> IF i <= s.len THEN s.buf[i] ELSE 0], FALSE)
           EXCEPT !.len = 0, !.buf = Zeros(B)]
FinalizeGhash(s) == Compress(PadToBlock(s), <<s.aad, s.total - s.aad>>, FALSE)

\* The copies of update: each hash and authenticator has its own.
Sha1Update(s, data) == UpdateBuffered(s, data)
Sha512Update(s, data) == UpdateBuffered(s, data)
Md5Update(s, data) == UpdateBuffered(s, data)
Sha3Update(s, data) == UpdateBuffered(s, data)
Blake2Update(s, data) == UpdateBuffered(s, data)
PolyUpdate(s, data) == UpdateBuffered(s, data)
GhashPush(s, data) == UpdateBuffered(s, data)

----------------------------------------------------------------------------
(* BLAKE3: chunks of blocks, and a stack of subtrees                       *)

Leaf(counter, blocks) == <<"leaf", counter, blocks>>
Node(l, r) == <<"node", l, r>>
ChunkLen == ChunkBlocks * B
ChunkSize(s) == Len(s.chunk) * B + s.len
\* ChunkState::update: a full block is compressed when more input follows.
RECURSIVE ChunkUpdate(_, _)
ChunkUpdate(s, data) ==
  IF data = << >> THEN s
  ELSE LET s1 == IF s.len = B
                 THEN [s EXCEPT !.chunk = Append(@, s.buf), !.buf = Zeros(B), !.len = 0] ELSE s
           take == Min({B - s1.len, Len(data)})
       IN ChunkUpdate([s1 EXCEPT !.buf = Put(@, s1.len, SubSeq(data, 1, take)), !.len = @ + take],
                      SubSeq(data, take + 1, Len(data)))
ChunkOutput(s) == Leaf(s.counter, Append(s.chunk, SubSeq(s.buf, 1, s.len)))
\* Fault: subtrees are merged once.
AddChunkOnce(stack, cv, total) ==
  IF total % 2 = 0 THEN Append(Front(stack), Node(Last(stack), cv)) ELSE Append(stack, cv)
\* add_chunk_chaining_value: subtrees are merged as the chunk count's low
\* bits allow.
RECURSIVE AddChunk(_, _, _)
AddChunk(stack, cv, total) ==
  IF total % 2 = 0 THEN AddChunk(Front(stack), Node(Last(stack), cv), total \div 2)
  ELSE Append(stack, cv)
RECURSIVE UpdateBlake3(_, _)
UpdateBlake3(s, data) ==
  IF data = << >> THEN s
  ELSE LET s1 == IF ChunkSize(s) = ChunkLen
                 THEN [s EXCEPT !.stack = AddChunk(@, ChunkOutput(s), s.counter + 1),
                                !.counter = @ + 1, !.chunk = << >>, !.buf = Zeros(B), !.len = 0]
                 ELSE s
           take == Min({ChunkLen - ChunkSize(s1), Len(data)})
       IN UpdateBlake3([ChunkUpdate(s1, SubSeq(data, 1, take)) EXCEPT !.total = @ + take],
                       SubSeq(data, take + 1, Len(data)))
FinalizeBlake3(s) == [s EXCEPT !.log = <<FoldRight(Node, s.stack, ChunkOutput(s))>>]

----------------------------------------------------------------------------
(* Stream ciphers                                                          *)

\* Counter words: the original ChaCha20, Salsa20 and CTR carry into the next
\* word; the IETF one has a single word and stops at its end.
NextCounter(c) ==
  IF alg = "ietf" THEN (IF c = W - 1 THEN c ELSE c + 1) ELSE (c + 1) % (W * W)
NewCipher(c) == [counter |-> c, left |-> 0, block |-> c, exhausted |-> FALSE, used |-> << >>]
\* next_block
NextBlock(s) == [s EXCEPT !.block = s.counter, !.left = B, !.counter = NextCounter(s.counter),
                          !.exhausted = @ \/ (alg = "ietf" /\ s.counter = W - 1)]
UseByte(s) == [s EXCEPT !.used = Append(@, <<s.block, B - s.left>>), !.left = @ - 1]
\* Fault: a call starts at a fresh block.
ApplyFreshBlock(s, k) ==
  FoldLeft(LAMBDA acc, i : UseByte(IF acc.left = 0 \/ i = 1 THEN NextBlock(acc) ELSE acc), s, Bytes(0, k))
\* apply_keystream: the tail of a block is kept for the next call.
ApplyKeystream(s, k) ==
  FoldLeft(LAMBDA acc, i : UseByte(IF acc.left = 0 THEN NextBlock(acc) ELSE acc), s, Bytes(0, k))

----------------------------------------------------------------------------
Init ==
  /\ alg \in Hashes \cup Ciphers
  /\ keyed \in IF alg \in {"blake2"} THEN BOOLEAN ELSE {FALSE}
  /\ fed = 0
  /\ done = FALSE
  /\ \/ alg \in Hashes /\ st = Start(alg, keyed)
     \/ alg \in Ciphers /\ \E c \in 0 .. W - 1 : st = NewCipher(c)

Update == /\ ~done /\ alg \in Hashes
          /\ \E k \in 0 .. MaxLen - fed :
               /\ fed' = fed + k
               /\ st' = LET data == Bytes(fed, k)
                        IN CASE alg = "blake3" -> UpdateBlake3(st, data)
                             [] alg = "sha1" -> Sha1Update(st, data)
                             [] alg = "sha512" -> Sha512Update(st, data)
                             [] alg = "md5" -> Md5Update(st, data)
                             [] alg = "sha3" -> Sha3Update(st, data)
                             [] alg = "blake2" -> Blake2Update(st, data)
                             [] alg = "poly1305" -> PolyUpdate(st, data)
                             [] alg = "ghash" -> GhashPush(st, data)
                             [] alg \in {"sha256", "hmac"} -> UpdateBuffered(st, data)
          /\ UNCHANGED <<alg, keyed, done>>
\* pad_to_block between the associated data and the ciphertext.
EndAad == /\ ~done /\ alg = "ghash" /\ st.aad = 0 /\ st.total > 0
          /\ st' = [PadToBlock(st) EXCEPT !.aad = st.total]
          /\ UNCHANGED <<alg, keyed, fed, done>>
Finalize ==
  /\ ~done /\ alg \in Hashes
  /\ done' = TRUE
  /\ st' = CASE alg \in {"sha256", "hmac"} -> FinalizeSha(st)
             [] alg = "sha512" -> Sha512Finalize(st)
             [] alg = "sha1" -> Sha1Finalize(st)
             [] alg = "md5" -> FinalizeMd5(st)
             [] alg = "sha3" -> FinalizeSha3(st)
             [] alg = "blake2" -> FinalizeBlake2(st)
             [] alg = "poly1305" -> FinalizePoly(st)
             [] alg = "ghash" -> FinalizeGhash(st)
             [] alg = "blake3" -> FinalizeBlake3(st)
  /\ UNCHANGED <<alg, keyed, fed>>
\* The SSR stream asks is_exhausted before each write.
Apply == /\ alg \in Ciphers
         /\ ~st.exhausted
         /\ \E k \in 0 .. MaxLen - fed : fed' = fed + k /\ st' = ApplyKeystream(st, k)
         /\ UNCHANGED <<alg, keyed, done>>

Next == Update \/ EndAad \/ Finalize \/ Apply
Spec == Init /\ [][Next]_vars

----------------------------------------------------------------------------
(* The standards                                                           *)

Msg(n) == Bytes(0, n)
PadZeros(s) == s \o Zeros((B - (Len(s) % B)) % B)
Plain(bs) == [i \in DOMAIN bs |-> Step(bs[i], FALSE, 0)]
KeyBlock == [i \in 1 .. B |-> KeyByte]
MdPadded(m) == LET z == (B - ((Len(m) + 1 + LenBytes) % B)) % B
               IN m \o <<Marker>> \o Zeros(z) \o LenField(Len(m))
Sha3Padded(m) == LET room == B - (Len(m) % B)
                 IN IF room = 1 THEN Append(m, Xor(Marker, EndMark))
                    ELSE m \o <<Marker>> \o Zeros(room - 2) \o <<EndMark>>
\* RFC 7693: every block but the last is compressed without the final flag;
\* an empty message has one block, of zeros.
Blake2Blocks(m) ==
  LET padded == IF m = << >> THEN Zeros(B) ELSE PadZeros(m)
      n == Len(padded) \div B
  IN [i \in 1 .. n |-> Step(Block(padded, i), i = n, IF i = n THEN Len(m) ELSE i * B)]
PolyBlocks(m) ==
  LET whole == Len(m) \div B
      rest == SubSeq(m, whole * B + 1, Len(m))
  IN Plain(Blocks(m)) \o (IF rest = << >> THEN << >>
                          ELSE <<Step(PadZeros(Append(rest, Marker)), TRUE, 0)>>)
GhashBlocks(m, aad) ==
  Plain(Blocks(PadZeros(SubSeq(m, 1, aad))) \o Blocks(PadZeros(SubSeq(m, aad + 1, Len(m)))))
    \o <<Step(<<aad, Len(m) - aad>>, FALSE, 0)>>
\* BLAKE3: the left subtree is the largest full one that leaves a chunk over.
ChunkOf(m, c) ==
  LET bytes == SubSeq(m, c * ChunkLen + 1, Min({Len(m), (c + 1) * ChunkLen}))
      n == Max({1, (Len(bytes) + B - 1) \div B})
  IN Leaf(c, [i \in 1 .. n |-> SubSeq(bytes, (i - 1) * B + 1, Min({Len(bytes), i * B}))])
RECURSIVE Tree(_, _, _)
Tree(m, from, n) ==
  IF n = 1 THEN ChunkOf(m, from)
  ELSE LET left == CHOOSE p \in {1, 2, 4, 8, 16} : p < n /\ 2 * p >= n
       IN Node(Tree(m, from, left), Tree(m, from + left, n - left))
Standard(m) ==
  CASE alg \in {"sha1", "sha256", "sha512", "md5"} -> Plain(Blocks(MdPadded(m)))
    [] alg = "hmac" -> Plain(Blocks(MdPadded(KeyBlock \o m)))
    [] alg = "sha3" -> Plain(Blocks(Sha3Padded(m)))
    [] alg = "blake2" -> Blake2Blocks(IF keyed THEN KeyBlock \o m ELSE m)
    [] alg = "poly1305" -> PolyBlocks(m)
    [] alg = "ghash" -> GhashBlocks(m, st.aad)
    [] alg = "blake3" -> <<Tree(m, 0, Max({1, (Len(m) + ChunkLen - 1) \div ChunkLen}))>>

----------------------------------------------------------------------------
(* Properties                                                              *)

\* However a message is cut into calls, the blocks that are compressed are
\* the ones the standard prescribes for the whole message.
DigestIsStandard == done => st.log = Standard(Msg(fed))

\* A stream cipher never falls out of step with its peer: byte n of the
\* stream uses byte n of the keystream, whatever the calls' sizes and across
\* a carry between the counter's words.
KeystreamInStep ==
  alg \in Ciphers =>
    \A i \in DOMAIN st.used :
      st.used[i] = <<(st.used[1][1] + (i - 1) \div B) % (W * W), (i - 1) % B>>
============================================================================
