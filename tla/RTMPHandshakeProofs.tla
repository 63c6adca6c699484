------------------------ MODULE RTMPHandshakeProofs ------------------------
(***************************************************************************)
(* What is proved of the RTMP handshake.                                   *)
(*                                                                         *)
(* All that a side ever sends is one stream of bytes: its request or       *)
(* answer, its reply, its chunks.  Run says which of them a sequence holds *)
(* and whether as they are written or as they are meant; Flow, that what   *)
(* the sender has buffered, what is on its way and what the receiver has   *)
(* buffered are the bytes from the place the receiver has come to, none    *)
(* missing, up to what the sender has produced, and that the cursors of    *)
(* the keystreams are at those places.  The counts alone then give the     *)
(* order of the handshake: who is done when, and what is thrown away.      *)
(***************************************************************************)
EXTENDS RTMPHandshake, FiniteSetTheorems, TLAPS

\* For each of the sums and both schemes, the key and the digest GetDHOffset and
\* GetDigestOffset place in a part are within it and apart from each other and
\* from the bytes that give their places.
THEOREM PlacesApart == OffsetsApart
<1> DEFINE dh == DHSource(UsedScheme)
           dg == DigestSource(UsedScheme)
<1>1. ASSUME NEW a \in Sums, NEW b \in Sums
      PROVE  LET key == DHOffset(a, UsedScheme)
                 digest == DigestOffset(b, UsedScheme)
             IN  /\ 8 <= key /\ key + 128 < 1536
                 /\ 8 <= digest /\ digest + 32 < 1536
                 /\ Apart(key, 128, digest, 32)
                 /\ Apart(key, 128, dh, 4) /\ Apart(key, 128, dg, 4)
                 /\ Apart(digest, 32, dh, 4) /\ Apart(digest, 32, dg, 4)
  <2> DEFINE i == a % 632
             j == b % 728
             key == DHOffset(a, UsedScheme)
             digest == DigestOffset(b, UsedScheme)
  <2>1. i \in 0..631 /\ j \in 0..727
    BY DEF Sums
  <2>2. CASE conf.encrypted
    <3>1. key = i + 8 /\ dh = 768 /\ digest = j + 776 /\ dg = 772
      BY <2>2 DEF DHOffset, DigestOffset, DHSource, DigestSource, UsedScheme
    <3> HIDE DEF i, j, key, digest, dh, dg
    <3> QED
      BY <2>1, <3>1 DEF Apart, key, digest
  <2>3. CASE ~conf.encrypted
    <3>1. key = i + 772 /\ dh = 1532 /\ digest = j + 12 /\ dg = 8
      BY <2>3 DEF DHOffset, DigestOffset, DHSource, DigestSource, UsedScheme
    <3> HIDE DEF i, j, key, digest, dh, dg
    <3> QED
      BY <2>1, <3>1 DEF Apart, key, digest
  <2> QED
    BY <2>2, <2>3
<1>2. 0 \in Sums
  BY DEF Sums
<1> QED
  BY <1>1, <1>2 DEF OffsetsApart

-----------------------------------------------------------------------------
(* What each side sends, byte by byte: the byte at place m of all that s   *)
(* ever sends, as it is written as a wire or as it is meant.                *)

Parts == {"3", "6", "C1", "C1 with digest", "S1", "S1 with digest", "S2", "C2",
          "client", "server"}
Bytes == [part : Parts, n : Int, mask : SUBSET Int]
Byte(part, n, mask) == [part |-> part, n |-> n, mask |-> mask]

FirstPart(s) == IF s = "client" THEN (IF conf.digest THEN "C1 with digest" ELSE "C1")
                ELSE (IF conf.digest THEN "S1 with digest" ELSE "S1")
SecondPart(s) == IF s = "client" THEN "C2" ELSE "S2"

PartAt(s, m) == IF m > ResponseLen THEN s
                ELSE IF m > RequestLen THEN SecondPart(s)
                ELSE IF m > 1 THEN FirstPart(s) ELSE Type(conf.encrypted)
PlaceAt(m) == IF m > ResponseLen THEN m - ResponseLen
              ELSE IF m > RequestLen THEN m - RequestLen
              ELSE IF m > 1 THEN m - 1 ELSE 1
MaskAt(m) == IF conf.encrypted /\ m > ResponseLen THEN {Half + m - ResponseLen - 1} ELSE {}

Forms == {"clear", "wire"}
Other(form) == IF form = "clear" THEN "wire" ELSE "clear"

ByteAt(s, m, form) == Byte(PartAt(s, m), PlaceAt(m), IF form = "wire" THEN MaskAt(m) ELSE {})

Size(seq) == Len(seq)

\* seq is what s sends from place a + 1 on.
Run(s, seq, a, form) ==
  /\ seq \in Seq(Bytes)
  /\ \A i \in 1..Size(seq) : seq[i] = ByteAt(s, a + i, form)

LEMMA Sizes ==
    /\ Half \in Nat /\ Half > 0 /\ ChunkLen \in Nat /\ ChunkLen > 1
    /\ Chunks \in Nat /\ Chunks > 0
    /\ RequestLen = 1 + Half /\ ResponseLen = RequestLen + Half /\ ReplyLen = Half
    /\ RequestLen \in Nat /\ ResponseLen \in Nat
BY SizesAssumption DEF SizesAssumption, RequestLen, ResponseLen, ReplyLen

LEMMA ByteIs ==
    ASSUME NEW part, NEW n, NEW mask
    PROVE  /\ Byte(part, n, mask).part = part /\ Byte(part, n, mask).mask = mask
           /\ part \in Parts /\ n \in Int /\ mask \in SUBSET Int => Byte(part, n, mask) \in Bytes
BY DEF Byte, Bytes

LEMMA PlaceIs ==
    ASSUME NEW s, NEW m \in Int
    PROVE  /\ m > ResponseLen => PartAt(s, m) = s /\ PlaceAt(m) = m - ResponseLen
           /\ ~ (m > ResponseLen) /\ m > RequestLen =>
                PartAt(s, m) = SecondPart(s) /\ PlaceAt(m) = m - RequestLen
           /\ ~ (m > ResponseLen) /\ ~ (m > RequestLen) /\ m > 1 =>
                PartAt(s, m) = FirstPart(s) /\ PlaceAt(m) = m - 1
           /\ ~ (m > ResponseLen) /\ ~ (m > RequestLen) /\ ~ (m > 1) =>
                PartAt(s, m) = Type(conf.encrypted) /\ PlaceAt(m) = 1
BY DEF PartAt, PlaceAt

LEMMA RunPrefix ==
    ASSUME NEW s, NEW seq, NEW a \in Nat, NEW form, Run(s, seq, a, form),
           NEW k \in 0..Size(seq)
    PROVE  /\ Run(s, SubSeq(seq, 1, k), a, form) /\ Size(SubSeq(seq, 1, k)) = k
           /\ Run(s, Ignore(seq, k), a + k, form) /\ Size(Ignore(seq, k)) = Size(seq) - k
<1> USE DEF Size
<1>1. seq \in Seq(Bytes) /\ Size(seq) \in Nat
  BY DEF Run
<1>2. /\ SubSeq(seq, 1, k) \in Seq(Bytes) /\ Size(SubSeq(seq, 1, k)) = k
      /\ \A i \in 1..k : SubSeq(seq, 1, k)[i] = seq[i]
  BY <1>1
<1>3. /\ Ignore(seq, k) \in Seq(Bytes) /\ Size(Ignore(seq, k)) = Size(seq) - k
      /\ \A i \in 1..(Size(seq) - k) : Ignore(seq, k)[i] = seq[k + i]
  BY <1>1 DEF Ignore
<1>4. \A i \in 1..(Size(seq) - k) : k + i \in 1..Size(seq) /\ a + (k + i) = (a + k) + i
  BY <1>1
<1>5. \A i \in 1..(Size(seq) - k) : seq[k + i] = ByteAt(s, (a + k) + i, form)
  BY <1>1, <1>4 DEF Run
<1>6. \A i \in 1..k : seq[i] = ByteAt(s, a + i, form)
  BY <1>1 DEF Run
<1> QED BY <1>1, <1>2, <1>3, <1>5, <1>6 DEF Run

LEMMA RunJoin ==
    ASSUME NEW s, NEW u, NEW v, NEW a \in Nat, NEW form,
           Run(s, u, a, form), Run(s, v, a + Size(u), form)
    PROVE  Run(s, u \o v, a, form) /\ Size(u \o v) = Size(u) + Size(v)
<1> USE DEF Size
<1>1. /\ u \in Seq(Bytes) /\ v \in Seq(Bytes) /\ Size(u) \in Nat /\ Size(v) \in Nat
  BY DEF Run
<1>2. /\ u \o v \in Seq(Bytes) /\ Size(u \o v) = Size(u) + Size(v)
      /\ \A i \in 1..(Size(u) + Size(v)) :
           (u \o v)[i] = IF i <= Size(u) THEN u[i] ELSE v[i - Size(u)]
  BY <1>1
<1>3. ASSUME NEW i \in 1..(Size(u) + Size(v)) PROVE (u \o v)[i] = ByteAt(s, a + i, form)
  <2>1. CASE i <= Size(u)
    <3>1. i \in 1..Size(u)
      BY <1>1, <2>1
    <3> QED BY <1>2, <2>1, <3>1 DEF Run
  <2>2. CASE ~ (i <= Size(u))
    <3>1. i - Size(u) \in 1..Size(v) /\ (a + Size(u)) + (i - Size(u)) = a + i
      BY <1>1, <2>2
    <3>2. v[i - Size(u)] = ByteAt(s, (a + Size(u)) + (i - Size(u)), form)
      BY <3>1 DEF Run
    <3>3. (u \o v)[i] = v[i - Size(u)]
      BY <1>2, <2>2
    <3> QED BY <3>1, <3>2, <3>3
  <2> QED BY <2>1, <2>2
<1> QED BY <1>2, <1>3 DEF Run

LEMMA SizeEmpty == Size(<<>>) = 0
BY DEF Size

LEMMA RunEmpty ==
    ASSUME NEW s, NEW a, NEW form PROVE Run(s, <<>>, a, form) /\ Size(<<>>) = 0
BY DEF Run, Size

\* Where nothing is encrypted, and before RTMPE is inserted, what is written is
\* what is meant.
LEMMA RunPlain ==
    ASSUME NEW s, NEW seq, NEW a \in Nat, NEW form, NEW other,
           Run(s, seq, a, form), ~conf.encrypted \/ a + Size(seq) <= ResponseLen
    PROVE  Run(s, seq, a, other)
<1> USE DEF Size
<1>1. ASSUME NEW i \in 1..Size(seq) PROVE MaskAt(a + i) = {}
  <2>1. Size(seq) \in Nat
    BY DEF Run
  <2>2. ~conf.encrypted \/ ~ (a + i > ResponseLen)
    BY <2>1, Sizes
  <2> QED BY <2>2 DEF MaskAt
<1> QED BY <1>1 DEF Run, ByteAt

LEMMA RC4Type ==
    ASSUME NEW seq \in Seq(Bytes), NEW k \in Int, NEW skip \in Int
    PROVE  RC4(seq, k, skip) \in Seq(Bytes) /\ Size(RC4(seq, k, skip)) = Size(seq)
<1> USE DEF Size
<1> DEFINE B(i) == IF i <= skip THEN seq[i]
                   ELSE [seq[i] EXCEPT !.mask = (@ \cup {k + i - skip - 1})
                                                  \ (@ \cap {k + i - skip - 1})]
<1>1. ASSUME NEW b \in Bytes, NEW p \in Int
      PROVE  [b EXCEPT !.mask = (@ \cup {p}) \ (@ \cap {p})] \in Bytes
  BY <1>1 DEF Bytes
<1>2. ASSUME NEW i \in 1..Size(seq) PROVE B(i) \in Bytes
  <2>1. seq[i] \in Bytes /\ k + i - skip - 1 \in Int
    OBVIOUS
  <2> QED BY <1>1, <2>1
<1>3. RC4(seq, k, skip) = [i \in 1..Size(seq) |-> B(i)]
  BY DEF RC4
<1> HIDE DEF B
<1>4. Size(seq) \in Nat
  OBVIOUS
<1> QED BY <1>2, <1>3, <1>4

Xor(b, p) == [b EXCEPT !.mask = (@ \cup p) \ (@ \cap p)]

LEMMA XorByte ==
    ASSUME NEW part, NEW n, NEW m, NEW p
    PROVE  Xor(Byte(part, n, m), p) = Byte(part, n, (m \cup p) \ (m \cap p))
BY DEF Xor, Byte

\* RC4 with its cursor where the sender's or the receiver's is turns what is
\* meant into what is written, and back.
LEMMA RC4Run ==
    ASSUME NEW s, NEW seq, NEW a \in Nat, NEW form \in Forms, Run(s, seq, a, form),
           conf.encrypted, NEW k \in Int, NEW skip \in Nat, a + skip >= ResponseLen,
           skip > 0 => a + skip = ResponseLen,
           k - skip = Half + a - ResponseLen
    PROVE  Run(s, RC4(seq, k, skip), a, Other(form)) /\ Size(RC4(seq, k, skip)) = Size(seq)
<1> USE DEF Size
<1>1. seq \in Seq(Bytes) /\ Size(seq) \in Nat
  BY DEF Run
<1>2. RC4(seq, k, skip) \in Seq(Bytes) /\ Size(RC4(seq, k, skip)) = Size(seq)
  BY <1>1, RC4Type
<1>3. ASSUME NEW i \in 1..Size(seq) PROVE RC4(seq, k, skip)[i] = ByteAt(s, a + i, Other(form))
  <2>1. seq[i] = ByteAt(s, a + i, form) /\ i \in Nat
    BY <1>1 DEF Run
  <2>2. CASE i <= skip
    <3>1. RC4(seq, k, skip)[i] = seq[i]
      BY <1>1, <2>2 DEF RC4
    <3>2. ~ (a + i > ResponseLen)
      BY <2>1, <2>2, Sizes
    <3> QED BY <2>1, <3>1, <3>2 DEF ByteAt, MaskAt
  <2>3. CASE ~ (i <= skip)
    <3> DEFINE p == {k + i - skip - 1}
               m == IF form = "wire" THEN MaskAt(a + i) ELSE {}
    <3>1. RC4(seq, k, skip)[i] = Xor(seq[i], p)
      BY <1>1, <2>3 DEF RC4, Xor
    <3>2. MaskAt(a + i) = p
      <4>1. a + i > ResponseLen /\ k + i - skip - 1 = Half + (a + i) - ResponseLen - 1
        BY <2>1, <2>3, Sizes
      <4> QED BY <4>1 DEF MaskAt
    <3>3. (m \cup p) \ (m \cap p) = IF form = "clear" THEN p ELSE {}
      BY <3>2 DEF Forms
    <3>4. seq[i] = Byte(PartAt(s, a + i), PlaceAt(a + i), m)
      BY <2>1 DEF ByteAt
    <3> HIDE DEF p, m
    <3>5. Xor(seq[i], p) = Byte(PartAt(s, a + i), PlaceAt(a + i), (m \cup p) \ (m \cap p))
      BY <3>4, XorByte
    <3> QED BY <3>1, <3>2, <3>3, <3>5 DEF ByteAt, Forms, Other
  <2> QED BY <2>2, <2>3
<1> QED BY <1>2, <1>3 DEF Run

-----------------------------------------------------------------------------
(* All that is on its way from s, from the place a its peer has come to: d *)
(* decrypted, t and w as written on the transport, e below RTMPE, o above. *)

Stream(s, a, d, t, w, e, o, end) ==
  /\ Run(s, d, a, "clear")
  /\ Run(s, t, a + Size(d), "wire")
  /\ Run(s, w, a + Size(d) + Size(t), "wire")
  /\ Run(s, e, a + Size(d) + Size(t) + Size(w), "wire")
  /\ Run(s, o, a + Size(d) + Size(t) + Size(w) + Size(e), "wire")
  /\ end = a + Size(d) + Size(t) + Size(w) + Size(e) + Size(o)

LEMMA RunLen == ASSUME NEW s, NEW q, NEW a, NEW form, Run(s, q, a, form) PROVE Size(q) \in Nat
BY DEF Run, Size

LEMMA StreamLens ==
    ASSUME NEW s, NEW a \in Nat, NEW d, NEW t, NEW w, NEW e, NEW o, NEW end,
           Stream(s, a, d, t, w, e, o, end)
    PROVE  Size(d) \in Nat /\ Size(t) \in Nat /\ Size(w) \in Nat /\ Size(e) \in Nat /\ Size(o) \in Nat
           /\ end \in Nat
BY RunLen DEF Stream

\* EPOLLOUT, without RTMPE and with it.
LEMMA StreamWriteOut ==
    ASSUME NEW s, NEW a \in Nat, NEW d, NEW t, NEW w, NEW o, NEW end,
           Stream(s, a, d, t, w, <<>>, o, end), NEW k \in 0..Size(o)
    PROVE  Stream(s, a, d, t, w \o SubSeq(o, 1, k), <<>>, Ignore(o, k), end)
<1>1. /\ Size(d) \in Nat /\ Size(t) \in Nat /\ Size(w) \in Nat /\ Size(o) \in Nat
      /\ Size(<<>>) = 0
  BY StreamLens, SizeEmpty
<1> DEFINE b == a + Size(d) + Size(t)
<1>2. b \in Nat /\ Run(s, w, b, "wire") /\ Run(s, o, b + Size(w), "wire")
  BY <1>1 DEF Stream
<1>3. Run(s, SubSeq(o, 1, k), b + Size(w), "wire") /\ Size(SubSeq(o, 1, k)) = k
      /\ Run(s, Ignore(o, k), b + Size(w) + k, "wire") /\ Size(Ignore(o, k)) = Size(o) - k
  BY <1>1, <1>2, RunPrefix
<1>4. Run(s, w \o SubSeq(o, 1, k), b, "wire") /\ Size(w \o SubSeq(o, 1, k)) = Size(w) + k
  BY <1>2, <1>3, RunJoin
<1>5. b + (Size(w) + k) + 0 = b + Size(w) + k
  BY <1>1, <1>2
<1>6. end = b + Size(w) + Size(o)
  BY <1>1, <1>2 DEF Stream
<1>7. end = b + (Size(w) + k) + 0 + (Size(o) - k)
  BY <1>1, <1>2, <1>6
<1> QED BY <1>1, <1>2, <1>3, <1>4, <1>5, <1>7, RunEmpty DEF Stream

LEMMA StreamWriteE ==
    ASSUME NEW s, NEW a \in Nat, NEW d, NEW t, NEW w, NEW e, NEW o, NEW end,
           Stream(s, a, d, t, w, e, o, end), NEW k \in 0..Size(e)
    PROVE  Stream(s, a, d, t, w \o SubSeq(e, 1, k), Ignore(e, k), o, end)
<1>1. /\ Size(d) \in Nat /\ Size(t) \in Nat /\ Size(w) \in Nat /\ Size(e) \in Nat /\ Size(o) \in Nat
  BY StreamLens
<1> DEFINE b == a + Size(d) + Size(t)
<1>2. b \in Nat /\ Run(s, w, b, "wire") /\ Run(s, e, b + Size(w), "wire")
      /\ Run(s, o, b + Size(w) + Size(e), "wire")
  BY <1>1 DEF Stream
<1>3. Run(s, SubSeq(e, 1, k), b + Size(w), "wire") /\ Size(SubSeq(e, 1, k)) = k
      /\ Run(s, Ignore(e, k), b + Size(w) + k, "wire") /\ Size(Ignore(e, k)) = Size(e) - k
  <2>1. b + Size(w) \in Nat
    BY <1>1, <1>2
  <2> HIDE DEF b
  <2> QED BY <1>2, <2>1, RunPrefix
<1>4. Run(s, w \o SubSeq(e, 1, k), b, "wire") /\ Size(w \o SubSeq(e, 1, k)) = Size(w) + k
  BY <1>2, <1>3, RunJoin
<1>5. b + (Size(w) + k) = b + Size(w) + k /\ b + (Size(w) + k) + (Size(e) - k) = b + Size(w) + Size(e)
  BY <1>1, <1>2
<1>6. end = b + Size(w) + Size(e) + Size(o)
  BY DEF Stream
<1>7. end = b + (Size(w) + k) + (Size(e) - k) + Size(o)
  BY <1>1, <1>2, <1>6
<1> QED BY <1>1, <1>2, <1>3, <1>4, <1>5, <1>7 DEF Stream

\* EPOLLIN.
LEMMA StreamRead ==
    ASSUME NEW s, NEW a \in Nat, NEW d, NEW t, NEW w, NEW e, NEW o, NEW end,
           Stream(s, a, d, t, w, e, o, end), NEW k \in 0..Size(w)
    PROVE  Stream(s, a, d, t \o SubSeq(w, 1, k), Ignore(w, k), e, o, end)
<1>1. /\ Size(d) \in Nat /\ Size(t) \in Nat /\ Size(w) \in Nat /\ Size(e) \in Nat /\ Size(o) \in Nat
  BY StreamLens
<1> DEFINE b == a + Size(d)
<1>2. b \in Nat /\ Run(s, t, b, "wire") /\ Run(s, w, b + Size(t), "wire")
      /\ Run(s, e, b + Size(t) + Size(w), "wire")
      /\ Run(s, o, b + Size(t) + Size(w) + Size(e), "wire")
      /\ end = b + Size(t) + Size(w) + Size(e) + Size(o)
  BY <1>1 DEF Stream
<1>3. Run(s, SubSeq(w, 1, k), b + Size(t), "wire") /\ Size(SubSeq(w, 1, k)) = k
      /\ Run(s, Ignore(w, k), b + Size(t) + k, "wire") /\ Size(Ignore(w, k)) = Size(w) - k
  <2>1. b + Size(t) \in Nat
    BY <1>1, <1>2
  <2> HIDE DEF b
  <2> QED BY <1>2, <2>1, RunPrefix
<1>4. Run(s, t \o SubSeq(w, 1, k), b, "wire") /\ Size(t \o SubSeq(w, 1, k)) = Size(t) + k
  BY <1>2, <1>3, RunJoin
<1>5. b + (Size(t) + k) = b + Size(t) + k /\ b + (Size(t) + k) + (Size(w) - k) = b + Size(t) + Size(w)
  BY <1>1, <1>2
<1> QED BY <1>1, <1>2, <1>3, <1>4, <1>5 DEF Stream

\* The first bytes of what is decrypted, or of what was never encrypted, leave.
LEMMA StreamTakeD ==
    ASSUME NEW s, NEW a \in Nat, NEW d, NEW t, NEW w, NEW e, NEW o, NEW end,
           Stream(s, a, d, t, w, e, o, end), NEW k \in 0..Size(d)
    PROVE  /\ Stream(s, a + k, Ignore(d, k), t, w, e, o, end)
           /\ Run(s, SubSeq(d, 1, k), a, "clear") /\ Size(SubSeq(d, 1, k)) = k
           /\ Size(Ignore(d, k)) = Size(d) - k
<1>1. /\ Size(d) \in Nat /\ Size(t) \in Nat /\ Size(w) \in Nat /\ Size(e) \in Nat /\ Size(o) \in Nat
  BY StreamLens
<1>2. /\ Run(s, SubSeq(d, 1, k), a, "clear") /\ Size(SubSeq(d, 1, k)) = k
      /\ Run(s, Ignore(d, k), a + k, "clear") /\ Size(Ignore(d, k)) = Size(d) - k
  <2>1. Run(s, d, a, "clear")
    BY DEF Stream
  <2> QED BY <2>1, RunPrefix
<1>3. (a + k) + (Size(d) - k) = a + Size(d)
  BY <1>1
<1> QED BY <1>2, <1>3 DEF Stream

LEMMA StreamTakeT ==
    ASSUME NEW s, NEW a \in Nat, NEW t, NEW w, NEW e, NEW o, NEW end,
           Stream(s, a, <<>>, t, w, e, o, end), NEW k \in 0..Size(t)
    PROVE  /\ Stream(s, a + k, <<>>, Ignore(t, k), w, e, o, end)
           /\ Run(s, SubSeq(t, 1, k), a, "wire") /\ Size(SubSeq(t, 1, k)) = k
           /\ Size(Ignore(t, k)) = Size(t) - k
<1>1. /\ Size(t) \in Nat /\ Size(w) \in Nat /\ Size(e) \in Nat /\ Size(o) \in Nat /\ Size(<<>>) = 0
  BY StreamLens, SizeEmpty
<1>2. Run(s, t, a, "wire")
  BY <1>1 DEF Stream
<1>3. /\ Run(s, SubSeq(t, 1, k), a, "wire") /\ Size(SubSeq(t, 1, k)) = k
      /\ Run(s, Ignore(t, k), a + k, "wire") /\ Size(Ignore(t, k)) = Size(t) - k
  BY <1>1, <1>2, RunPrefix
<1>4. (a + k) + 0 = a + k /\ (a + k) + 0 + (Size(t) - k) = a + 0 + Size(t)
  BY <1>1
<1> QED BY <1>1, <1>3, <1>4, RunEmpty DEF Stream

\* RTMPE decrypts all that the transport has.
LEMMA StreamDecrypt ==
    ASSUME NEW s, NEW a \in Nat, NEW d, NEW t, NEW w, NEW e, NEW o, NEW end,
           Stream(s, a, d, t, w, e, o, end), conf.encrypted, a >= ResponseLen,
           NEW k, k = Half + a + Size(d) - ResponseLen
    PROVE  /\ Stream(s, a, d \o RC4(t, k, 0), <<>>, w, e, o, end)
           /\ Size(d \o RC4(t, k, 0)) = Size(d) + Size(t)
<1>1. /\ Size(d) \in Nat /\ Size(t) \in Nat /\ Size(w) \in Nat /\ Size(e) \in Nat /\ Size(o) \in Nat
      /\ Size(<<>>) = 0
  BY StreamLens, SizeEmpty
<1>2. a + Size(d) \in Nat /\ k \in Int /\ k - 0 = Half + (a + Size(d)) - ResponseLen
      /\ a + Size(d) + 0 >= ResponseLen
  BY <1>1, Sizes
<1>3. Run(s, t, a + Size(d), "wire") /\ Run(s, d, a, "clear")
  BY DEF Stream
<1>4. Run(s, RC4(t, k, 0), a + Size(d), "clear") /\ Size(RC4(t, k, 0)) = Size(t)
  BY <1>2, <1>3, RC4Run DEF Forms, Other
<1>5. Run(s, d \o RC4(t, k, 0), a, "clear") /\ Size(d \o RC4(t, k, 0)) = Size(d) + Size(t)
  BY <1>3, <1>4, RunJoin
<1>6. a + (Size(d) + Size(t)) + 0 = a + Size(d) + Size(t)
  BY <1>1
<1> QED BY <1>1, <1>5, <1>6, RunEmpty DEF Stream

\* New output, above RTMPE or without it, and below it.
LEMMA StreamAddO ==
    ASSUME NEW s, NEW a \in Nat, NEW d, NEW t, NEW w, NEW e, NEW o, NEW end,
           Stream(s, a, d, t, w, e, o, end), NEW q, Run(s, q, end, "wire")
    PROVE  Stream(s, a, d, t, w, e, o \o q, end + Size(q))
<1>1. /\ Size(d) \in Nat /\ Size(t) \in Nat /\ Size(w) \in Nat /\ Size(e) \in Nat /\ Size(o) \in Nat
      /\ Size(q) \in Nat
  BY StreamLens, RunLen
<1> DEFINE b == a + Size(d) + Size(t) + Size(w) + Size(e)
<1>2. b \in Nat /\ Run(s, o, b, "wire") /\ end = b + Size(o)
  BY <1>1 DEF Stream
<1>3. Run(s, o \o q, b, "wire") /\ Size(o \o q) = Size(o) + Size(q)
  BY <1>2, RunJoin
<1>4. end + Size(q) = b + (Size(o) + Size(q))
  BY <1>1, <1>2
<1> QED BY <1>3, <1>4 DEF Stream

LEMMA StreamAddE ==
    ASSUME NEW s, NEW a \in Nat, NEW d, NEW t, NEW w, NEW e, NEW end,
           Stream(s, a, d, t, w, e, <<>>, end), NEW q, Run(s, q, end, "wire")
    PROVE  Stream(s, a, d, t, w, e \o q, <<>>, end + Size(q))
<1>1. /\ Size(d) \in Nat /\ Size(t) \in Nat /\ Size(w) \in Nat /\ Size(e) \in Nat
      /\ Size(q) \in Nat /\ Size(<<>>) = 0
  BY StreamLens, SizeEmpty, RunLen
<1> DEFINE b == a + Size(d) + Size(t) + Size(w)
<1>2. b \in Nat /\ Run(s, e, b, "wire") /\ end = b + Size(e)
  BY <1>1 DEF Stream
<1>3. Run(s, e \o q, b, "wire") /\ Size(e \o q) = Size(e) + Size(q)
  BY <1>2, RunJoin
<1>4. end + Size(q) = b + (Size(e) + Size(q)) + 0
  BY <1>1, <1>2
<1> QED BY <1>1, <1>3, <1>4, RunEmpty DEF Stream

-----------------------------------------------------------------------------
(* How many bytes of the keystream a place stands for, and how many of the *)
(* bytes of a run are encrypted.                                           *)

Over(m) == IF m > ResponseLen THEN m - ResponseLen ELSE 0

LEMMA OverIs ==
    ASSUME NEW m \in Nat
    PROVE  /\ m >= ResponseLen => Over(m) = m - ResponseLen
           /\ m <= ResponseLen => Over(m) = 0
BY Sizes DEF Over

LEMMA MaskedRun ==
    ASSUME NEW s, NEW seq, NEW a \in Nat, Run(s, seq, a, "wire"), conf.encrypted
    PROVE  Masked(seq) = Over(a + Size(seq)) - Over(a)
<1> USE DEF Size
<1> DEFINE lo == IF a < ResponseLen THEN ResponseLen - a + 1 ELSE 1
<1>1. Size(seq) \in Nat /\ lo \in Nat /\ lo > 0
  BY Sizes DEF Run
<1>2. ASSUME NEW i \in 1..Size(seq) PROVE (seq[i].mask # {}) <=> i >= lo
  <2>1. seq[i].mask = MaskAt(a + i)
    BY ByteIs DEF Run, ByteAt
  <2>2. (a + i > ResponseLen) <=> i >= lo
    BY <1>1, Sizes
  <2> QED BY <2>1, <2>2 DEF MaskAt
<1> HIDE DEF lo
<1>3. {i \in 1..Size(seq) : seq[i].mask # {}} = lo..Size(seq)
  BY <1>1, <1>2
<1>4. Cardinality(lo..Size(seq)) = IF lo > Size(seq) THEN 0 ELSE Size(seq) - lo + 1
  <2>1. lo \in Int /\ Size(seq) \in Int
    BY <1>1
  <2> QED BY <2>1, FS_Interval
<1>5. Masked(seq) = Cardinality(lo..Size(seq))
  BY <1>3 DEF Masked
<1>6. CASE a < ResponseLen
  <2>1. lo = ResponseLen - a + 1 /\ Over(a) = 0
    BY <1>6, Sizes DEF lo, Over
  <2>2. a + Size(seq) \in Nat /\ (a + Size(seq) > ResponseLen <=> ~ (lo > Size(seq)))
    BY <1>1, <2>1, Sizes
  <2>3. Over(a + Size(seq)) = IF lo > Size(seq) THEN 0 ELSE Size(seq) - lo + 1
    BY <1>1, <2>1, <2>2, Sizes DEF Over
  <2> QED BY <1>1, <1>4, <1>5, <2>1, <2>3
<1>7. CASE ~ (a < ResponseLen)
  <2>1. lo = 1 /\ Over(a) = a - ResponseLen /\ Over(a + Size(seq)) = a + Size(seq) - ResponseLen
    BY <1>1, <1>7, Sizes DEF lo, Over
  <2> QED BY <1>1, <1>4, <1>5, <2>1, Sizes
<1> QED BY <1>6, <1>7

Chunked(k) == k * ChunkLen

LEMMA ChunkedNext ==
    ASSUME NEW k \in Nat
    PROVE  Chunked(k) \in Nat /\ Chunked(k + 1) = Chunked(k) + ChunkLen /\ Chunked(0) = 0
BY Sizes DEF Chunked

LEMMA ChunkRun ==
    ASSUME NEW s \in Sides, NEW k \in Nat
    PROVE  /\ Run(s, Chunk(s, k + 1), ResponseLen + Chunked(k), "clear")
           /\ Size(Chunk(s, k + 1)) = ChunkLen
<1> USE DEF Size
<1> DEFINE q == Chunk(s, k + 1)
           a == ResponseLen + Chunked(k)
<1>1. /\ DOMAIN q = 1..ChunkLen
      /\ \A i \in 1..ChunkLen : q[i] = Byte(s, Chunked(k) + i, {})
  <2>1. ((k + 1) - 1) * ChunkLen = Chunked(k)
    BY DEF Chunked
  <2> QED BY <2>1 DEF Chunk, Byte
<1>2. q = [i \in 1..ChunkLen |-> Byte(s, Chunked(k) + i, {})]
  BY <1>1 DEF Chunk, Byte
<1>3. \A i \in 1..ChunkLen : Byte(s, Chunked(k) + i, {}) \in Bytes
  <2>1. ASSUME NEW i \in 1..ChunkLen PROVE Chunked(k) + i \in Int
    BY ChunkedNext
  <2> QED BY <2>1, ByteIs DEF Parts, Sides
<1>4. ChunkLen \in Nat
  BY Sizes
<1>5. q \in Seq(Bytes) /\ Size(q) = ChunkLen
  BY <1>2, <1>3, <1>4
<1>6. ASSUME NEW i \in 1..ChunkLen PROVE ByteAt(s, a + i, "clear") = q[i]
  <2>1. PICK m \in Int : m = a + i
    BY Sizes, ChunkedNext
  <2>2. m > ResponseLen /\ m - ResponseLen = Chunked(k) + i
    BY <2>1, Sizes, ChunkedNext
  <2>3. PartAt(s, m) = s /\ PlaceAt(m) = Chunked(k) + i
    BY <2>2, PlaceIs
  <2> QED BY <1>1, <2>1, <2>3 DEF ByteAt
<1> QED BY <1>5, <1>6 DEF Run

LEMMA PartSeq ==
    ASSUME NEW p \in Parts, NEW len \in Nat
    PROVE  /\ Part(p, len) \in Seq(Bytes) /\ Size(Part(p, len)) = len
           /\ \A i \in 1..len : Part(p, len)[i] = Byte(p, i, {})
<1> USE DEF Size
<1>1. Part(p, len) = [i \in 1..len |-> Byte(p, i, {})]
  BY DEF Part, Byte
<1>2. \A i \in 1..len : Byte(p, i, {}) \in Bytes
  BY ByteIs
<1> QED BY <1>1, <1>2

\* The request, its answer and the reply.
LEMMA HeadRun ==
    ASSUME NEW s \in Sides
    PROVE  /\ Run(s, Part(Type(conf.encrypted), 1), 0, "clear") /\ Size(Part(Type(conf.encrypted), 1)) = 1
           /\ Run(s, Part(FirstPart(s), Half), 1, "clear") /\ Size(Part(FirstPart(s), Half)) = Half
           /\ Run(s, Part(SecondPart(s), Half), RequestLen, "clear")
           /\ Size(Part(SecondPart(s), Half)) = Half
<1> USE DEF Size
<1>1. Run(s, Part(Type(conf.encrypted), 1), 0, "clear") /\ Size(Part(Type(conf.encrypted), 1)) = 1
  <2>1. Type(conf.encrypted) \in Parts
    BY DEF Type, Parts
  <2>2. ASSUME NEW i \in 1..1
        PROVE  ByteAt(s, 0 + i, "clear") = Byte(Type(conf.encrypted), i, {})
    <3>1. 0 + i \in Int /\ i = 1 /\ ~ (0 + i > ResponseLen) /\ ~ (0 + i > RequestLen) /\ ~ (0 + i > 1)
      BY Sizes
    <3> QED BY <3>1, PlaceIs DEF ByteAt
  <2>3. /\ Part(Type(conf.encrypted), 1) \in Seq(Bytes) /\ Size(Part(Type(conf.encrypted), 1)) = 1
        /\ \A i \in 1..1 : Part(Type(conf.encrypted), 1)[i] = Byte(Type(conf.encrypted), i, {})
    BY <2>1, PartSeq, Sizes
  <2> QED BY <2>2, <2>3 DEF Run
<1>2. Run(s, Part(FirstPart(s), Half), 1, "clear") /\ Size(Part(FirstPart(s), Half)) = Half
  <2>1. FirstPart(s) \in Parts
    BY DEF FirstPart, Parts
  <2>2. ASSUME NEW i \in 1..Half
        PROVE  ByteAt(s, 1 + i, "clear") = Byte(FirstPart(s), i, {})
    <3>1. /\ 1 + i \in Int /\ ~ (1 + i > ResponseLen) /\ ~ (1 + i > RequestLen) /\ 1 + i > 1
          /\ (1 + i) - 1 = i
      BY Sizes
    <3> QED BY <3>1, PlaceIs DEF ByteAt
  <2>3. /\ Part(FirstPart(s), Half) \in Seq(Bytes) /\ Size(Part(FirstPart(s), Half)) = Half
        /\ \A i \in 1..Half : Part(FirstPart(s), Half)[i] = Byte(FirstPart(s), i, {})
    BY <2>1, PartSeq, Sizes
  <2> QED BY <2>2, <2>3 DEF Run
<1>3. /\ Run(s, Part(SecondPart(s), Half), RequestLen, "clear")
      /\ Size(Part(SecondPart(s), Half)) = Half
  <2>1. SecondPart(s) \in Parts
    BY DEF SecondPart, Parts
  <2>2. ASSUME NEW i \in 1..Half
        PROVE  ByteAt(s, RequestLen + i, "clear") = Byte(SecondPart(s), i, {})
    <3>1. i \in Int /\ i > 0 /\ i <= Half
      BY Sizes
    <3>2. /\ RequestLen + i \in Int
          /\ ~ (RequestLen + i > ResponseLen) /\ RequestLen + i > RequestLen
          /\ (RequestLen + i) - RequestLen = i
      BY <3>1, Sizes
    <3> QED BY <3>2, PlaceIs DEF ByteAt
  <2>3. /\ Part(SecondPart(s), Half) \in Seq(Bytes) /\ Size(Part(SecondPart(s), Half)) = Half
        /\ \A i \in 1..Half : Part(SecondPart(s), Half)[i] = Byte(SecondPart(s), i, {})
    BY <2>1, PartSeq, Sizes
  <2> QED BY <2>2, <2>3 DEF Run
<1> QED BY <1>1, <1>2, <1>3

-----------------------------------------------------------------------------
(* The inductive invariant.                                                *)

Fields == {"state", "completed", "rtmpe", "skip", "keyIn", "keyOut", "out", "eIn", "eOut",
           "tcpIn", "writing", "midChunk", "sent", "got"}
\* y is x but for the fields of S.
But(y, x, S) == DOMAIN y = Fields /\ \A f \in Fields \ S : y[f] = x[f]

Waiting(s) == IF s = "client" THEN "CLIENT_REQUEST_SENT" ELSE "SERVER_RESPONSE_SENT"
HasKeys(x) == conf.encrypted /\ x.state \in {"SERVER_RESPONSE_SENT", "DONE"}

Shaped(s, x) ==
  /\ DOMAIN x = Fields
  /\ x.state \in {"NOT_INITIALIZED", Waiting(s), "DONE"}
  /\ x.completed <=> x.state = "DONE"
  /\ x.rtmpe <=> x.completed /\ conf.encrypted
  /\ x.out \in Seq(Bytes) /\ x.eIn \in Seq(Bytes) /\ x.eOut \in Seq(Bytes)
  /\ x.tcpIn \in Seq(Bytes) /\ x.got \in Seq(Bytes)
  /\ IF HasKeys(x) THEN x.keyIn \in Nat /\ x.keyOut \in Nat
                   ELSE x.keyIn = -1 /\ x.keyOut = -1
  /\ x.sent \in 0..Chunks
  /\ ~x.rtmpe => x.eIn = <<>> /\ x.eOut = <<>>
  /\ ~x.completed => x.got = <<>> /\ x.sent = 0 /\ ~x.midChunk

\* Between two events C2 is not held back.
Formed(s, x) == Shaped(s, x) /\ x.skip = 0 /\ (x.rtmpe => x.out = <<>>)

\* What s has produced of its stream, and the place a receiver has come to.
Begun(s, x) == IF x.state = "NOT_INITIALIZED" THEN 0
               ELSE IF x.state = "CLIENT_REQUEST_SENT" THEN RequestLen ELSE ResponseLen
Taken(y) == IF y.state = "DONE" THEN ResponseLen
            ELSE IF y.state = "SERVER_RESPONSE_SENT" THEN RequestLen ELSE 0
End(s, x) == Begun(s, x) + Chunked(x.sent)
Place(y) == Taken(y) + Size(y.got)

\* From s, whose state is x, to its peer, whose state is y, w being on its way.
Flow(s, x, y, w) ==
  /\ Stream(s, Place(y), y.eIn, y.tcpIn, w, x.eOut, x.out, End(s, x))
  /\ HasKeys(x) => x.keyOut = Half + Over(End(s, x))
  /\ HasKeys(y) => y.keyIn = Half + Over(Place(y) + Size(y.eIn))
  /\ Run(s, y.got, ResponseLen, "clear")

Flows == \A s \in Sides : Flow(s, party[s], party[Peer(s)], net[Peer(s)])
Settled(y) == y.rtmpe => y.tcpIn = <<>>

IInv ==
  /\ up \in BOOLEAN /\ residue \in BOOLEAN
  /\ DOMAIN party = Sides /\ DOMAIN net = Sides
  /\ \A s \in Sides : Formed(s, party[s]) /\ net[s] \in Seq(Bytes)
  /\ residue => \A s \in Sides : party[s].completed
  /\ ~residue /\ ~up => \A s \in Sides : ~party[s].completed
  /\ ~residue /\ up => Flows /\ \A s \in Sides : Settled(party[s])
  /\ NothingThrownAway

-----------------------------------------------------------------------------
(* What the steps of a side do to a flow from it or to it.                 *)

LEMMA Places ==
    ASSUME NEW s, NEW x, NEW y, NEW w, Flow(s, x, y, w)
    PROVE  /\ Taken(y) \in Nat /\ Size(y.got) \in Nat /\ Place(y) \in Nat /\ Begun(s, x) \in Nat
           /\ Size(y.eIn) \in Nat /\ Size(y.tcpIn) \in Nat /\ Size(w) \in Nat
           /\ Size(x.eOut) \in Nat /\ Size(x.out) \in Nat /\ End(s, x) \in Nat
           /\ End(s, x) = Place(y) + Size(y.eIn) + Size(y.tcpIn) + Size(w) + Size(x.eOut) + Size(x.out)
           /\ Stream(s, Place(y), y.eIn, y.tcpIn, w, x.eOut, x.out, End(s, x))
           /\ Run(s, y.got, ResponseLen, "clear")
<1>1. Taken(y) \in Nat /\ Begun(s, x) \in Nat
  BY Sizes DEF Taken, Begun
<1>2. Size(y.got) \in Nat
  BY RunLen DEF Flow
<1>3. Place(y) \in Nat
  BY <1>1, <1>2 DEF Place
<1>4. Stream(s, Place(y), y.eIn, y.tcpIn, w, x.eOut, x.out, End(s, x))
  BY DEF Flow
<1>5. End(s, x) = Place(y) + Size(y.eIn) + Size(y.tcpIn) + Size(w) + Size(x.eOut) + Size(x.out)
  BY <1>4 DEF Stream
<1>6. Run(s, y.got, ResponseLen, "clear")
  BY DEF Flow
<1> QED BY <1>1, <1>2, <1>3, <1>4, <1>5, <1>6, StreamLens

\* Only these fields of the two sides matter.
LEMMA FlowAlike ==
    ASSUME NEW s, NEW x, NEW y, NEW w, Flow(s, x, y, w), NEW x1, NEW y1,
           x1.eOut = x.eOut, x1.out = x.out, x1.sent = x.sent, x1.state = x.state,
           x1.keyOut = x.keyOut,
           y1.got = y.got, y1.eIn = y.eIn, y1.tcpIn = y.tcpIn, y1.state = y.state,
           y1.keyIn = y.keyIn
    PROVE  Flow(s, x1, y1, w)
BY DEF Flow, Place, Taken, End, Begun, HasKeys

LEMMA ArrivesFlow ==
    ASSUME NEW s, NEW x, NEW y, NEW w, Flow(s, x, y, w), NEW k \in 0..Size(w), NEW y1,
           y1.got = y.got, y1.eIn = y.eIn, y1.state = y.state, y1.keyIn = y.keyIn,
           y1.tcpIn = y.tcpIn \o SubSeq(w, 1, k)
    PROVE  Flow(s, x, y1, Ignore(w, k))
<1>1. Stream(s, Place(y), y.eIn, y.tcpIn \o SubSeq(w, 1, k), Ignore(w, k), x.eOut, x.out, End(s, x))
  BY Places, StreamRead
<1>2. Place(y1) = Place(y) /\ HasKeys(y1) = HasKeys(y)
  BY DEF Place, Taken, HasKeys
<1> QED BY <1>1, <1>2 DEF Flow

LEMMA DecryptsFlow ==
    ASSUME NEW s, NEW x, NEW y, NEW w, Flow(s, x, y, w), y.state = "DONE", conf.encrypted,
           NEW y1, y1.got = y.got, y1.state = y.state,
           y1.eIn = y.eIn \o RC4(y.tcpIn, y.keyIn, 0), y1.tcpIn = <<>>,
           y1.keyIn = y.keyIn + Size(y.tcpIn)
    PROVE  Flow(s, x, y1, w)
<1>1. Place(y) = ResponseLen + Size(y.got) /\ HasKeys(y) /\ HasKeys(y1) /\ Place(y1) = Place(y)
  BY DEF Place, Taken, HasKeys
<1>2. /\ Place(y) \in Nat /\ Size(y.eIn) \in Nat /\ Size(y.tcpIn) \in Nat /\ Size(y.got) \in Nat
      /\ ResponseLen \in Nat /\ Half \in Nat
  BY Places, Sizes
<1>3. PICK n \in Nat : n = Place(y) + Size(y.eIn)
  BY <1>2
<1>4. n >= ResponseLen /\ Place(y) >= ResponseLen
  BY <1>1, <1>2, <1>3
<1>5. y.keyIn = Half + Over(n)
  BY <1>1, <1>3 DEF Flow
<1>6. y.keyIn = Half + (n - ResponseLen)
  BY <1>4, <1>5, OverIs
<1>7. y.keyIn = Half + Place(y) + Size(y.eIn) - ResponseLen
  BY <1>2, <1>3, <1>6
<1>8. /\ Stream(s, Place(y), y1.eIn, <<>>, w, x.eOut, x.out, End(s, x))
      /\ Size(y1.eIn) = Size(y.eIn) + Size(y.tcpIn)
  <2>1. Stream(s, Place(y), y.eIn, y.tcpIn, w, x.eOut, x.out, End(s, x))
    BY Places
  <2>2. PICK a, d, t, key : a = Place(y) /\ d = y.eIn /\ t = y.tcpIn /\ key = y.keyIn
    OBVIOUS
  <2>3. a \in Nat /\ a >= ResponseLen /\ key = Half + a + Size(d) - ResponseLen
    BY <1>2, <1>4, <1>7, <2>2
  <2>4. Stream(s, a, d, t, w, x.eOut, x.out, End(s, x))
    BY <2>1, <2>2
  <2>5. /\ Stream(s, a, d \o RC4(t, key, 0), <<>>, w, x.eOut, x.out, End(s, x))
        /\ Size(d \o RC4(t, key, 0)) = Size(d) + Size(t)
    BY <2>3, <2>4, StreamDecrypt
  <2> QED BY <2>2, <2>5
<1>9. PICK m \in Nat : m = Place(y) + Size(y1.eIn)
  BY <1>2, <1>8
<1>10. Over(m) = m - ResponseLen /\ m = n + Size(y.tcpIn)
  <2>1. m = n + Size(y.tcpIn)
    BY <1>2, <1>3, <1>8, <1>9
  <2>2. m >= ResponseLen
    BY <1>2, <1>4, <2>1
  <2> QED BY <2>1, <2>2, OverIs
<1>11. y1.keyIn = Half + (m - ResponseLen)
  BY <1>2, <1>6, <1>10
<1>12. y1.keyIn = Half + Over(Place(y) + Size(y1.eIn))
  BY <1>9, <1>10, <1>11
<1>13. Run(s, y1.got, ResponseLen, "clear")
  BY Places
<1>14. HasKeys(x) => x.keyOut = Half + Over(End(s, x))
  BY DEF Flow
<1> QED BY <1>1, <1>8, <1>12, <1>13, <1>14 DEF Flow

\* Bytes leave RTMPE's buffer for the protocol.
LEMMA ProcessesFlow ==
    ASSUME NEW s, NEW x, NEW y, NEW w, Flow(s, x, y, w), y.state = "DONE",
           NEW k \in 0..Size(y.eIn), NEW y1, y1.state = y.state, y1.keyIn = y.keyIn,
           y1.tcpIn = y.tcpIn, y1.eIn = Ignore(y.eIn, k), y1.got = y.got \o SubSeq(y.eIn, 1, k)
    PROVE  Flow(s, x, y1, w)
<1>1. /\ Stream(s, Place(y) + k, y1.eIn, y.tcpIn, w, x.eOut, x.out, End(s, x))
      /\ Run(s, SubSeq(y.eIn, 1, k), Place(y), "clear") /\ Size(SubSeq(y.eIn, 1, k)) = k
      /\ Size(y1.eIn) = Size(y.eIn) - k
  <2>1. /\ Stream(s, Place(y), y.eIn, y.tcpIn, w, x.eOut, x.out, End(s, x))
        /\ Place(y) \in Nat /\ Size(y.eIn) \in Nat
    BY Places
  <2>2. /\ Stream(s, Place(y) + k, Ignore(y.eIn, k), y.tcpIn, w, x.eOut, x.out, End(s, x))
        /\ Run(s, SubSeq(y.eIn, 1, k), Place(y), "clear") /\ Size(SubSeq(y.eIn, 1, k)) = k
        /\ Size(Ignore(y.eIn, k)) = Size(y.eIn) - k
    BY <2>1, StreamTakeD
  <2> QED BY <2>2
<1>2. Place(y) = ResponseLen + Size(y.got)
  BY DEF Place, Taken
<1>3. Run(s, y1.got, ResponseLen, "clear") /\ Size(y1.got) = Size(y.got) + k
  <2>1. Run(s, y.got, ResponseLen, "clear") /\ ResponseLen \in Nat
    BY Places, Sizes
  <2>2. Run(s, SubSeq(y.eIn, 1, k), ResponseLen + Size(y.got), "clear")
    BY <1>1, <1>2
  <2> QED BY <1>1, <2>1, <2>2, RunJoin
<1>4. Place(y1) = ResponseLen + Size(y1.got)
  BY DEF Place, Taken
<1>5. Place(y1) = Place(y) + k
  <2>1. Size(y.got) \in Nat /\ ResponseLen \in Nat
    BY Places, Sizes
  <2> HIDE DEF Place
  <2> QED BY <1>2, <1>3, <1>4, <2>1
<1>6. Place(y1) + Size(y1.eIn) = Place(y) + Size(y.eIn)
  <2>1. Place(y) \in Nat /\ Size(y.eIn) \in Nat
    BY Places
  <2> QED BY <1>1, <1>5, <2>1
<1>7. HasKeys(y1) <=> HasKeys(y)
  BY DEF HasKeys
<1> QED BY <1>1, <1>3, <1>5, <1>6, <1>7 DEF Flow

\* They leave the transport's buffer for it, when nothing is encrypted.
LEMMA ProcessesPlainFlow ==
    ASSUME NEW s, NEW x, NEW y, NEW w, Flow(s, x, y, w), y.state = "DONE", ~conf.encrypted,
           y.eIn = <<>>,
           NEW k \in 0..Size(y.tcpIn), NEW y1, y1.state = y.state, y1.eIn = <<>>,
           y1.tcpIn = Ignore(y.tcpIn, k), y1.got = y.got \o SubSeq(y.tcpIn, 1, k)
    PROVE  Flow(s, x, y1, w)
<1>1. /\ Stream(s, Place(y) + k, <<>>, y1.tcpIn, w, x.eOut, x.out, End(s, x))
      /\ Run(s, SubSeq(y.tcpIn, 1, k), Place(y), "wire") /\ Size(SubSeq(y.tcpIn, 1, k)) = k
  <2>1. /\ Stream(s, Place(y), <<>>, y.tcpIn, w, x.eOut, x.out, End(s, x))
        /\ Place(y) \in Nat
    BY Places
  <2>2. /\ Stream(s, Place(y) + k, <<>>, Ignore(y.tcpIn, k), w, x.eOut, x.out, End(s, x))
        /\ Run(s, SubSeq(y.tcpIn, 1, k), Place(y), "wire") /\ Size(SubSeq(y.tcpIn, 1, k)) = k
    BY <2>1, StreamTakeT
  <2> QED BY <2>2
<1>2. Run(s, SubSeq(y.tcpIn, 1, k), Place(y), "clear")
  BY <1>1, Places, RunPlain
<1>3. Place(y) = ResponseLen + Size(y.got)
  BY DEF Place, Taken
<1>4. Run(s, y1.got, ResponseLen, "clear") /\ Size(y1.got) = Size(y.got) + k
  <2>1. Run(s, y.got, ResponseLen, "clear") /\ ResponseLen \in Nat
    BY Places, Sizes
  <2>2. Run(s, SubSeq(y.tcpIn, 1, k), ResponseLen + Size(y.got), "clear")
    BY <1>2, <1>3
  <2> QED BY <1>1, <2>1, <2>2, RunJoin
<1>5. Place(y1) = ResponseLen + Size(y1.got)
  BY DEF Place, Taken
<1>6. Place(y1) = Place(y) + k
  <2>1. Size(y.got) \in Nat /\ ResponseLen \in Nat
    BY Places, Sizes
  <2> QED BY <1>3, <1>4, <1>5, <2>1
<1>7. ~HasKeys(y1)
  BY DEF HasKeys
<1> QED BY <1>1, <1>4, <1>6, <1>7 DEF Flow

\* A part of the handshake is taken.
LEMMA TakesFlow ==
    ASSUME NEW s, NEW x, NEW y, NEW w, Flow(s, x, y, w), y.eIn = <<>>, y.got = <<>>,
           NEW n \in 0..Size(y.tcpIn), NEW y1, y1.eIn = <<>>, y1.got = <<>>,
           y1.tcpIn = Ignore(y.tcpIn, n), Taken(y1) = Taken(y) + n, HasKeys(y1) => y1.keyIn = Half
    PROVE  Flow(s, x, y1, w)
<1>1. Place(y) = Taken(y) /\ Place(y1) = Taken(y1) /\ Taken(y) \in Nat
  <2>1. Taken(y) \in Nat /\ Taken(y1) \in Nat
    BY Sizes DEF Taken
  <2> QED BY <2>1, SizeEmpty DEF Place
<1>2. Stream(s, Place(y1), <<>>, y1.tcpIn, w, x.eOut, x.out, End(s, x))
  BY <1>1, Places, StreamTakeT
<1>3. Half + Over(Place(y1) + Size(<<>>)) = Half
  <2>1. Taken(y1) \in {0, RequestLen, ResponseLen}
    BY DEF Taken
  <2>2. PICK m \in Nat : m = Place(y1) /\ m <= ResponseLen
    BY <1>1, <2>1, Sizes
  <2>3. Over(m) = 0 /\ m = Place(y1) + 0
    BY <2>2, OverIs
  <2> QED BY <2>3, Sizes, SizeEmpty
<1> QED BY <1>2, <1>3, RunEmpty DEF Flow

\* Output is queued.
LEMMA QueuesFlow ==
    ASSUME NEW s, NEW x, NEW y, NEW w, Flow(s, x, y, w), NEW q, NEW x1,
           Run(s, q, End(s, x), "wire"), x1.out = x.out \o q, x1.eOut = x.eOut,
           End(s, x1) = End(s, x) + Size(q), HasKeys(x1) => x1.keyOut = Half + Over(End(s, x1))
    PROVE  Flow(s, x1, y, w)
<1>1. Stream(s, Place(y), y.eIn, y.tcpIn, w, x1.eOut, x1.out, End(s, x1))
  BY Places, StreamAddO
<1> QED BY <1>1 DEF Flow

\* What is above RTMPE is encrypted, all but C2.
LEMMA EncryptsFlow ==
    ASSUME NEW s, NEW x, NEW y, NEW w, Flow(s, x, y, w), NEW q, NEW x1, conf.encrypted,
           Run(s, q, End(s, x), "clear"), x1.out = <<>>,
           x1.eOut = x.eOut \o RC4(x.out \o q, x.keyOut, Size(x.out)),
           End(s, x) >= ResponseLen, x.out # <<>> => End(s, x) = ResponseLen,
           x.keyOut = Half + End(s, x) - ResponseLen,
           x1.keyOut = x.keyOut + Size(q), End(s, x1) = End(s, x) + Size(q)
    PROVE  Flow(s, x1, y, w)
<1> DEFINE a == Place(y) + Size(y.eIn) + Size(y.tcpIn) + Size(w) + Size(x.eOut)
           r == RC4(x.out \o q, x.keyOut, Size(x.out))
<1>1. a \in Nat /\ Run(s, x.out, a, "wire") /\ End(s, x) = a + Size(x.out) /\ Size(x.out) \in Nat
  <2>1. /\ Stream(s, Place(y), y.eIn, y.tcpIn, w, x.eOut, x.out, End(s, x))
        /\ a \in Nat /\ Size(x.out) \in Nat
    BY Places
  <2> QED BY <2>1 DEF Stream
<1>2. Size(q) \in Nat /\ End(s, x) \in Nat
  BY RunLen, Places
<1>3. x.out # <<>> => a + Size(x.out) <= ResponseLen
  BY <1>1, Sizes
<1>4. Run(s, x.out, a, "clear")
  BY <1>1, <1>3, RunPlain, RunEmpty
<1>5. Run(s, x.out \o q, a, "clear") /\ Size(x.out \o q) = Size(x.out) + Size(q)
  BY <1>1, <1>4, RunJoin
<1>6. Run(s, r, a, "wire") /\ Size(r) = Size(x.out) + Size(q)
  <2>1. a + Size(x.out) >= ResponseLen /\ (Size(x.out) > 0 => a + Size(x.out) = ResponseLen)
    <3>1. Size(x.out) > 0 => x.out # <<>>
      BY RunEmpty
    <3> QED BY <1>1, <3>1
  <2>2. x.keyOut \in Int /\ x.keyOut - Size(x.out) = Half + a - ResponseLen
    BY <1>1, <1>2, Sizes
  <2> QED BY <1>1, <1>5, <2>1, <2>2, RC4Run DEF Forms, Other
<1> HIDE DEF r
<1>7. Stream(s, Place(y), y.eIn, y.tcpIn, w, x.eOut, <<>>, a)
  <2>1. a = a + 0
    BY <1>1
  <2> QED BY <2>1, RunEmpty DEF Flow, Stream
<1>8. Stream(s, Place(y), y.eIn, y.tcpIn, w, x.eOut \o r, <<>>, a + Size(r))
  <2> HIDE DEF a
  <2> QED BY <1>6, <1>7, Places, StreamAddE
<1>9. a + Size(r) = End(s, x1)
  BY <1>1, <1>2, <1>6
<1>10. x1.keyOut = Half + Over(End(s, x1))
  <2> HIDE DEF a
  <2>1. End(s, x1) \in Nat /\ End(s, x1) >= ResponseLen
    <3>1. End(s, x) \in Nat /\ Size(q) \in Nat /\ ResponseLen \in Nat
      BY <1>2, Sizes
    <3> QED BY <3>1
  <2>2. PICK n \in Nat : n = End(s, x1) /\ n >= ResponseLen
    BY <2>1
  <2>3. Over(n) = n - ResponseLen
    BY <2>2, OverIs
  <2>4. n = End(s, x) + Size(q) /\ Half \in Nat /\ ResponseLen \in Nat
    BY <2>2, Sizes
  <2>5. x1.keyOut = Half + (n - ResponseLen)
    BY <1>2, <2>4
  <2> QED BY <2>2, <2>3, <2>5
<1> QED BY <1>8, <1>9, <1>10 DEF Flow, r

-----------------------------------------------------------------------------
(* What the steps do to the record of a side.                              *)

LEMMA Kinds ==
    /\ "client" \in Sides /\ "server" \in Sides
    /\ \A s \in Sides : s \in {"client", "server"} /\ Peer(s) \in Sides /\ Peer(s) # s /\ Peer(Peer(s)) = s
BY DEF Sides, Peer

LEMMA EnqueuePlain ==
    ASSUME NEW x, DOMAIN x = Fields, ~x.rtmpe
    PROVE  But(EnqueueForOutbound(x), x, {"writing"})
BY DEF EnqueueForOutbound, Fields, But

LEMMA EnqueueMasked ==
    ASSUME NEW x, DOMAIN x = Fields, x.rtmpe, x.out # <<>>, NEW y, y = EnqueueForOutbound(x)
    PROVE  /\ But(y, x, {"writing", "eOut", "keyOut", "skip", "out"})
           /\ y.eOut = x.eOut \o RC4(x.out, x.keyOut, x.skip)
           /\ y.keyOut = x.keyOut + Size(x.out) - x.skip /\ y.skip = 0 /\ y.out = <<>>
BY DEF EnqueueForOutbound, Fields, But, Size

\* ProcessBytes takes some bytes from the front of the buffer.
Processed(y, x, b, k) ==
  /\ But(y, x, {b, "midChunk", "got"})
  /\ y[b] = Ignore(x[b], k)
  /\ y.got = x.got \o SubSeq(x[b], 1, k)

LEMMA ProcessTakes ==
    ASSUME NEW x, DOMAIN x = Fields, NEW b \in {"eIn", "tcpIn"}, x[b] \in Seq(Bytes)
    PROVE  \E k \in 0..Size(x[b]) : Processed(ProcessBytes(x, b), x, b, k)
<1> DEFINE begun == IF x.midChunk THEN 1 ELSE 0
           total == begun + Len(x[b])
           taken == IF total % ChunkLen = 0 THEN Len(x[b])
                    ELSE (total \div ChunkLen) * ChunkLen + 1 - begun
           y == [x EXCEPT ![b] = Ignore(x[b], taken), !.midChunk = total % ChunkLen # 0,
                          !.got = @ \o SubSeq(x[b], 1, taken)]
<1>1. ProcessBytes(x, b) = y
  BY DEF ProcessBytes
<1>2. taken \in 0..Size(x[b])
  <2>1. PICK n \in Nat : n = Len(x[b])
    OBVIOUS
  <2>2. begun \in {0, 1}
    OBVIOUS
  <2>3. PICK t \in Nat : t = begun + n
    BY <2>2
  <2>4. t = total
    BY <2>1, <2>3
  <2>5. PICK d \in Nat : d = ChunkLen /\ d > 1
    BY Sizes
  <2>6. PICK q \in Nat, r \in Nat : q = t \div d /\ r = t % d /\ t = q * d + r
    BY <2>5
  <2>7. PICK m \in Nat : m = q * d
    BY <2>5
  <2>8. taken = IF r = 0 THEN n ELSE m + 1 - begun
    BY <2>1, <2>4, <2>5, <2>6, <2>7
  <2>9. t = m + r
    BY <2>6, <2>7
  <2> HIDE DEF begun, total, taken
  <2>10. CASE r = 0
    BY <2>1, <2>8, <2>10 DEF Size
  <2>11. CASE r >= 1
    <3>1. PICK g \in 0..1 : g = begun
      BY <2>2
    <3>2. m + 1 - g \in 0..n
      BY <2>3, <2>9, <2>11, <3>1
    <3> QED BY <2>1, <2>8, <2>11, <3>1, <3>2 DEF Size
  <2> QED BY <2>10, <2>11
<1> HIDE DEF taken, total
<1>3. /\ But(y, x, {b, "midChunk", "got"}) /\ y[b] = Ignore(x[b], taken)
      /\ y.got = x.got \o SubSeq(x[b], 1, taken)
  BY DEF But, Fields
<1> HIDE DEF y
<1>4. Processed(ProcessBytes(x, b), x, b, taken)
  BY <1>1, <1>3 DEF Processed
<1> QED BY <1>2, <1>4

LEMMA SendMessagePlain ==
    ASSUME NEW s, NEW x, DOMAIN x = Fields, ~x.rtmpe
    PROVE  /\ But(SendMessage(s, x), x, {"writing", "out", "sent"})
           /\ SendMessage(s, x).out = x.out \o Chunk(s, x.sent + 1)
           /\ SendMessage(s, x).sent = x.sent + 1
<1> DEFINE q == x.out \o Chunk(s, x.sent + 1)
           z == [x EXCEPT !.out = @ \o Chunk(s, x.sent + 1), !.sent = @ + 1]
<1>1. SendMessage(s, x) = EnqueueForOutbound(z)
  BY DEF SendMessage
<1>2. But(z, x, {"out", "sent"}) /\ DOMAIN z = Fields /\ z.out = q /\ z.sent = x.sent + 1
  BY DEF But, Fields
<1> HIDE DEF z, q
<1>3. ~z.rtmpe
  BY <1>2 DEF But, Fields
<1>4. But(EnqueueForOutbound(z), z, {"writing"})
  BY <1>2, <1>3, EnqueuePlain
<1>5. But(SendMessage(s, x), z, {"writing"})
  BY <1>1, <1>4
<1> QED BY <1>2, <1>5 DEF But, Fields, q

\* _outputBuffer with the message in it.
Pending(s, x) == x.out \o Chunk(s, x.sent + 1)

\* y is x after RTMPE has taken the pending bytes q and a message was counted.
Encrypted(y, x, q) ==
  /\ But(y, x, {"writing", "eOut", "keyOut", "skip", "out", "sent"})
  /\ y.eOut = x.eOut \o RC4(q, x.keyOut, x.skip)
  /\ y.keyOut = x.keyOut + Size(q) - x.skip
  /\ y.skip = 0 /\ y.out = <<>> /\ y.sent = x.sent + 1

LEMMA SendMessageMasked ==
    ASSUME NEW s, NEW x, DOMAIN x = Fields, x.rtmpe, NEW q, q = Pending(s, x), q # <<>>
    PROVE  Encrypted(SendMessage(s, x), x, q)
<1> DEFINE z == [x EXCEPT !.out = @ \o Chunk(s, x.sent + 1), !.sent = @ + 1]
<1>1. SendMessage(s, x) = EnqueueForOutbound(z)
  BY DEF SendMessage
<1>2. But(z, x, {"out", "sent"}) /\ DOMAIN z = Fields /\ z.out = q /\ z.sent = x.sent + 1
  BY DEF But, Fields, Pending
<1> HIDE DEF z
<1>3. z.rtmpe /\ z.eOut = x.eOut /\ z.keyOut = x.keyOut /\ z.skip = x.skip
  BY <1>2 DEF But, Fields
<1> DEFINE y == SendMessage(s, x)
<1>4. /\ But(y, z, {"writing", "eOut", "keyOut", "skip", "out"})
      /\ y.eOut = z.eOut \o RC4(z.out, z.keyOut, z.skip)
      /\ y.keyOut = z.keyOut + Size(z.out) - z.skip /\ y.skip = 0 /\ y.out = <<>>
  BY <1>1, <1>2, <1>3, EnqueueMasked
<1> HIDE DEF y
<1>5. But(y, x, {"writing", "eOut", "keyOut", "skip", "out", "sent"}) /\ y.sent = x.sent + 1
  BY <1>2, <1>4 DEF But, Fields
<1>6. /\ y.eOut = x.eOut \o RC4(q, x.keyOut, x.skip)
      /\ y.keyOut = x.keyOut + Size(q) - x.skip /\ y.skip = 0 /\ y.out = <<>>
  BY <1>2, <1>3, <1>4
<1> QED BY <1>5, <1>6 DEF y, Encrypted

LEMMA Nonempty == ASSUME NEW q, Size(q) > 0 PROVE q # <<>>
BY SizeEmpty

LEMMA Emptied == ASSUME NEW q \in Seq(Bytes) PROVE Size(q) \in Nat /\ (Size(q) = 0 <=> q = <<>>)
BY DEF Size

LEMMA Concat ==
    ASSUME NEW u \in Seq(Bytes), NEW v \in Seq(Bytes)
    PROVE  u \o v \in Seq(Bytes) /\ Size(u \o v) = Size(u) + Size(v)
BY DEF Size

LEMMA Cuts ==
    ASSUME NEW q \in Seq(Bytes), NEW k \in 0..Size(q)
    PROVE  /\ Ignore(q, k) \in Seq(Bytes) /\ SubSeq(q, 1, k) \in Seq(Bytes)
           /\ Size(Ignore(q, k)) = Size(q) - k /\ Size(SubSeq(q, 1, k)) = k
BY DEF Ignore, Size

LEMMA ChunkSeq ==
    ASSUME NEW s \in Sides, NEW k \in Nat
    PROVE  Chunk(s, k + 1) \in Seq(Bytes) /\ Size(Chunk(s, k + 1)) = ChunkLen
BY ChunkRun DEF Run

\* C2 is all RTMPE may have to pass as it is.
Held(x) == IF x.rtmpe THEN x.skip = Size(x.out) ELSE x.skip = 0

LEMMA SendsFormed ==
    ASSUME NEW s \in Sides, NEW x, Shaped(s, x), Held(x), x.completed, x.sent < Chunks,
           NEW y, y = SendMessage(s, x)
    PROVE  /\ Formed(s, y)
           /\ But(y, x, {"writing", "eOut", "keyOut", "skip", "out", "sent"})
           /\ y.sent = x.sent + 1
<1> DEFINE c == Chunk(s, x.sent + 1)
<1>1. /\ DOMAIN x = Fields /\ x.sent \in Nat /\ x.sent + 1 \in 0..Chunks
      /\ x.out \in Seq(Bytes) /\ x.eOut \in Seq(Bytes)
  BY Sizes DEF Shaped
<1>2. c \in Seq(Bytes) /\ Size(c) = ChunkLen
  BY <1>1, ChunkSeq
<1> HIDE DEF c
<1>3. x.out \o c \in Seq(Bytes) /\ Size(x.out \o c) = Size(x.out) + ChunkLen /\ x.out \o c # <<>>
  <2>1. x.out \o c \in Seq(Bytes) /\ Size(x.out \o c) = Size(x.out) + ChunkLen
    BY <1>1, <1>2, Concat
  <2>2. Size(x.out) \in Nat
    BY <1>1, Emptied
  <2>3. Size(x.out \o c) > 0
    BY <2>1, <2>2, Sizes
  <2> QED BY <2>1, <2>3, Nonempty
<1>4. CASE ~x.rtmpe
  <2>1. But(y, x, {"writing", "out", "sent"}) /\ y.out = x.out \o c /\ y.sent = x.sent + 1
    BY <1>1, <1>4, SendMessagePlain DEF c
  <2>2. x.skip = 0
    BY <1>4 DEF Held
  <2>3. Formed(s, y)
    BY <1>1, <1>3, <1>4, <2>1, <2>2 DEF Formed, Shaped, HasKeys, But, Fields
  <2>4. But(y, x, {"writing", "eOut", "keyOut", "skip", "out", "sent"})
    BY <2>1 DEF But
  <2> QED BY <2>1, <2>3, <2>4
<1>5. CASE x.rtmpe
  <2> PICK q : q = x.out \o c
    OBVIOUS
  <2>1. /\ But(y, x, {"writing", "eOut", "keyOut", "skip", "out", "sent"})
        /\ y.eOut = x.eOut \o RC4(q, x.keyOut, x.skip)
        /\ y.keyOut = x.keyOut + Size(q) - x.skip
        /\ y.skip = 0 /\ y.out = <<>> /\ y.sent = x.sent + 1
    <3>1. q = Pending(s, x) /\ q # <<>>
      BY <1>3 DEF c, Pending
    <3>2. Encrypted(SendMessage(s, x), x, q)
      BY <1>1, <1>5, <3>1, SendMessageMasked
    <3> QED BY <3>2 DEF Encrypted
  <2>2. x.skip = Size(x.out) /\ x.skip \in Nat /\ HasKeys(x) /\ x.keyOut \in Nat
    <3>1. HasKeys(x)
      BY <1>5 DEF Shaped, HasKeys
    <3> QED BY <1>1, <1>5, <3>1, Emptied DEF Held, Shaped
  <2>3. y.keyOut = x.keyOut + ChunkLen /\ y.keyOut \in Nat
    <3>1. PICK n \in Nat, k \in Nat : n = Size(x.out) /\ k = x.keyOut
      BY <2>2
    <3>2. y.keyOut = k + (n + ChunkLen) - n
      BY <1>3, <2>1, <2>2, <3>1
    <3> QED BY <3>1, <3>2, Sizes
  <2>4. y.eOut \in Seq(Bytes)
    <3>0. q \in Seq(Bytes) /\ x.keyOut \in Int /\ x.skip \in Int
      BY <1>3, <2>2
    <3>1. RC4(q, x.keyOut, x.skip) \in Seq(Bytes)
      BY <3>0, RC4Type
    <3> QED BY <1>1, <2>1, <3>1, Concat
  <2>5. <<>> \in Seq(Bytes)
    OBVIOUS
  <2>6. Formed(s, y)
    BY <1>1, <1>5, <2>1, <2>2, <2>3, <2>4, <2>5 DEF Formed, Shaped, HasKeys, But, Fields
  <2> QED BY <2>1, <2>6
<1> QED BY <1>4, <1>5

LEMMA SendsFlow ==
    ASSUME NEW s \in Sides, NEW x, Shaped(s, x), Held(x), x.completed, NEW z, NEW w,
           Flow(s, x, z, w), x.rtmpe /\ x.out # <<>> => End(s, x) = ResponseLen,
           NEW y, y = SendMessage(s, x)
    PROVE  Flow(s, y, z, w)
<1> DEFINE c == Chunk(s, x.sent + 1)
<1>1. DOMAIN x = Fields /\ x.sent \in Nat /\ x.out \in Seq(Bytes) /\ x.state = "DONE"
  BY Sizes DEF Shaped
<1>2. End(s, x) = ResponseLen + Chunked(x.sent)
  BY <1>1 DEF End, Begun
<1>3. Run(s, c, End(s, x), "clear") /\ Size(c) = ChunkLen
  BY <1>1, <1>2, ChunkRun
<1>4. Chunked(x.sent) \in Nat /\ Chunked(x.sent + 1) = Chunked(x.sent) + ChunkLen
  BY <1>1, ChunkedNext
<1>5. End(s, x) \in Nat /\ End(s, x) >= ResponseLen
  BY <1>2, <1>4, Sizes
<1>6. ASSUME y.state = x.state, y.sent = x.sent + 1 PROVE End(s, y) = End(s, x) + Size(c)
  <2>1. End(s, y) = ResponseLen + Chunked(x.sent + 1)
    BY <1>1, <1>6 DEF End, Begun
  <2> HIDE DEF c
  <2> QED BY <1>2, <1>3, <1>4, <2>1, Sizes
<1>7. CASE ~x.rtmpe
  <2>1. But(y, x, {"writing", "out", "sent"}) /\ y.out = x.out \o c /\ y.sent = x.sent + 1
    BY <1>1, <1>7, SendMessagePlain
  <2>2. y.eOut = x.eOut /\ y.state = x.state
    BY <2>1 DEF But, Fields
  <2>3. ~conf.encrypted
    BY <1>7 DEF Shaped
  <2>4. Run(s, c, End(s, x), "wire")
    BY <1>3, <1>5, <2>3, RunPlain
  <2>5. ~HasKeys(y)
    BY <2>3 DEF HasKeys
  <2>6. End(s, y) = End(s, x) + Size(c)
    BY <1>6, <2>1, <2>2
  <2> HIDE DEF c
  <2> QED BY <2>1, <2>2, <2>4, <2>5, <2>6, QueuesFlow
<1>8. CASE x.rtmpe
  <2>1. x.out \o c # <<>>
    <3>1. c \in Seq(Bytes) /\ Size(x.out) \in Nat
      BY <1>1, <1>3, Emptied DEF Run
    <3>2. x.out \o c \in Seq(Bytes) /\ Size(x.out \o c) > 0
      <4> HIDE DEF c
      <4> QED BY <1>1, <1>3, <3>1, Concat, Sizes
    <3> QED BY <3>2, Nonempty
  <2> PICK q : q = x.out \o c
    OBVIOUS
  <2>2. /\ But(y, x, {"writing", "eOut", "keyOut", "skip", "out", "sent"})
        /\ y.eOut = x.eOut \o RC4(q, x.keyOut, x.skip)
        /\ y.keyOut = x.keyOut + Size(q) - x.skip
        /\ y.skip = 0 /\ y.out = <<>> /\ y.sent = x.sent + 1
    <3>1. q = Pending(s, x) /\ q # <<>>
      BY <2>1 DEF Pending
    <3>2. Encrypted(SendMessage(s, x), x, q)
      BY <1>1, <1>8, <3>1, SendMessageMasked
    <3> QED BY <3>2 DEF Encrypted
  <2>3. x.skip = Size(x.out) /\ x.skip \in Nat /\ HasKeys(x) /\ x.keyOut \in Nat
    <3>1. HasKeys(x)
      BY <1>8 DEF Shaped, HasKeys
    <3> QED BY <1>1, <1>8, <3>1, Emptied DEF Held, Shaped
  <2>4. y.keyOut = x.keyOut + Size(c)
    <3>1. PICK n \in Nat, k \in Nat, m \in Nat : n = Size(x.out) /\ k = x.keyOut /\ m = Size(c)
      BY <1>3, <2>3, Sizes
    <3>2. Size(x.out \o c) = n + m
      BY <1>1, <1>3, <3>1, Concat DEF Run
    <3>3. y.keyOut = k + (n + m) - n
      BY <2>2, <2>3, <3>1, <3>2
    <3> QED BY <3>1, <3>3
  <2>5. End(s, y) = End(s, x) + Size(c)
    BY <1>6, <2>2 DEF But, Fields
  <2>6. x.keyOut = Half + End(s, x) - ResponseLen
    <3>1. x.keyOut = Half + Over(End(s, x))
      BY <2>3 DEF Flow
    <3>2. PICK n \in Nat : n = End(s, x) /\ n >= ResponseLen
      BY <1>5
    <3>3. Over(n) = n - ResponseLen
      BY <3>2, OverIs
    <3> QED BY <3>1, <3>2, <3>3, Sizes
  <2>7. conf.encrypted
    BY <1>8 DEF Shaped
  <2>8. y.eOut = x.eOut \o RC4(x.out \o c, x.keyOut, Size(x.out))
    BY <2>2, <2>3
  <2> HIDE DEF c
  <2> QED BY <1>3, <1>5, <1>8, <2>2, <2>4, <2>5, <2>6, <2>7, <2>8, EncryptsFlow
<1> QED BY <1>7, <1>8

LEMMA ProcessesShaped ==
    ASSUME NEW s \in Sides, NEW x, Shaped(s, x), x.completed, NEW b \in {"eIn", "tcpIn"},
           x.rtmpe \/ b = "tcpIn", NEW k \in 0..Size(x[b]), NEW y, Processed(y, x, b, k)
    PROVE  Shaped(s, y)
<1>1. x.got \in Seq(Bytes) /\ x[b] \in Seq(Bytes)
  BY DEF Shaped
<1>2. y[b] \in Seq(Bytes)
  BY <1>1, Cuts DEF Processed
<1>3. SubSeq(x[b], 1, k) \in Seq(Bytes)
  BY <1>1, Cuts
<1>4. y.got \in Seq(Bytes)
  BY <1>1, <1>3, Concat DEF Processed
<1>5. But(y, x, {b, "midChunk", "got"})
  BY DEF Processed
<1>6. CASE b = "eIn"
  BY <1>2, <1>4, <1>5, <1>6 DEF But, Fields, Shaped, HasKeys
<1>7. CASE b = "tcpIn"
  BY <1>2, <1>4, <1>5, <1>7 DEF But, Fields, Shaped, HasKeys
<1> QED BY <1>6, <1>7

\* y is x after RTMPE has decrypted what the transport has.
Decrypted(y, x) ==
  /\ But(y, x, {"eIn", "keyIn", "tcpIn"})
  /\ y.eIn = x.eIn \o RC4(x.tcpIn, x.keyIn, 0)
  /\ y.keyIn = x.keyIn + Size(x.tcpIn) /\ y.tcpIn = <<>>

LEMMA DecryptsShaped ==
    ASSUME NEW s \in Sides, NEW x, Shaped(s, x), x.rtmpe, NEW y, Decrypted(y, x)
    PROVE  Shaped(s, y)
<1>1. x.eIn \in Seq(Bytes) /\ x.tcpIn \in Seq(Bytes) /\ HasKeys(x) /\ x.keyIn \in Nat
  BY DEF Shaped, HasKeys
<1>2. RC4(x.tcpIn, x.keyIn, 0) \in Seq(Bytes)
  BY <1>1, RC4Type
<1>3. y.eIn \in Seq(Bytes)
  BY <1>1, <1>2, Concat DEF Decrypted
<1>4. y.keyIn \in Nat
  <2>1. Size(x.tcpIn) \in Nat
    BY <1>1, Emptied
  <2>2. y.keyIn = x.keyIn + Size(x.tcpIn)
    BY DEF Decrypted
  <2> QED BY <1>1, <2>1, <2>2
<1>5. But(y, x, {"eIn", "keyIn", "tcpIn"}) /\ y.tcpIn = <<>> /\ <<>> \in Seq(Bytes)
  BY DEF Decrypted
<1> QED BY <1>1, <1>3, <1>4, <1>5 DEF But, Fields, Shaped, HasKeys

\* Input once the handshake is over.
LEMMA ReceiveRTMPE ==
    ASSUME NEW s \in Sides, NEW x, Formed(s, x), x.rtmpe, NEW y, y = Receive(s, x)
    PROVE  \E d : Decrypted(d, x) /\ \E k \in 0..Size(d.eIn) : Processed(y, d, "eIn", k)
<1> DEFINE d == [x EXCEPT !.eIn = @ \o RC4(x.tcpIn, x.keyIn, 0), !.keyIn = @ + Len(x.tcpIn),
                          !.tcpIn = <<>>]
<1>1. DOMAIN x = Fields /\ x.completed
  BY DEF Formed, Shaped
<1>2. y = SignalInputData(s, d, "eIn")
  BY DEF Receive
<1>3. Decrypted(d, x)
  BY <1>1 DEF Decrypted, But, Fields, Size
<1> HIDE DEF d
<1>4. d.completed /\ DOMAIN d = Fields
  BY <1>1, <1>3 DEF Decrypted, But, Fields
<1>5. y = ProcessBytes(d, "eIn")
  BY <1>2, <1>4 DEF SignalInputData
<1>6. Shaped(s, d)
  BY <1>3, DecryptsShaped DEF Formed
<1>7. d["eIn"] \in Seq(Bytes)
  BY <1>6 DEF Shaped
<1>8. \E k \in 0..Size(d["eIn"]) : Processed(ProcessBytes(d, "eIn"), d, "eIn", k)
  BY <1>4, <1>7, ProcessTakes
<1> QED BY <1>3, <1>5, <1>8

LEMMA ReceivePlain ==
    ASSUME NEW s \in Sides, NEW x, Formed(s, x), x.completed, ~x.rtmpe, NEW y, y = Receive(s, x)
    PROVE  \E k \in 0..Size(x.tcpIn) : Processed(y, x, "tcpIn", k)
<1>1. DOMAIN x = Fields /\ x["tcpIn"] \in Seq(Bytes)
  BY DEF Formed, Shaped
<1>2. y = ProcessBytes(x, "tcpIn")
  BY DEF Receive, SignalInputData
<1>3. \E k \in 0..Size(x["tcpIn"]) : Processed(ProcessBytes(x, "tcpIn"), x, "tcpIn", k)
  BY <1>1, ProcessTakes
<1> QED BY <1>2, <1>3

LEMMA ReceiveFormed ==
    ASSUME NEW s \in Sides, NEW x, Formed(s, x), x.completed, NEW y, y = Receive(s, x)
    PROVE  Formed(s, y) /\ y.completed
<1>1. CASE x.rtmpe
  <2>1. PICK d : Decrypted(d, x) /\ \E k \in 0..Size(d.eIn) : Processed(y, d, "eIn", k)
    BY <1>1, ReceiveRTMPE
  <2>2. PICK k \in 0..Size(d.eIn) : Processed(y, d, "eIn", k)
    BY <2>1
  <2>3. Shaped(s, d) /\ d.completed /\ d.rtmpe /\ d.skip = 0 /\ d.out = <<>>
    BY <1>1, <2>1, DecryptsShaped DEF Formed, Decrypted, But, Fields
  <2>4. Shaped(s, y)
    BY <2>2, <2>3, ProcessesShaped
  <2> QED BY <2>2, <2>3, <2>4 DEF Formed, Processed, But, Fields
<1>2. CASE ~x.rtmpe
  <2>1. PICK k \in 0..Size(x.tcpIn) : Processed(y, x, "tcpIn", k)
    BY <1>2, ReceivePlain
  <2>2. Shaped(s, y)
    BY <2>1, ProcessesShaped DEF Formed
  <2> QED BY <1>2, <2>1, <2>2 DEF Formed, Processed, But, Fields
<1> QED BY <1>1, <1>2

LEMMA DecryptedFlow ==
    ASSUME NEW s, NEW x, NEW y, NEW w, Flow(s, x, y, w), y.state = "DONE", conf.encrypted,
           NEW y1, Decrypted(y1, y)
    PROVE  Flow(s, x, y1, w)
<1>1. y1.got = y.got /\ y1.state = y.state
  BY DEF Decrypted, But, Fields
<1>2. /\ y1.eIn = y.eIn \o RC4(y.tcpIn, y.keyIn, 0) /\ y1.tcpIn = <<>>
      /\ y1.keyIn = y.keyIn + Size(y.tcpIn)
  BY DEF Decrypted
<1> QED BY <1>1, <1>2, DecryptsFlow

LEMMA ProcessedFlow ==
    ASSUME NEW s, NEW x, NEW y, NEW w, Flow(s, x, y, w), y.state = "DONE",
           NEW k \in 0..Size(y.eIn), NEW y1, Processed(y1, y, "eIn", k)
    PROVE  Flow(s, x, y1, w)
<1>1. y1.state = y.state /\ y1.keyIn = y.keyIn /\ y1.tcpIn = y.tcpIn
  BY DEF Processed, But, Fields
<1>2. y1.eIn = Ignore(y.eIn, k) /\ y1.got = y.got \o SubSeq(y.eIn, 1, k)
  BY DEF Processed
<1> QED BY <1>1, <1>2, ProcessesFlow

LEMMA ProcessedPlainFlow ==
    ASSUME NEW s, NEW x, NEW y, NEW w, Flow(s, x, y, w), y.state = "DONE", ~conf.encrypted,
           y.eIn = <<>>, NEW k \in 0..Size(y.tcpIn), NEW y1, Processed(y1, y, "tcpIn", k)
    PROVE  Flow(s, x, y1, w)
<1>1. y1.state = y.state /\ y1.eIn = <<>>
  BY DEF Processed, But, Fields
<1>2. y1.tcpIn = Ignore(y.tcpIn, k) /\ y1.got = y.got \o SubSeq(y.tcpIn, 1, k)
  BY DEF Processed
<1> QED BY <1>1, <1>2, ProcessesPlainFlow

\* x has what has arrived, in its transport's buffer.
LEMMA ReceiveFlows ==
    ASSUME NEW s \in Sides, NEW x, NEW z, NEW win, NEW wout, Formed(s, x), x.completed,
           Flow(Peer(s), z, x, win), Flow(s, x, z, wout), NEW y, y = Receive(s, x)
    PROVE  Flow(Peer(s), z, y, win) /\ Flow(s, y, z, wout) /\ Settled(y)
<1>1. x.state = "DONE" /\ DOMAIN x = Fields
  BY DEF Formed, Shaped
<1>2. CASE x.rtmpe
  <2>1. PICK d : Decrypted(d, x) /\ \E k \in 0..Size(d.eIn) : Processed(y, d, "eIn", k)
    BY <1>2, ReceiveRTMPE
  <2>2. PICK k \in 0..Size(d.eIn) : Processed(y, d, "eIn", k)
    BY <2>1
  <2>3. conf.encrypted
    BY <1>2 DEF Formed, Shaped
  <2>4. Flow(Peer(s), z, d, win)
    BY <1>1, <2>1, <2>3, DecryptedFlow
  <2>5. /\ d.state = "DONE" /\ d.eOut = x.eOut /\ d.out = x.out /\ d.sent = x.sent
        /\ d.keyOut = x.keyOut /\ d.tcpIn = <<>>
    BY <1>1, <2>1 DEF Decrypted, But, Fields
  <2>6. /\ y.state = d.state /\ y.eOut = d.eOut /\ y.out = d.out /\ y.sent = d.sent
        /\ y.keyOut = d.keyOut /\ y.tcpIn = d.tcpIn
    BY <2>2 DEF Processed, But, Fields
  <2>7. Flow(Peer(s), z, y, win)
    BY <2>2, <2>4, <2>5, ProcessedFlow
  <2>8. Flow(s, y, z, wout)
    BY <1>1, <2>5, <2>6, FlowAlike
  <2> QED BY <2>5, <2>6, <2>7, <2>8 DEF Settled
<1>3. CASE ~x.rtmpe
  <2>1. PICK k \in 0..Size(x.tcpIn) : Processed(y, x, "tcpIn", k)
    BY <1>3, ReceivePlain
  <2>2. ~conf.encrypted /\ x.eIn = <<>>
    BY <1>3 DEF Formed, Shaped
  <2>3. /\ y.state = x.state /\ y.eOut = x.eOut /\ y.rtmpe = x.rtmpe
        /\ y.out = x.out /\ y.sent = x.sent /\ y.keyOut = x.keyOut
    BY <2>1 DEF Processed, But, Fields
  <2>4. Flow(Peer(s), z, y, win)
    BY <1>1, <2>1, <2>2, ProcessedPlainFlow
  <2>5. Flow(s, y, z, wout)
    BY <2>3, FlowAlike
  <2> QED BY <1>3, <2>3, <2>4, <2>5 DEF Settled
<1> QED BY <1>2, <1>3

-----------------------------------------------------------------------------
(* The steps of the handshake.                                             *)

LEMMA Assoc ==
    ASSUME NEW u \in Seq(Bytes), NEW v \in Seq(Bytes), NEW w \in Seq(Bytes)
    PROVE  (u \o v) \o w = u \o (v \o w)
OBVIOUS

LEMMA EmptyConcat == ASSUME NEW q \in Seq(Bytes) PROVE <<>> \o q = q /\ <<>> \in Seq(Bytes)
OBVIOUS

\* A step that changes neither what is sent nor what is taken.
LEMMA FlowSame ==
    ASSUME NEW s, NEW x, NEW y, NEW w, Flow(s, x, y, w), NEW x1, NEW y1,
           x1.eOut = x.eOut, x1.out = x.out, x1.sent = x.sent, x1.keyOut = x.keyOut,
           Begun(s, x1) = Begun(s, x), HasKeys(x1) => HasKeys(x),
           y1.got = y.got, y1.eIn = y.eIn, y1.tcpIn = y.tcpIn, y1.keyIn = y.keyIn,
           Taken(y1) = Taken(y), HasKeys(y1) => HasKeys(y)
    PROVE  Flow(s, x1, y1, w)
<1>1. End(s, x1) = End(s, x) /\ Place(y1) = Place(y)
  BY DEF End, Place
<1> QED BY <1>1 DEF Flow

\* The request, and the parts of the answer, as they are written.
Opening(s) == Part(Type(conf.encrypted), 1) \o Part(FirstPart(s), Half)
Closing(s) == Part(SecondPart(s), Half)

LEMMA HeadWire ==
    ASSUME NEW s \in Sides, NEW q, q = Opening(s), NEW r, r = Closing(s)
    PROVE  /\ Run(s, q, 0, "wire") /\ Size(q) = RequestLen /\ q \in Seq(Bytes)
           /\ Run(s, r, RequestLen, "wire") /\ Size(r) = Half /\ r \in Seq(Bytes)
           /\ Run(s, q \o r, 0, "wire") /\ Size(q \o r) = ResponseLen
<1> PICK a, b : a = Part(Type(conf.encrypted), 1) /\ b = Part(FirstPart(s), Half)
  OBVIOUS
<1>1. /\ Run(s, a, 0, "clear") /\ Size(a) = 1 /\ Run(s, b, 1, "clear") /\ Size(b) = Half
      /\ Run(s, r, RequestLen, "clear") /\ Size(r) = Half
  BY HeadRun DEF Closing
<1>2. Run(s, a \o b, 0, "clear") /\ Size(a \o b) = 1 + Half
  <2>1. 0 \in Nat /\ Run(s, b, 0 + Size(a), "clear")
    BY <1>1
  <2> QED BY <1>1, <2>1, RunJoin
<1>3. q = a \o b
  BY DEF Opening
<1>4. Run(s, q, 0, "clear") /\ Size(q) = RequestLen
  BY <1>2, <1>3, Sizes
<1>5. 0 + Size(q) <= ResponseLen /\ RequestLen + Size(r) <= ResponseLen /\ RequestLen \in Nat
  BY <1>1, <1>4, Sizes
<1>6. Run(s, q, 0, "wire") /\ Run(s, r, RequestLen, "wire")
  BY <1>1, <1>4, <1>5, RunPlain
<1>7. q \in Seq(Bytes) /\ r \in Seq(Bytes)
  BY <1>6 DEF Run
<1>8. Run(s, q \o r, 0, "wire") /\ Size(q \o r) = ResponseLen
  <2>1. 0 + Size(q) = RequestLen /\ 0 \in Nat
    BY <1>4, Sizes
  <2>2. Run(s, q \o r, 0, "wire") /\ Size(q \o r) = Size(q) + Size(r)
    BY <1>6, <2>1, RunJoin
  <2> QED BY <1>1, <1>4, <2>2, Sizes
<1> QED BY <1>1, <1>4, <1>6, <1>7, <1>8

LEMMA Ends ==
    ASSUME NEW s \in Sides, NEW x, Formed(s, x)
    PROVE  /\ ~x.completed => End(s, x) = Begun(s, x)
           /\ x.state = "NOT_INITIALIZED" => End(s, x) = 0
           /\ x.state = "CLIENT_REQUEST_SENT" => End(s, x) = RequestLen
           /\ x.state = "SERVER_RESPONSE_SENT" => End(s, x) = ResponseLen
           /\ ~x.completed => End(s, x) <= ResponseLen /\ Place(x) = Taken(x)
           /\ s = "client" /\ ~x.completed => End(s, x) <= RequestLen
<1>1. ASSUME ~x.completed PROVE End(s, x) = Begun(s, x) /\ Place(x) = Taken(x)
  <2>1. x.sent = 0 /\ x.got = <<>>
    BY <1>1 DEF Formed, Shaped
  <2>2. Chunked(0) = 0 /\ Size(<<>>) = 0
    BY ChunkedNext, SizeEmpty
  <2>3. Begun(s, x) \in Nat /\ Taken(x) \in Nat
    BY Sizes DEF Begun, Taken
  <2> QED BY <2>1, <2>2, <2>3 DEF End, Place
<1>2. x.state # "DONE" <=> ~x.completed
  BY DEF Formed, Shaped
<1>3. x.state = "NOT_INITIALIZED" => Begun(s, x) = 0
  BY DEF Begun
<1>4. x.state = "CLIENT_REQUEST_SENT" => Begun(s, x) = RequestLen
  BY DEF Begun
<1>5. x.state = "SERVER_RESPONSE_SENT" => Begun(s, x) = ResponseLen
  BY DEF Begun
<1>6. s = "client" /\ ~x.completed => x.state \in {"NOT_INITIALIZED", "CLIENT_REQUEST_SENT"}
  BY <1>2 DEF Formed, Shaped, Waiting
<1>7. x.state \in {"NOT_INITIALIZED", "CLIENT_REQUEST_SENT", "SERVER_RESPONSE_SENT", "DONE"}
  BY DEF Formed, Shaped, Waiting
<1> QED BY <1>1, <1>2, <1>3, <1>4, <1>5, <1>6, <1>7, Sizes

\* The server finishes after the client, and a side that is not done has sent no more
\* than its answer.
LEMMA Order ==
    ASSUME NEW c, NEW v, NEW wc, NEW wv, Formed("client", c), Formed("server", v),
           Flow("client", c, v, wv), Flow("server", v, c, wc)
    PROVE  /\ v.completed => c.completed
           /\ v.state = "SERVER_RESPONSE_SENT" /\ Size(v.tcpIn) >= Half => c.completed
           /\ v.state = "NOT_INITIALIZED" => ~c.completed
           /\ c.completed /\ ~v.completed => v.out = <<>> /\ v.eOut = <<>>
<1>1. "client" \in Sides /\ "server" \in Sides
  BY Kinds
<1>2. /\ End("client", c) \in Nat /\ Place(v) \in Nat /\ Size(v.tcpIn) \in Nat
      /\ End("client", c) >= Place(v) + Size(v.tcpIn)
  <2>1. /\ Place(v) \in Nat /\ Size(v.eIn) \in Nat /\ Size(v.tcpIn) \in Nat /\ Size(wv) \in Nat
        /\ Size(c.eOut) \in Nat /\ Size(c.out) \in Nat /\ End("client", c) \in Nat
        /\ End("client", c) = Place(v) + Size(v.eIn) + Size(v.tcpIn) + Size(wv) + Size(c.eOut)
                                + Size(c.out)
    BY Places
  <2> QED BY <2>1
<1>3. /\ End("server", v) \in Nat /\ Place(c) \in Nat
      /\ Size(v.out) \in Nat /\ Size(v.eOut) \in Nat
      /\ End("server", v) >= Place(c) + Size(v.out) + Size(v.eOut)
  <2>1. /\ Place(c) \in Nat /\ Size(c.eIn) \in Nat /\ Size(c.tcpIn) \in Nat /\ Size(wc) \in Nat
        /\ Size(v.eOut) \in Nat /\ Size(v.out) \in Nat /\ End("server", v) \in Nat
        /\ End("server", v) = Place(c) + Size(c.eIn) + Size(c.tcpIn) + Size(wc) + Size(v.eOut)
                                + Size(v.out)
    BY Places
  <2> QED BY <2>1
<1>4. ~c.completed => End("client", c) <= RequestLen
  BY <1>1, Ends
<1>5. ASSUME c.completed PROVE Place(c) >= ResponseLen
  <2>1. Size(c.got) \in Nat /\ c.state = "DONE"
    BY <1>5, Places DEF Formed, Shaped
  <2> QED BY <2>1, Sizes DEF Place, Taken
<1>6. ASSUME v.completed PROVE Place(v) >= ResponseLen
  <2>1. Size(v.got) \in Nat /\ v.state = "DONE"
    BY <1>6, Places DEF Formed, Shaped
  <2> QED BY <2>1, Sizes DEF Place, Taken
<1>7. v.completed => c.completed
  BY <1>2, <1>4, <1>6, Sizes
<1>8. ASSUME v.state = "SERVER_RESPONSE_SENT", Size(v.tcpIn) >= Half PROVE c.completed
  <2>1. ~v.completed
    BY <1>8 DEF Formed, Shaped
  <2>2. Place(v) = RequestLen
    BY <1>1, <1>8, <2>1, Ends DEF Taken
  <2> QED BY <1>2, <1>4, <1>8, <2>2, Sizes
<1>9. ASSUME v.state = "NOT_INITIALIZED", c.completed PROVE FALSE
  <2>1. End("server", v) = 0
    BY <1>1, <1>9, Ends
  <2> QED BY <1>3, <1>5, <1>9, <2>1, Sizes
<1>10. ASSUME c.completed, ~v.completed PROVE v.out = <<>> /\ v.eOut = <<>>
  <2>1. End("server", v) <= ResponseLen
    BY <1>1, <1>10, Ends
  <2>2. Size(v.out) = 0 /\ Size(v.eOut) = 0
    BY <1>3, <1>5, <1>10, <2>1, Sizes
  <2>3. v.out \in Seq(Bytes) /\ v.eOut \in Seq(Bytes)
    BY DEF Formed, Shaped
  <2> QED BY <2>2, <2>3, Emptied
<1> QED BY <1>7, <1>8, <1>9, <1>10

\* PerformHandshakeStage1.
LEMMA ClientRequestsStep ==
    ASSUME NEW x, Formed("client", x), x.state = "NOT_INITIALIZED", NEW z, NEW win, NEW wout,
           Flow("server", z, x, win), Flow("client", x, z, wout), NEW y, y = ClientRequests(x)
    PROVE  /\ Formed("client", y) /\ ~y.completed
           /\ Flow("server", z, y, win) /\ Flow("client", y, z, wout)
<1> DEFINE a == Part(Type(conf.encrypted), 1)
           b == Part(IF conf.digest THEN "C1 with digest" ELSE "C1", Half)
           u == [x EXCEPT !.out = @ \o a \o b, !.state = "CLIENT_REQUEST_SENT"]
<1>1. y = EnqueueForOutbound(u)
  BY DEF ClientRequests
<1>2. DOMAIN x = Fields /\ ~x.completed /\ ~x.rtmpe /\ x.out \in Seq(Bytes)
  BY DEF Formed, Shaped
<1>3. But(u, x, {"out", "state"}) /\ u.out = (x.out \o a) \o b /\ u.state = "CLIENT_REQUEST_SENT"
  BY <1>2 DEF But, Fields
<1> PICK q : q = a \o b
  OBVIOUS
<1>4. /\ a \in Seq(Bytes) /\ b \in Seq(Bytes)
      /\ Run("client", q, 0, "wire") /\ Size(q) = RequestLen /\ q \in Seq(Bytes)
  <2>1. b = Part(FirstPart("client"), Half)
    BY DEF FirstPart
  <2>2. Run("client", q, 0, "wire") /\ Size(q) = RequestLen /\ q \in Seq(Bytes)
    <3>1. q = Opening("client")
      BY <2>1 DEF Opening
    <3> QED BY <3>1, Kinds, HeadWire
  <2>3. a \in Seq(Bytes) /\ b \in Seq(Bytes)
    BY <2>1, Kinds, HeadRun DEF Run
  <2> QED BY <2>2, <2>3
<1> HIDE DEF a, b, u
<1>5. (x.out \o a) \o b = x.out \o q /\ x.out \o q \in Seq(Bytes)
  BY <1>2, <1>4, Assoc, Concat
<1>6. DOMAIN u = Fields /\ ~u.rtmpe
  BY <1>2, <1>3 DEF But, Fields
<1>7. But(y, u, {"writing"})
  BY <1>1, <1>6, EnqueuePlain
<1>8. /\ But(y, x, {"out", "state", "writing"}) /\ y.out = x.out \o q
      /\ y.state = "CLIENT_REQUEST_SENT"
  BY <1>3, <1>5, <1>7 DEF But, Fields
<1>9. ~HasKeys(x) /\ ~HasKeys(y)
  BY <1>8 DEF HasKeys
<1>10. Formed("client", y)
  BY <1>2, <1>5, <1>8, <1>9 DEF Formed, Shaped, But, Fields, Waiting
<1>11. /\ y.eOut = x.eOut /\ y.sent = x.sent /\ y.keyOut = x.keyOut /\ y.got = x.got
       /\ y.eIn = x.eIn /\ y.tcpIn = x.tcpIn /\ y.keyIn = x.keyIn /\ ~y.completed
  BY <1>2, <1>8 DEF But, Fields
<1>12. Taken(x) = 0 /\ Taken(y) = 0
  BY <1>8 DEF Taken
<1>13. Flow("server", z, y, win)
  BY <1>9, <1>11, <1>12, FlowSame
<1>14. End("client", x) = 0 /\ End("client", y) = RequestLen
  BY <1>8, <1>10, Kinds, Ends
<1>15. End("client", y) = End("client", x) + Size(q) /\ Run("client", q, End("client", x), "wire")
  BY <1>4, <1>14, Sizes
<1>16. Flow("client", y, z, wout)
  BY <1>8, <1>9, <1>11, <1>15, QueuesFlow
<1> QED BY <1>10, <1>11, <1>13, <1>16

\* The server answers: the two bytes it looks at are the first ones of the request.
LEMMA Heading ==
    ASSUME NEW x, Formed("server", x), x.state = "NOT_INITIALIZED", NEW z, NEW win,
           Formed("client", z), ~z.completed, Flow("client", z, x, win),
           Size(x.tcpIn) >= RequestLen
    PROVE  /\ x.tcpIn[1].part = Type(conf.encrypted) /\ x.tcpIn[2].part = FirstPart("client")
           /\ Ignore(x.tcpIn, RequestLen) = <<>> /\ Size(x.tcpIn) = RequestLen
<1>1. /\ x.eIn = <<>> /\ x.got = <<>> /\ x.tcpIn \in Seq(Bytes) /\ Taken(x) = 0
      /\ "client" \in Sides /\ ~x.completed
  BY Kinds DEF Formed, Shaped, Taken
<1>2. Place(x) = 0
  BY <1>1, SizeEmpty DEF Place
<1>3. Size(x.tcpIn) = RequestLen
  <2>1. /\ Place(x) \in Nat /\ Size(x.eIn) \in Nat /\ Size(x.tcpIn) \in Nat /\ Size(win) \in Nat
        /\ Size(z.eOut) \in Nat /\ Size(z.out) \in Nat /\ End("client", z) \in Nat
        /\ End("client", z) = Place(x) + Size(x.eIn) + Size(x.tcpIn) + Size(win) + Size(z.eOut)
                                + Size(z.out)
    BY Places
  <2>2. End("client", z) <= RequestLen
    BY <1>1, Ends
  <2> QED BY <2>1, <2>2, Sizes
<1>4. Run("client", x.tcpIn, 0, "wire")
  <2>1. Stream("client", Place(x), x.eIn, x.tcpIn, win, z.eOut, z.out, End("client", z))
    BY Places
  <2>2. 0 + Size(<<>>) = 0
    BY SizeEmpty
  <2> QED BY <1>1, <1>2, <2>1, <2>2 DEF Stream
<1>5. 1 \in 1..Len(x.tcpIn) /\ 2 \in 1..Len(x.tcpIn)
  <2>1. Len(x.tcpIn) = RequestLen
    BY <1>3 DEF Size
  <2> QED BY <2>1, Sizes
<1>6. x.tcpIn[1] = ByteAt("client", 1, "wire") /\ x.tcpIn[2] = ByteAt("client", 2, "wire")
  <2>1. /\ x.tcpIn[1] = ByteAt("client", 0 + 1, "wire")
        /\ x.tcpIn[2] = ByteAt("client", 0 + 2, "wire")
    BY <1>4, <1>5 DEF Run, Size
  <2>2. 0 + 1 = 1 /\ 0 + 2 = 2
    OBVIOUS
  <2> QED BY <2>1, <2>2
<1>7. PartAt("client", 1) = Type(conf.encrypted) /\ PartAt("client", 2) = FirstPart("client")
  BY Sizes DEF PartAt
<1>8. x.tcpIn[1].part = Type(conf.encrypted) /\ x.tcpIn[2].part = FirstPart("client")
  BY <1>6, <1>7, ByteIs DEF ByteAt
<1>9. Ignore(x.tcpIn, RequestLen) = <<>>
  <2>1. RequestLen \in 0..Size(x.tcpIn)
    BY <1>3, Sizes
  <2>2. /\ Ignore(x.tcpIn, RequestLen) \in Seq(Bytes)
        /\ Size(Ignore(x.tcpIn, RequestLen)) = Size(x.tcpIn) - RequestLen
    BY <1>1, <2>1, Cuts
  <2> QED BY <1>3, <2>2, Emptied, Sizes
<1> QED BY <1>3, <1>8, <1>9

LEMMA ServerRespondsStep ==
    ASSUME NEW x, Formed("server", x), x.state = "NOT_INITIALIZED", NEW z, NEW win, NEW wout,
           Formed("client", z), ~z.completed, Size(x.tcpIn) >= RequestLen,
           Flow("client", z, x, win), Flow("server", x, z, wout), NEW y, y = ServerResponds(x)
    PROVE  /\ Formed("server", y) /\ ~y.completed
           /\ Flow("client", z, y, win) /\ Flow("server", y, z, wout)
<1> DEFINE a == Part(Type(conf.encrypted), 1)
           b == Part(FirstPart("server"), Half)
           c == Part("S2", Half)
           key(k) == IF conf.encrypted THEN Half ELSE k
           u == [x EXCEPT !.out = @ \o a \o b \o c, !.tcpIn = <<>>, !.keyIn = key(@),
                          !.keyOut = key(@), !.state = "SERVER_RESPONSE_SENT"]
<1>1. y = EnqueueForOutbound(u)
  <2> DEFINE encrypted == x.tcpIn[1].part = "6"
             valid == x.tcpIn[2].part = "C1 with digest"
             first == IF valid THEN "S1 with digest" ELSE "S1"
  <2>1. encrypted <=> conf.encrypted
    BY Heading DEF Type
  <2>2. valid <=> conf.digest
    BY Heading DEF FirstPart
  <2>3. Type(encrypted) = Type(conf.encrypted) /\ first = FirstPart("server")
    BY <2>1, <2>2 DEF Type, FirstPart
  <2>4. (IF valid THEN <<>> ELSE Ignore(x.tcpIn, RequestLen)) = <<>>
    BY Heading
  <2>5. ServerResponds(x) =
          EnqueueForOutbound(
            [x EXCEPT !.out = @ \o Part(Type(encrypted), 1) \o Part(first, Half) \o Part("S2", Half),
                      !.tcpIn = IF valid THEN <<>> ELSE Ignore(@, RequestLen),
                      !.keyIn = IF encrypted THEN Half ELSE @,
                      !.keyOut = IF encrypted THEN Half ELSE @,
                      !.state = "SERVER_RESPONSE_SENT"])
    BY DEF ServerResponds
  <2> HIDE DEF encrypted, valid, first
  <2>6. (IF encrypted THEN Half ELSE x.keyIn) = key(x.keyIn)
        /\ (IF encrypted THEN Half ELSE x.keyOut) = key(x.keyOut)
    BY <2>1
  <2> QED BY <2>3, <2>4, <2>5, <2>6
<1>2. DOMAIN x = Fields /\ ~x.completed /\ ~x.rtmpe /\ x.out \in Seq(Bytes)
  BY DEF Formed, Shaped
<1>3. /\ But(u, x, {"out", "tcpIn", "keyIn", "keyOut", "state"})
      /\ u.out = ((x.out \o a) \o b) \o c /\ u.tcpIn = <<>>
      /\ u.keyIn = key(x.keyIn) /\ u.keyOut = key(x.keyOut) /\ u.state = "SERVER_RESPONSE_SENT"
  BY <1>2 DEF But, Fields
<1> PICK p : p = a \o b
  OBVIOUS
<1> PICK q : q = p \o c
  OBVIOUS
<1>4. /\ a \in Seq(Bytes) /\ b \in Seq(Bytes) /\ c \in Seq(Bytes) /\ p \in Seq(Bytes)
      /\ Run("server", q, 0, "wire") /\ Size(q) = ResponseLen /\ q \in Seq(Bytes)
  <2>1. c = Part(SecondPart("server"), Half)
    BY DEF SecondPart
  <2>2. /\ Run("server", q, 0, "wire") /\ Size(q) = ResponseLen
        /\ p \in Seq(Bytes) /\ c \in Seq(Bytes)
    <3>1. PICK r : r = Closing("server")
      OBVIOUS
    <3>2. p = Opening("server")
      BY DEF Opening
    <3>3. c = r /\ q = p \o r
      BY <2>1, <3>1 DEF Closing
    <3> HIDE DEF a, b, c
    <3>4. /\ Run("server", p \o r, 0, "wire") /\ Size(p \o r) = ResponseLen
          /\ p \in Seq(Bytes) /\ r \in Seq(Bytes)
      BY <3>1, <3>2, Kinds, HeadWire
    <3> QED BY <3>3, <3>4
  <2>3. a \in Seq(Bytes) /\ b \in Seq(Bytes)
    BY Kinds, HeadRun DEF Run
  <2> QED BY <2>2, <2>3 DEF Run
<1> HIDE DEF a, b, c, u
<1>5. ((x.out \o a) \o b) \o c = x.out \o q /\ x.out \o q \in Seq(Bytes)
  <2>1. (x.out \o a) \o b = x.out \o p
    <3>1. x.out \in Seq(Bytes) /\ a \in Seq(Bytes) /\ b \in Seq(Bytes)
      BY <1>2, <1>4
    <3>2. (x.out \o a) \o b = x.out \o (a \o b)
      BY <3>1, Assoc
    <3> QED BY <3>2
  <2>2. (x.out \o p) \o c = x.out \o q
    <3>1. x.out \in Seq(Bytes) /\ p \in Seq(Bytes) /\ c \in Seq(Bytes)
      BY <1>2, <1>4
    <3>2. (x.out \o p) \o c = x.out \o (p \o c)
      BY <3>1, Assoc
    <3> QED BY <3>2
  <2> QED BY <1>2, <1>4, <2>1, <2>2, Concat
<1>6. DOMAIN u = Fields /\ ~u.rtmpe
  BY <1>2, <1>3 DEF But, Fields
<1>7. But(y, u, {"writing"})
  BY <1>1, <1>6, EnqueuePlain
<1>8. /\ But(y, x, {"out", "tcpIn", "keyIn", "keyOut", "state", "writing"})
      /\ y.out = x.out \o q /\ y.tcpIn = <<>> /\ y.keyIn = key(x.keyIn)
      /\ y.keyOut = key(x.keyOut) /\ y.state = "SERVER_RESPONSE_SENT"
  BY <1>3, <1>5, <1>7 DEF But, Fields
<1>9. ~HasKeys(x) /\ (HasKeys(y) <=> conf.encrypted)
  BY <1>8 DEF HasKeys
<1>10. x.keyIn = -1 /\ x.keyOut = -1
  BY <1>9 DEF Formed, Shaped
<1>11. IF HasKeys(y) THEN y.keyIn = Half /\ y.keyOut = Half ELSE y.keyIn = -1 /\ y.keyOut = -1
  BY <1>8, <1>9, <1>10
<1>12. IF HasKeys(y) THEN y.keyIn \in Nat /\ y.keyOut \in Nat ELSE y.keyIn = -1 /\ y.keyOut = -1
  BY <1>11, Sizes
<1>13. <<>> \in Seq(Bytes)
  OBVIOUS
<1>14. Formed("server", y)
  BY <1>2, <1>5, <1>8, <1>12, <1>13 DEF Formed, Shaped, But, Fields, Waiting
<1>15. /\ y.eOut = x.eOut /\ y.sent = x.sent /\ y.got = x.got /\ y.eIn = x.eIn /\ ~y.completed
       /\ x.got = <<>> /\ x.eIn = <<>>
  BY <1>2, <1>8 DEF But, Fields, Formed, Shaped
<1>16. Flow("client", z, y, win)
  <2>1. Taken(y) = RequestLen /\ Taken(x) = 0
    BY <1>8 DEF Taken
  <2>2. Taken(y) = Taken(x) + RequestLen
    BY <2>1, Sizes
  <2>3. y.tcpIn = Ignore(x.tcpIn, RequestLen) /\ RequestLen \in 0..Size(x.tcpIn)
    BY <1>8, Heading, Sizes
  <2> QED BY <1>11, <1>15, <2>2, <2>3, TakesFlow
<1>17. Flow("server", y, z, wout)
  <2>1. End("server", x) = 0 /\ End("server", y) = ResponseLen
    BY <1>8, <1>14, Kinds, Ends
  <2>2. /\ End("server", y) = End("server", x) + Size(q)
        /\ Run("server", q, End("server", x), "wire")
    BY <1>4, <2>1, Sizes
  <2>3. HasKeys(y) => y.keyOut = Half + Over(End("server", y))
    <3>1. Over(ResponseLen) = 0
      BY Sizes, OverIs
    <3> QED BY <1>11, <2>1, <3>1, Sizes
  <2> QED BY <1>8, <1>15, <2>2, <2>3, QueuesFlow
<1> QED BY <1>14, <1>15, <1>16, <1>17

\* C2 is taken, RTMPE inserted, and what came with C2 is processed.
LEMMA ServerFinishesStep ==
    ASSUME NEW x, Formed("server", x), x.state = "SERVER_RESPONSE_SENT", NEW z, NEW win, NEW wout,
           Formed("client", z), Size(x.tcpIn) >= ReplyLen,
           Flow("client", z, x, win), Flow("server", x, z, wout),
           NEW y, y = ProcessBytes(ServerFinishes(x), "tcpIn")
    PROVE  /\ Formed("server", y) /\ y.completed /\ z.completed
           /\ Settled(y) => Flow("client", z, y, win) /\ Flow("server", y, z, wout)
<1> DEFINE rest == Ignore(x.tcpIn, ReplyLen)
           f == ServerFinishes(x)
           done == [x EXCEPT !.tcpIn = rest, !.completed = TRUE, !.state = "DONE"]
           key == x.keyIn + Len(rest)
           masked == [done EXCEPT !.rtmpe = TRUE, !.tcpIn = RC4(rest, x.keyIn, 0), !.keyIn = key]
<1>1. /\ DOMAIN x = Fields /\ ~x.completed /\ ~x.rtmpe /\ x.tcpIn \in Seq(Bytes)
      /\ x.eIn = <<>> /\ x.eOut = <<>> /\ x.got = <<>> /\ x.skip = 0
  BY DEF Formed, Shaped
<1>2. z.completed /\ x.out = <<>>
  BY <1>1, Order, Sizes
<1>3. /\ rest \in Seq(Bytes) /\ ReplyLen \in 0..Size(x.tcpIn) /\ ReplyLen = Half
      /\ Size(rest) \in Nat /\ Len(rest) = Size(rest)
  <2>1. Size(x.tcpIn) \in Nat /\ ReplyLen \in Nat /\ ReplyLen = Half
    BY <1>1, Emptied, Sizes
  <2>2. ReplyLen \in 0..Size(x.tcpIn)
    BY <2>1
  <2>3. rest \in Seq(Bytes)
    BY <1>1, <2>2, Cuts
  <2> HIDE DEF rest
  <2> QED BY <2>1, <2>2, <2>3, Emptied DEF Size
<1>4. HasKeys(x) <=> conf.encrypted
  BY DEF HasKeys
<1>5. IF conf.encrypted THEN x.keyIn = Half /\ x.keyOut \in Nat ELSE x.keyIn = -1 /\ x.keyOut = -1
  <2>1. CASE conf.encrypted
    <3>1. x.keyIn = Half + Over(Place(x) + Size(x.eIn)) /\ x.keyOut \in Nat
      BY <1>4, <2>1 DEF Flow, Formed, Shaped
    <3>2. Place(x) = RequestLen
      BY <1>1, Sizes, SizeEmpty DEF Place, Taken
    <3>3. PICK m \in Nat : m = Place(x) + Size(x.eIn) /\ m <= ResponseLen
      BY <1>1, <3>2, Sizes, SizeEmpty
    <3>4. Over(m) = 0
      BY <3>3, OverIs
    <3> QED BY <2>1, <3>1, <3>3, <3>4, Sizes
  <2>2. CASE ~conf.encrypted
    BY <1>4, <2>2 DEF Formed, Shaped
  <2> QED BY <2>1, <2>2
<1>6. But(done, x, {"tcpIn", "completed", "state"}) /\ done.tcpIn = rest /\ done.completed
      /\ done.state = "DONE"
  BY <1>1 DEF But, Fields
<1>7. f = IF conf.encrypted THEN masked ELSE done
  BY <1>5, Sizes DEF ServerFinishes
<1>8. /\ But(masked, x, {"tcpIn", "completed", "state", "rtmpe", "keyIn"})
      /\ masked.tcpIn = RC4(rest, x.keyIn, 0) /\ masked.completed /\ masked.state = "DONE"
      /\ masked.rtmpe /\ masked.keyIn = key
  <2> HIDE DEF done, rest, key
  <2> QED BY <1>6 DEF But, Fields
<1> PICK r : r = RC4(rest, x.keyIn, 0)
  OBVIOUS
<1>9. conf.encrypted => r \in Seq(Bytes) /\ key \in Nat /\ Size(r) = Size(rest)
  <2>1. conf.encrypted => x.keyIn \in Int /\ x.keyIn \in Nat
    BY <1>5, Sizes
  <2> HIDE DEF rest
  <2>2. conf.encrypted => r \in Seq(Bytes) /\ Len(r) = Len(rest)
    BY <1>3, <2>1, RC4Type DEF Size
  <2>3. conf.encrypted => key \in Nat
    BY <1>3, <2>1
  <2> QED BY <2>2, <2>3 DEF Size
<1> HIDE DEF done, masked, key, rest
<1>10. /\ f.completed /\ f.state = "DONE" /\ f.tcpIn = (IF conf.encrypted THEN r ELSE rest)
       /\ f.keyIn = (IF conf.encrypted THEN key ELSE x.keyIn)
       /\ But(f, x, {"tcpIn", "completed", "state", "rtmpe", "keyIn"})
       /\ (f.rtmpe <=> conf.encrypted)
  <2>1. CASE conf.encrypted
    BY <1>7, <1>8, <2>1
  <2>2. CASE ~conf.encrypted
    <3>1. f = done
      BY <1>7, <2>2
    <3> HIDE DEF f
    <3> QED BY <1>1, <1>6, <2>2, <3>1 DEF But, Fields
  <2> QED BY <2>1, <2>2
<1>11. y = ProcessBytes(f, "tcpIn")
  OBVIOUS
<1> HIDE DEF f
<1>12. f.tcpIn \in Seq(Bytes) /\ DOMAIN f = Fields /\ f["tcpIn"] \in Seq(Bytes)
  BY <1>3, <1>9, <1>10 DEF But
<1>13. HasKeys(f) <=> conf.encrypted
  BY <1>10 DEF HasKeys
<1>14. IF HasKeys(f) THEN f.keyIn \in Nat /\ f.keyOut \in Nat ELSE f.keyIn = -1 /\ f.keyOut = -1
  <2>1. f.keyOut = x.keyOut
    BY <1>10 DEF But, Fields
  <2> QED BY <1>5, <1>9, <1>10, <1>13, <2>1
<1>15. Shaped("server", f) /\ f.skip = 0 /\ f.out = <<>>
  BY <1>1, <1>2, <1>10, <1>12, <1>14 DEF Formed, Shaped, But, Fields, Waiting
<1>16. PICK k \in 0..Size(f["tcpIn"]) : Processed(y, f, "tcpIn", k)
  BY <1>11, <1>12, ProcessTakes
<1>17. Shaped("server", y)
  BY <1>10, <1>15, <1>16, Kinds, ProcessesShaped
<1>18. But(y, f, {"tcpIn", "midChunk", "got"})
  BY <1>16 DEF Processed
<1>19. Formed("server", y) /\ y.completed
  BY <1>10, <1>15, <1>17, <1>18 DEF Formed, But, Fields
<1>20. /\ f.eOut = x.eOut /\ f.out = x.out /\ f.sent = x.sent /\ f.keyOut = x.keyOut
       /\ f.eIn = <<>> /\ f.got = <<>>
  BY <1>1, <1>10 DEF But, Fields
<1>21. /\ y.eOut = x.eOut /\ y.out = x.out /\ y.sent = x.sent /\ y.keyOut = x.keyOut
       /\ y.eIn = <<>> /\ y.state = "DONE" /\ y.keyIn = f.keyIn /\ (y.rtmpe <=> conf.encrypted)
  BY <1>10, <1>18, <1>20 DEF But, Fields
<1>22. y.tcpIn = Ignore(f.tcpIn, k) /\ y.got = f.got \o SubSeq(f.tcpIn, 1, k)
  BY <1>16 DEF Processed
<1>23. Flow("server", y, z, wout)
  <2>1. Begun("server", y) = Begun("server", x)
    BY <1>21 DEF Begun
  <2>2. HasKeys(y) => HasKeys(x)
    BY <1>4 DEF HasKeys
  <2> QED BY <1>21, <2>1, <2>2, FlowSame
\* What came with C2 is still encrypted.
<1> PICK e : e = [f EXCEPT !.tcpIn = rest, !.keyIn = x.keyIn]
  OBVIOUS
<1>24. /\ But(e, f, {"tcpIn", "keyIn"}) /\ e.tcpIn = rest /\ e.keyIn = x.keyIn
       /\ e.state = "DONE" /\ e.eIn = <<>> /\ e.got = <<>>
  BY <1>10, <1>12, <1>20 DEF But, Fields
<1>25. Flow("client", z, e, win)
  <2>1. Taken(e) = ResponseLen /\ Taken(x) = RequestLen
    BY <1>24 DEF Taken
  <2>2. Taken(e) = Taken(x) + ReplyLen
    BY <2>1, Sizes
  <2>3. HasKeys(e) => e.keyIn = Half
    BY <1>5, <1>24 DEF HasKeys
  <2>4. e.tcpIn = Ignore(x.tcpIn, ReplyLen)
    BY <1>24 DEF rest
  <2> QED BY <1>1, <1>3, <1>24, <2>2, <2>3, <2>4, TakesFlow
<1>26. CASE ~conf.encrypted
  <2>1. Processed(y, e, "tcpIn", k) /\ k \in 0..Size(e.tcpIn)
    <3>1. y.tcpIn = Ignore(e.tcpIn, k) /\ y.got = e.got \o SubSeq(e.tcpIn, 1, k)
          /\ k \in 0..Size(e.tcpIn) /\ e.keyIn = f.keyIn
      BY <1>10, <1>16, <1>20, <1>22, <1>24, <1>26
    <3>2. But(y, e, {"tcpIn", "midChunk", "got"})
      <4>1. y.keyIn = e.keyIn
        BY <1>21, <3>1
      <4>2. But(e, f, {"tcpIn", "keyIn"})
        BY <1>24
      <4> QED BY <1>18, <4>1, <4>2 DEF But
    <3> QED BY <3>1, <3>2 DEF Processed
  <2>2. Flow("client", z, y, win)
    BY <1>24, <1>25, <1>26, <2>1, ProcessedPlainFlow
  <2> QED BY <1>2, <1>19, <1>23, <2>2
<1>27. CASE conf.encrypted /\ y.tcpIn = <<>>
  <2> PICK d : d = [e EXCEPT !.eIn = r, !.tcpIn = <<>>, !.keyIn = key]
    OBVIOUS
  <2>1. /\ But(d, e, {"eIn", "tcpIn", "keyIn"}) /\ d.eIn = r /\ d.tcpIn = <<>> /\ d.keyIn = key
        /\ d.state = "DONE" /\ d.got = <<>>
    BY <1>24 DEF But, Fields
  <2>2. Decrypted(d, e)
    <3>1. d.eIn = e.eIn \o RC4(e.tcpIn, e.keyIn, 0)
      <4>1. <<>> \o r = r
        BY <1>9, <1>27, EmptyConcat
      <4> QED BY <1>24, <2>1, <4>1
    <3>2. d.keyIn = e.keyIn + Size(e.tcpIn)
      BY <1>3, <1>24, <2>1 DEF key
    <3>3. {"eIn", "tcpIn", "keyIn"} = {"eIn", "keyIn", "tcpIn"}
      OBVIOUS
    <3> QED BY <2>1, <3>1, <3>2, <3>3 DEF Decrypted
  <2>3. Flow("client", z, d, win)
    BY <1>24, <1>25, <1>27, <2>2, DecryptedFlow
  <2>4. Processed(y, d, "eIn", k) /\ k \in 0..Size(d.eIn)
    <3>1. y.eIn = Ignore(d.eIn, k) /\ y.got = d.got \o SubSeq(d.eIn, 1, k)
          /\ k \in 0..Size(d.eIn)
      <4>1. f.tcpIn = r /\ f["tcpIn"] = r
        BY <1>10, <1>27
      <4>2. y.tcpIn = Ignore(r, k) /\ y.got = <<>> \o SubSeq(r, 1, k)
        BY <1>20, <1>22, <4>1
      <4>3. k \in 0..Size(r)
        BY <4>1
      <4>4. y.eIn = y.tcpIn
        BY <1>21, <1>27
      <4> QED BY <2>1, <4>2, <4>3, <4>4
    <3>2. But(y, d, {"eIn", "midChunk", "got"})
      <4>1. But(d, f, {"eIn", "tcpIn", "keyIn"})
        <5>1. But(e, f, {"tcpIn", "keyIn"}) /\ But(d, e, {"eIn", "tcpIn", "keyIn"})
          BY <1>24, <2>1
        <5> QED BY <5>1 DEF But
      <4>2. y.tcpIn = d.tcpIn /\ y.keyIn = d.keyIn
        BY <1>10, <1>21, <1>27, <2>1
      <4> QED BY <1>18, <4>1, <4>2 DEF But
    <3> QED BY <3>1, <3>2 DEF Processed
  <2>5. Flow("client", z, y, win)
    BY <2>1, <2>3, <2>4, ProcessedFlow
  <2> QED BY <1>2, <1>19, <1>23, <2>5
<1>28. CASE conf.encrypted /\ y.tcpIn # <<>>
  BY <1>2, <1>19, <1>21, <1>28 DEF Settled
<1> QED BY <1>26, <1>27, <1>28

\* C2 is queued, RTMPE inserted above it, and the first message sent.
LEMMA ClientFinishesStep ==
    ASSUME NEW x, Formed("client", x), x.state = "CLIENT_REQUEST_SENT", NEW z, NEW win, NEW wout,
           Formed("server", z), Size(x.tcpIn) >= ResponseLen,
           Flow("server", z, x, win), Flow("client", x, z, wout),
           NEW y, y = SendMessage("client", ProcessBytes(ClientFinishes(x), "tcpIn"))
    PROVE  /\ Formed("client", y) /\ y.completed /\ Settled(y)
           /\ Flow("server", z, y, win) /\ Flow("client", y, z, wout)
<1> DEFINE c == Part("C2", Half)
           f == ClientFinishes(x)
           queued == [x EXCEPT !.out = @ \o c]
           replied == EnqueueForOutbound(queued)
           done == [replied EXCEPT !.state = "DONE", !.completed = TRUE,
                                   !.tcpIn = Ignore(@, ResponseLen)]
           masked == [done EXCEPT !.rtmpe = TRUE, !.skip = Len(replied.out),
                                  !.keyIn = Half, !.keyOut = Half]
<1>1. /\ DOMAIN x = Fields /\ ~x.completed /\ ~x.rtmpe /\ x.tcpIn \in Seq(Bytes)
      /\ x.out \in Seq(Bytes) /\ x.eIn = <<>> /\ x.eOut = <<>> /\ x.got = <<>>
      /\ x.skip = 0 /\ x.sent = 0
  BY DEF Formed, Shaped
<1>2. ~HasKeys(x) /\ x.keyIn = -1 /\ x.keyOut = -1
  BY DEF HasKeys, Formed, Shaped
\* The server has sent its answer and no more.
<1>3. Size(x.tcpIn) = ResponseLen
  <2>1. /\ Place(x) \in Nat /\ Size(x.eIn) \in Nat /\ Size(x.tcpIn) \in Nat /\ Size(win) \in Nat
        /\ Size(z.eOut) \in Nat /\ Size(z.out) \in Nat /\ End("server", z) \in Nat
        /\ End("server", z) = Place(x) + Size(x.eIn) + Size(x.tcpIn) + Size(win) + Size(z.eOut)
                                + Size(z.out)
    BY Places
  <2>2. ~z.completed
    BY <1>1, Order
  <2>3. End("server", z) <= ResponseLen
    BY <2>2, Kinds, Ends
  <2>4. End("server", z) >= Size(x.tcpIn)
    BY <2>1
  <2>5. /\ End("server", z) \in Nat /\ Size(x.tcpIn) \in Nat /\ ResponseLen \in Nat
        /\ Size(x.tcpIn) >= ResponseLen
    BY <2>1, Sizes
  <2> QED BY <2>3, <2>4, <2>5
<1>4. Ignore(x.tcpIn, ResponseLen) = <<>> /\ ResponseLen \in 0..Size(x.tcpIn)
  <2>1. ResponseLen \in 0..Size(x.tcpIn)
    BY <1>3, Sizes
  <2>2. /\ Ignore(x.tcpIn, ResponseLen) \in Seq(Bytes)
        /\ Size(Ignore(x.tcpIn, ResponseLen)) = Size(x.tcpIn) - ResponseLen
    BY <1>1, <2>1, Cuts
  <2> QED BY <1>3, <2>1, <2>2, Emptied, Sizes
<1>5. c \in Seq(Bytes) /\ Run("client", c, RequestLen, "wire") /\ Size(c) = Half
  <2>1. c = Closing("client")
    BY DEF Closing, SecondPart
  <2> HIDE DEF c
  <2> QED BY <2>1, Kinds, HeadWire
<1> HIDE DEF c
<1> PICK q : q = x.out \o c
  OBVIOUS
<1>6. q \in Seq(Bytes)
  BY <1>1, <1>5, Concat
<1>7. But(queued, x, {"out"}) /\ queued.out = q /\ DOMAIN queued = Fields /\ ~queued.rtmpe
  BY <1>1 DEF But, Fields
<1> HIDE DEF queued
<1>8. But(replied, queued, {"writing"})
  BY <1>7, EnqueuePlain
<1> HIDE DEF replied
<1>9. But(replied, x, {"out", "writing"}) /\ replied.out = q /\ replied.tcpIn = x.tcpIn
  BY <1>7, <1>8 DEF But, Fields
<1>10. /\ But(done, x, {"out", "writing", "state", "completed", "tcpIn"}) /\ done.out = q
       /\ done.state = "DONE" /\ done.completed /\ done.tcpIn = <<>>
  BY <1>4, <1>9 DEF But, Fields
<1>11. f = IF conf.encrypted THEN masked ELSE done
  BY DEF ClientFinishes, c, queued, replied
<1>12. Len(replied.out) = Size(q)
  BY <1>9 DEF Size
<1> HIDE DEF done
<1>13. /\ But(masked, done, {"rtmpe", "skip", "keyIn", "keyOut"}) /\ masked.rtmpe
       /\ masked.skip = Size(q) /\ masked.keyIn = Half /\ masked.keyOut = Half
  BY <1>10, <1>12 DEF But, Fields
<1> HIDE DEF masked
<1>14. /\ But(f, x, {"out", "writing", "state", "completed", "tcpIn", "rtmpe", "skip", "keyIn",
                     "keyOut"})
       /\ f.out = q /\ f.state = "DONE" /\ f.completed /\ f.tcpIn = <<>>
       /\ (f.rtmpe <=> conf.encrypted)
       /\ IF conf.encrypted THEN f.skip = Size(q) /\ f.keyIn = Half /\ f.keyOut = Half
                            ELSE f.skip = 0 /\ f.keyIn = -1 /\ f.keyOut = -1
  <2>1. CASE conf.encrypted
    <3>1. f = masked
      BY <1>11, <2>1
    <3> HIDE DEF f
    <3> QED BY <1>10, <1>13, <2>1, <3>1 DEF But, Fields
  <2>2. CASE ~conf.encrypted
    <3>1. f = done
      BY <1>11, <2>2
    <3> HIDE DEF f
    <3> QED BY <1>1, <1>2, <1>10, <2>2, <3>1 DEF But, Fields
  <2> QED BY <2>1, <2>2
<1> PICK g : g = ProcessBytes(f, "tcpIn")
  OBVIOUS
<1>15. y = SendMessage("client", g)
  OBVIOUS
<1> HIDE DEF f
<1>16. HasKeys(f) <=> conf.encrypted
  BY <1>14 DEF HasKeys
<1>17. /\ f.got = <<>> /\ f.eIn = <<>> /\ f.eOut = <<>> /\ f.sent = 0 /\ DOMAIN f = Fields
       /\ ~f.midChunk
  BY <1>1, <1>14 DEF But, Fields, Formed, Shaped
<1>18. IF HasKeys(f) THEN f.keyIn \in Nat /\ f.keyOut \in Nat ELSE f.keyIn = -1 /\ f.keyOut = -1
  BY <1>14, <1>16, Sizes
<1>19. Shaped("client", f)
  <2>1. <<>> \in Seq(Bytes) /\ 0 \in 0..Chunks
    BY Sizes
  <2> QED BY <1>6, <1>14, <1>17, <1>18, <2>1 DEF Shaped
<1>20. PICK k \in 0..Size(f["tcpIn"]) : Processed(g, f, "tcpIn", k)
  <2>1. f["tcpIn"] \in Seq(Bytes)
    BY <1>19 DEF Shaped
  <2> QED BY <1>17, <2>1, ProcessTakes
<1>21. Shaped("client", g)
  BY <1>14, <1>19, <1>20, Kinds, ProcessesShaped
<1>22. But(g, f, {"tcpIn", "midChunk", "got"})
  BY <1>20 DEF Processed
<1>23. /\ g.out = q /\ g.state = "DONE" /\ g.completed /\ (g.rtmpe <=> conf.encrypted)
       /\ g.skip = f.skip /\ g.keyIn = f.keyIn /\ g.keyOut = f.keyOut /\ g.eIn = <<>>
       /\ g.eOut = <<>> /\ g.sent = 0
  BY <1>14, <1>17, <1>22 DEF But, Fields
<1>24. g.tcpIn = <<>> /\ g.got = <<>>
  <2>1. k = 0
    BY <1>14, SizeEmpty
  <2>2. g.tcpIn = Ignore(<<>>, 0) /\ g.got = <<>> \o SubSeq(<<>>, 1, 0)
    BY <1>14, <1>17, <1>20, <2>1 DEF Processed
  <2>3. <<>> \in Seq(Bytes) /\ 0 \in 0..Size(<<>>)
    BY SizeEmpty
  <2>4. PICK u, v : u = Ignore(<<>>, 0) /\ v = SubSeq(<<>>, 1, 0)
    OBVIOUS
  <2>5. u \in Seq(Bytes) /\ v \in Seq(Bytes) /\ Size(u) = Size(<<>>) - 0 /\ Size(v) = 0
    BY <2>3, <2>4, Cuts
  <2>6. u = <<>> /\ v = <<>>
    BY <2>5, SizeEmpty, Emptied
  <2> QED BY <2>2, <2>3, <2>4, <2>6, EmptyConcat
<1>25. Held(g)
  BY <1>14, <1>23 DEF Held
<1>26. g.sent < Chunks
  BY <1>23, Sizes
<1>27. /\ Formed("client", y)
       /\ But(y, g, {"writing", "eOut", "keyOut", "skip", "out", "sent"})
  BY <1>15, <1>21, <1>23, <1>25, <1>26, Kinds, SendsFormed
<1>28. /\ y.completed /\ y.tcpIn = <<>> /\ y.got = <<>> /\ y.eIn = <<>> /\ y.state = "DONE"
       /\ y.keyIn = f.keyIn
  BY <1>23, <1>24, <1>27 DEF But, Fields
<1>29. Flow("server", z, y, win)
  <2>1. Taken(y) = ResponseLen /\ Taken(x) = 0
    BY <1>28 DEF Taken
  <2>2. Taken(y) = Taken(x) + ResponseLen
    BY <2>1, Sizes
  <2>3. HasKeys(y) => y.keyIn = Half
    BY <1>14, <1>28 DEF HasKeys
  <2> QED BY <1>1, <1>4, <1>28, <2>2, <2>3, TakesFlow
<1>30. Flow("client", g, z, wout) /\ End("client", g) = ResponseLen
  <2>1. End("client", x) = RequestLen
    BY Kinds, Ends
  <2>2. End("client", g) = ResponseLen
    <3>1. Chunked(0) = 0
      BY ChunkedNext
    <3>2. Begun("client", g) = ResponseLen
      BY <1>23 DEF Begun
    <3> QED BY <1>23, <3>1, <3>2, Sizes DEF End
  <2>3. End("client", g) = End("client", x) + Size(c) /\ Run("client", c, End("client", x), "wire")
    BY <1>5, <2>1, <2>2, Sizes
  <2>4. HasKeys(g) => g.keyOut = Half + Over(End("client", g))
    <3>1. Over(ResponseLen) = 0
      BY Sizes, OverIs
    <3>2. HasKeys(g) => g.keyOut = Half
      BY <1>14, <1>23 DEF HasKeys
    <3> QED BY <2>2, <3>1, <3>2, Sizes
  <2>5. g.out = x.out \o c /\ g.eOut = x.eOut
    BY <1>1, <1>23
  <2> QED BY <2>2, <2>3, <2>4, <2>5, QueuesFlow
<1>31. Flow("client", y, z, wout)
  BY <1>15, <1>21, <1>23, <1>25, <1>30, Kinds, SendsFlow
<1> QED BY <1>27, <1>28, <1>29, <1>31 DEF Settled

-----------------------------------------------------------------------------
(* Input in whatever state the side is.                                    *)

\* The record with k bytes more in the transport's buffer.
Arrived(x1, x, w, k) == But(x1, x, {"tcpIn"}) /\ x1.tcpIn = x.tcpIn \o SubSeq(w, 1, k)

LEMMA ReceiveStep ==
    ASSUME NEW s \in Sides, NEW x, NEW z, NEW win, NEW wout, Formed(s, x), Formed(Peer(s), z),
           Flow(Peer(s), z, x, win), Flow(s, x, z, wout), NEW y, y = Receive(s, x)
    PROVE  /\ Formed(s, y) /\ (x.completed => y.completed)
           /\ Settled(y) => Flow(Peer(s), z, y, win) /\ Flow(s, y, z, wout)
           /\ ~Settled(y) => y.completed /\ z.completed
<1>1. CASE x.completed
  BY <1>1, ReceiveFormed, ReceiveFlows
<1>2. CASE ~x.completed
  <2>1. ~x.rtmpe /\ x.tcpIn \in Seq(Bytes)
    BY <1>2 DEF Formed, Shaped
  <2>2. Len(x.tcpIn) = Size(x.tcpIn)
    BY DEF Size
  <2>3. y = SignalInputData(s, x, "tcpIn")
    BY <2>1 DEF Receive
  <2>4. ASSUME ~PerformHandshake(s, x).completed PROVE y = PerformHandshake(s, x)
    BY <1>2, <2>3, <2>4 DEF SignalInputData
  <2>5. CASE s = "server" /\ x.state = "NOT_INITIALIZED" /\ Size(x.tcpIn) >= RequestLen
    <3>1. PerformHandshake(s, x) = ServerResponds(x)
      BY <2>2, <2>5 DEF PerformHandshake
    <3>2. Peer(s) = "client"
      BY <2>5 DEF Peer
    <3>3. ~z.completed
      BY <2>5, <3>2, Order
    <3>4. PICK r : r = ServerResponds(x)
      OBVIOUS
    <3>5. /\ Formed("server", r) /\ ~r.completed
          /\ Flow("client", z, r, win) /\ Flow("server", r, z, wout)
      BY <2>5, <3>2, <3>3, <3>4, ServerRespondsStep
    <3>6. y = r
      BY <2>4, <3>1, <3>4, <3>5
    <3>7. ~y.rtmpe
      BY <3>5, <3>6 DEF Formed, Shaped
    <3> QED BY <1>2, <2>5, <3>2, <3>5, <3>6, <3>7 DEF Settled
  <2>6. CASE s = "server" /\ x.state = "SERVER_RESPONSE_SENT" /\ Size(x.tcpIn) >= ReplyLen
    <3>1. PerformHandshake(s, x) = ServerFinishes(x)
      BY <2>2, <2>6 DEF PerformHandshake
    <3>2. Peer(s) = "client"
      BY <2>6 DEF Peer
    <3>3. ServerFinishes(x).completed
      BY DEF ServerFinishes, Formed, Shaped, Fields
    <3>4. y = ProcessBytes(ServerFinishes(x), "tcpIn")
      BY <1>2, <2>3, <2>6, <3>1, <3>3 DEF SignalInputData
    <3>5. /\ Formed("server", y) /\ y.completed /\ z.completed
          /\ Settled(y) => Flow("client", z, y, win) /\ Flow("server", y, z, wout)
      BY <2>6, <3>2, <3>4, ServerFinishesStep
    <3> QED BY <2>6, <3>2, <3>5
  <2>7. CASE s = "client" /\ x.state = "CLIENT_REQUEST_SENT" /\ Size(x.tcpIn) >= ResponseLen
    <3>1. PerformHandshake(s, x) = ClientFinishes(x)
      BY <2>2, <2>7 DEF PerformHandshake
    <3>2. Peer(s) = "server"
      BY <2>7 DEF Peer
    <3>3. ClientFinishes(x).completed
      BY DEF ClientFinishes, Formed, Shaped, Fields, EnqueueForOutbound
    <3>4. y = SendMessage("client", ProcessBytes(ClientFinishes(x), "tcpIn"))
      BY <1>2, <2>3, <2>7, <3>1, <3>3 DEF SignalInputData
    <3>5. /\ Formed("client", y) /\ y.completed /\ Settled(y)
          /\ Flow("server", z, y, win) /\ Flow("client", y, z, wout)
      BY <2>7, <3>2, <3>4, ClientFinishesStep
    <3> QED BY <2>7, <3>2, <3>5
  <2>8. CASE /\ ~(s = "server" /\ x.state = "NOT_INITIALIZED" /\ Size(x.tcpIn) >= RequestLen)
             /\ ~(s = "server" /\ x.state = "SERVER_RESPONSE_SENT" /\ Size(x.tcpIn) >= ReplyLen)
             /\ ~(s = "client" /\ x.state = "CLIENT_REQUEST_SENT" /\ Size(x.tcpIn) >= ResponseLen)
    <3>1. PerformHandshake(s, x) = x
      BY <2>2, <2>8 DEF PerformHandshake
    <3>2. y = x
      BY <1>2, <2>4, <3>1
    <3> QED BY <1>2, <2>1, <3>2 DEF Settled
  <2> QED BY <2>5, <2>6, <2>7, <2>8
<1> QED BY <1>1, <1>2

-----------------------------------------------------------------------------
(* The invariant is inductive.                                             *)

\* What a step has to show, the configuration being what it was.
LEMMA RunKept ==
    ASSUME conf' = conf, NEW s, NEW q, NEW a, NEW form, Run(s, q, a, form)
    PROVE  Run(s, q, a, form)'
BY DEF Run, ByteAt, PartAt, MaskAt, FirstPart

LEMMA FlowKept ==
    ASSUME conf' = conf, NEW s, NEW x, NEW y, NEW w, Flow(s, x, y, w)
    PROVE  Flow(s, x, y, w)'
<1>1. Stream(s, Place(y), y.eIn, y.tcpIn, w, x.eOut, x.out, End(s, x))'
  BY RunKept DEF Flow, Stream
<1>2. Run(s, y.got, ResponseLen, "clear")'
  BY RunKept DEF Flow
<1>3. (HasKeys(x)' <=> HasKeys(x)) /\ (HasKeys(y)' <=> HasKeys(y))
  BY DEF HasKeys
<1> QED BY <1>1, <1>2, <1>3 DEF Flow

LEMMA FormedKept ==
    ASSUME conf' = conf, NEW s, NEW x, Formed(s, x)
    PROVE  Formed(s, x)'
BY DEF Formed, Shaped, HasKeys

\* The server has come to nothing: the client has sent no more than its request.
LEMMA Thrown ==
    ASSUME NEW c, NEW v, NEW wc, NEW wv, Formed("client", c), Formed("server", v),
           Flow("client", c, v, wv), Flow("server", v, c, wc), v.state = "NOT_INITIALIZED"
    PROVE  ~c.completed /\ Size(c.out) + Size(wv) + Size(v.tcpIn) <= RequestLen
<1>1. ~c.completed
  BY Order
<1>2. End("client", c) <= RequestLen
  BY <1>1, Kinds, Ends
<1>3. /\ Place(v) \in Nat /\ Size(v.eIn) \in Nat /\ Size(v.tcpIn) \in Nat /\ Size(wv) \in Nat
      /\ Size(c.eOut) \in Nat /\ Size(c.out) \in Nat /\ End("client", c) \in Nat
      /\ End("client", c) = Place(v) + Size(v.eIn) + Size(v.tcpIn) + Size(wv) + Size(c.eOut)
                              + Size(c.out)
  BY Places
<1>4. End("client", c) >= Size(c.out) + Size(wv) + Size(v.tcpIn)
  BY <1>3
<1>5. PICK n \in Nat : n = Size(c.out) + Size(wv) + Size(v.tcpIn)
  BY <1>3
<1> QED BY <1>1, <1>2, <1>3, <1>4, <1>5, Sizes

LEMMA Steps ==
    ASSUME conf' = conf, up' \in BOOLEAN, residue' \in BOOLEAN,
           DOMAIN party' = Sides, DOMAIN net' = Sides,
           NEW s \in Sides, NEW y, NEW z, NEW win, NEW wout,
           party'[s] = y, party'[Peer(s)] = z, net'[s] = win, net'[Peer(s)] = wout,
           Formed(s, y), Formed(Peer(s), z), win \in Seq(Bytes), wout \in Seq(Bytes),
           residue' => y.completed /\ z.completed,
           ~residue' /\ ~up' => ~y.completed /\ ~z.completed /\ NothingThrownAway',
           ~residue' /\ up' => /\ Flow(Peer(s), z, y, win) /\ Flow(s, y, z, wout)
                               /\ Settled(y) /\ Settled(z)
    PROVE  IInv'
<1>1. s \in {"client", "server"} /\ Peer(s) \in Sides /\ Peer(Peer(s)) = s
      /\ \A t \in Sides : t = s \/ t = Peer(s)
  BY DEF Sides, Peer
<1>2. \A t \in Sides : Formed(t, party'[t]) /\ net'[t] \in Seq(Bytes)
  BY <1>1
<1>3. (\A t \in Sides : Formed(t, party[t]) /\ net[t] \in Seq(Bytes))'
  BY <1>2, FormedKept
<1>4. (residue => \A t \in Sides : party[t].completed)'
  BY <1>1
<1>5. (~residue /\ ~up => \A t \in Sides : ~party[t].completed)'
  BY <1>1
<1>6. ASSUME ~residue', up'
      PROVE  \A t \in Sides : /\ Flow(t, party'[t], party'[Peer(t)], net'[Peer(t)])
                              /\ Settled(party'[t])
  BY <1>1, <1>6
<1>7. (~residue /\ up => Flows /\ \A t \in Sides : Settled(party[t]))'
  BY <1>6, FlowKept DEF Flows, Settled
<1>8. NothingThrownAway'
  <2>1. CASE residue'
    <3>1. party'["server"].completed /\ Formed("server", party'["server"])
      BY <1>2, <1>4, <2>1, Kinds
    <3>2. party'["server"].state # "NOT_INITIALIZED"
      BY <3>1 DEF Formed, Shaped
    <3> QED BY <3>2 DEF NothingThrownAway
  <2>2. CASE ~residue' /\ ~up'
    BY <2>2
  <2>3. CASE ~residue' /\ up'
    <3> PICK c, v, wc, wv : /\ c = party'["client"] /\ v = party'["server"]
                            /\ wc = net'["client"] /\ wv = net'["server"]
      OBVIOUS
    <3>1. Formed("client", c) /\ Formed("server", v)
      BY <1>2, Kinds
    <3>2. Peer("client") = "server" /\ Peer("server") = "client"
      BY DEF Peer
    <3>3. Flow("client", c, v, wv) /\ Flow("server", v, c, wc)
      BY <1>6, <2>3, <3>2, Kinds
    <3>4. v.state = "NOT_INITIALIZED"
            => ~c.completed /\ Size(c.out) + Size(wv) + Size(v.tcpIn) <= RequestLen
      BY <3>1, <3>3, Thrown
    <3> QED BY <3>4 DEF NothingThrownAway, Size
  <2> QED BY <2>1, <2>2, <2>3
<1> QED BY <1>3, <1>4, <1>5, <1>7, <1>8 DEF IInv

LEMMA InitIInv == Init => IInv
<1> SUFFICES ASSUME Init PROVE IInv
  OBVIOUS
<1> PICK x : x = NewParty
  OBVIOUS
<1>1. \A s \in Sides : party[s] = x /\ net[s] = <<>>
  BY DEF Init
<1>2. /\ DOMAIN x = Fields /\ x.state = "NOT_INITIALIZED" /\ ~x.completed /\ ~x.rtmpe
      /\ x.skip = 0 /\ x.keyIn = -1 /\ x.keyOut = -1 /\ x.out = <<>> /\ x.eIn = <<>>
      /\ x.eOut = <<>> /\ x.tcpIn = <<>> /\ ~x.midChunk /\ x.sent = 0 /\ x.got = <<>>
  BY DEF NewParty, Fields
<1>3. <<>> \in Seq(Bytes) /\ 0 \in 0..Chunks /\ ~HasKeys(x)
  BY <1>2, Sizes DEF HasKeys
<1>4. ASSUME NEW s \in Sides PROVE Formed(s, x) /\ Flow(s, x, x, <<>>)
  <2>1. Formed(s, x)
    BY <1>2, <1>3 DEF Formed, Shaped
  <2>2. Place(x) = 0 /\ End(s, x) = 0
    BY <1>2, <2>1, Ends DEF Taken
  <2>3. Stream(s, 0, <<>>, <<>>, <<>>, <<>>, <<>>, 0)
    <3>1. 0 = 0 + Size(<<>>) + Size(<<>>) + Size(<<>>) + Size(<<>>) + Size(<<>>)
      BY SizeEmpty
    <3> QED BY <3>1, RunEmpty DEF Stream
  <2> QED BY <1>2, <1>3, <2>1, <2>2, <2>3, RunEmpty DEF Flow
<1>5. /\ DOMAIN party = Sides /\ DOMAIN net = Sides /\ up = TRUE /\ residue = FALSE
  BY DEF Init
<1>6. Flows /\ \A s \in Sides : Settled(party[s])
  <2>1. \A s \in Sides : Peer(s) \in Sides
    BY Kinds
  <2> QED BY <1>1, <1>2, <1>4, <2>1 DEF Flows, Settled
<1>7. NothingThrownAway
  <2>1. Len(party["client"].out) = 0 /\ Len(net["server"]) = 0 /\ Len(party["server"].tcpIn) = 0
    BY <1>1, <1>2, Kinds
  <2>2. ~party["client"].completed
    BY <1>1, <1>2, Kinds
  <2> QED BY <2>1, <2>2, Sizes DEF NothingThrownAway
<1> QED BY <1>1, <1>3, <1>4, <1>5, <1>6, <1>7 DEF IInv

\* What the invariant says of a side, its peer and what is between them.
LEMMA Known ==
    ASSUME IInv, NEW s \in Sides
    PROVE  /\ Formed(s, party[s]) /\ Formed(Peer(s), party[Peer(s)])
           /\ net[s] \in Seq(Bytes) /\ net[Peer(s)] \in Seq(Bytes)
           /\ residue => party[s].completed /\ party[Peer(s)].completed
           /\ ~residue /\ up => /\ Flow(Peer(s), party[Peer(s)], party[s], net[s])
                                /\ Flow(s, party[s], party[Peer(s)], net[Peer(s)])
                                /\ Settled(party[s]) /\ Settled(party[Peer(s)])
           /\ DOMAIN party = Sides /\ DOMAIN net = Sides /\ Peer(s) \in Sides /\ Peer(s) # s
           /\ up \in BOOLEAN /\ residue \in BOOLEAN
BY Kinds DEF IInv, Flows

LEMMA ConnectedStep == ASSUME IInv, Connected PROVE IInv'
<1> PICK x, z, win, wout, y :
      /\ x = party["client"] /\ z = party["server"] /\ win = net["client"] /\ wout = net["server"]
      /\ y = ClientRequests(x)
  OBVIOUS
<1>1. "client" \in Sides /\ Peer("client") = "server" /\ "server" # "client"
  BY DEF Sides, Peer
<1>2. /\ Formed("client", x) /\ Formed("server", z) /\ win \in Seq(Bytes) /\ wout \in Seq(Bytes)
      /\ residue => x.completed
      /\ ~residue /\ up => /\ Flow("server", z, x, win) /\ Flow("client", x, z, wout)
                           /\ Settled(z)
      /\ DOMAIN party = Sides /\ DOMAIN net = Sides /\ residue \in BOOLEAN
  BY <1>1, Known
<1>3. /\ up /\ x.state = "NOT_INITIALIZED" /\ party' = [party EXCEPT !["client"] = y]
      /\ conf' = conf /\ net' = net /\ up' = up /\ residue' = residue
  BY DEF Connected
<1>4. ~residue
  BY <1>2, <1>3 DEF Formed, Shaped
<1>5. /\ Formed("client", y) /\ ~y.completed
      /\ Flow("server", z, y, win) /\ Flow("client", y, z, wout)
  BY <1>2, <1>3, <1>4, ClientRequestsStep
<1>6. Settled(y)
  BY <1>5 DEF Settled, Formed, Shaped
<1>7. party'["client"] = y /\ party'["server"] = z /\ DOMAIN party' = Sides
  BY <1>1, <1>2, <1>3
<1>8. up' \in BOOLEAN /\ residue' \in BOOLEAN /\ up'
  BY <1>2, <1>3 DEF IInv
<1>9. /\ party'["client"] = y /\ party'[Peer("client")] = z
      /\ net'["client"] = win /\ net'[Peer("client")] = wout /\ DOMAIN net' = Sides
  BY <1>1, <1>2, <1>3, <1>7
<1>10. /\ Formed(Peer("client"), z) /\ Flow(Peer("client"), z, y, win)
       /\ ~residue' /\ Settled(z)
  BY <1>1, <1>2, <1>3, <1>4, <1>5
<1> QED BY <1>1, <1>2, <1>3, <1>5, <1>6, <1>7, <1>8, <1>9, <1>10, Steps

\* The first k bytes of b, the buffer next to TCP, leave.
LEMMA Written ==
    ASSUME NEW s \in Sides, NEW x, Formed(s, x), NEW b, b = IF x.rtmpe THEN "eOut" ELSE "out",
           NEW k \in 0..Size(x[b]), NEW y, But(y, x, {b, "writing"}), y[b] = Ignore(x[b], k)
    PROVE  /\ Formed(s, y) /\ y.completed = x.completed /\ (Settled(x) => Settled(y))
           /\ SubSeq(x[b], 1, k) \in Seq(Bytes)
           /\ \A z, w : Flow(s, x, z, w) => Flow(s, y, z, w \o SubSeq(x[b], 1, k))
           /\ \A z, w : Flow(Peer(s), z, x, w) => Flow(Peer(s), z, y, w)
<1>1. /\ b \in {"eOut", "out"} /\ x[b] \in Seq(Bytes)
      /\ y.state = x.state /\ y.completed = x.completed /\ y.rtmpe = x.rtmpe
      /\ y.keyIn = x.keyIn /\ y.keyOut = x.keyOut /\ y.sent = x.sent /\ y.got = x.got
      /\ y.eIn = x.eIn /\ y.tcpIn = x.tcpIn /\ y.skip = x.skip
  BY DEF Formed, Shaped, But, Fields
<1>2. /\ y[b] \in Seq(Bytes) /\ SubSeq(x[b], 1, k) \in Seq(Bytes)
  BY <1>1, Cuts
<1>3. CASE x.rtmpe
  <2>1. b = "eOut" /\ y.out = x.out /\ x.out = <<>> /\ y.eOut = Ignore(x.eOut, k)
    BY <1>3 DEF But, Fields, Formed
  <2>2. Formed(s, y)
    BY <1>1, <1>2, <1>3, <2>1 DEF Formed, Shaped, But, Fields, HasKeys
  <2>3. ASSUME NEW z, NEW w, Flow(s, x, z, w) PROVE Flow(s, y, z, w \o SubSeq(x[b], 1, k))
    <3>1. Stream(s, Place(z), z.eIn, z.tcpIn, w, x.eOut, x.out, End(s, x)) /\ Place(z) \in Nat
      BY <2>3, Places
    <3>2. k \in 0..Size(x.eOut)
      BY <2>1
    <3>3. Stream(s, Place(z), z.eIn, z.tcpIn, w \o SubSeq(x.eOut, 1, k), y.eOut, y.out, End(s, x))
      BY <2>1, <3>1, <3>2, StreamWriteE
    <3>4. End(s, y) = End(s, x) /\ (HasKeys(y) <=> HasKeys(x))
      BY <1>1 DEF End, Begun, HasKeys
    <3> QED BY <1>1, <2>1, <2>3, <3>3, <3>4 DEF Flow
  <2>4. ASSUME NEW z, NEW w, Flow(Peer(s), z, x, w) PROVE Flow(Peer(s), z, y, w)
    BY <1>1, <2>4, FlowAlike
  <2> QED BY <1>1, <1>2, <2>2, <2>3, <2>4 DEF Settled
<1>4. CASE ~x.rtmpe
  <2>1. b = "out" /\ y.eOut = x.eOut /\ x.eOut = <<>> /\ y.out = Ignore(x.out, k)
    BY <1>4 DEF But, Fields, Formed, Shaped
  <2>2. Formed(s, y)
    BY <1>1, <1>2, <1>4, <2>1 DEF Formed, Shaped, But, Fields, HasKeys
  <2>3. ASSUME NEW z, NEW w, Flow(s, x, z, w) PROVE Flow(s, y, z, w \o SubSeq(x[b], 1, k))
    <3>1. Stream(s, Place(z), z.eIn, z.tcpIn, w, <<>>, x.out, End(s, x)) /\ Place(z) \in Nat
      BY <2>1, <2>3, Places
    <3>2. k \in 0..Size(x.out)
      BY <2>1
    <3>3. Stream(s, Place(z), z.eIn, z.tcpIn, w \o SubSeq(x.out, 1, k), <<>>, y.out, End(s, x))
      BY <2>1, <3>1, <3>2, StreamWriteOut
    <3>4. End(s, y) = End(s, x) /\ (HasKeys(y) <=> HasKeys(x))
      BY <1>1 DEF End, Begun, HasKeys
    <3> QED BY <1>1, <2>1, <2>3, <3>3, <3>4 DEF Flow
  <2>4. ASSUME NEW z, NEW w, Flow(Peer(s), z, x, w) PROVE Flow(Peer(s), z, y, w)
    BY <1>1, <2>4, FlowAlike
  <2> QED BY <1>1, <1>2, <2>2, <2>3, <2>4 DEF Settled
<1> QED BY <1>3, <1>4

\* A step that leaves all but the flag alone.
LEMMA Alike ==
    ASSUME NEW s, NEW x, NEW y, But(y, x, {"writing"})
    PROVE  /\ (Formed(s, x) => Formed(s, y)) /\ y.completed = x.completed
           /\ (Settled(x) => Settled(y))
           /\ \A z, w : Flow(s, x, z, w) => Flow(s, y, z, w)
           /\ \A z, w : Flow(Peer(s), z, x, w) => Flow(Peer(s), z, y, w)
<1>1. /\ y.state = x.state /\ y.completed = x.completed /\ y.rtmpe = x.rtmpe
      /\ y.keyIn = x.keyIn /\ y.keyOut = x.keyOut /\ y.sent = x.sent /\ y.got = x.got
      /\ y.eIn = x.eIn /\ y.tcpIn = x.tcpIn /\ y.skip = x.skip /\ y.out = x.out
      /\ y.eOut = x.eOut /\ y.midChunk = x.midChunk /\ DOMAIN y = Fields
  BY DEF But, Fields
<1>2. Formed(s, x) => Formed(s, y)
  BY <1>1 DEF Formed, Shaped, HasKeys
<1>3. ASSUME NEW z, NEW w, Flow(s, x, z, w) PROVE Flow(s, y, z, w)
  BY <1>1, <1>3, FlowAlike
<1>4. ASSUME NEW z, NEW w, Flow(Peer(s), z, x, w) PROVE Flow(Peer(s), z, y, w)
  BY <1>1, <1>4, FlowAlike
<1> QED BY <1>1, <1>2, <1>3, <1>4 DEF Settled

LEMMA CutPlace ==
    ASSUME NEW q \in Seq(Bytes), NEW k \in 1..Len(q)
    PROVE  k \in 0..Size(q) /\ Size(q) = Len(q)
BY DEF Size

LEMMA WriteStep == ASSUME IInv, NEW s \in Sides, Write(s) PROVE IInv'
<1>1. PICK x, z, win, wout, b :
      /\ x = party[s] /\ z = party[Peer(s)] /\ win = net[s] /\ wout = net[Peer(s)]
      /\ b = IF x.rtmpe THEN "eOut" ELSE "out"
  OBVIOUS
<1>2. /\ Formed(s, x) /\ Formed(Peer(s), z) /\ win \in Seq(Bytes) /\ wout \in Seq(Bytes)
      /\ residue => x.completed /\ z.completed
      /\ ~residue /\ up => /\ Flow(Peer(s), z, x, win) /\ Flow(s, x, z, wout)
                           /\ Settled(x) /\ Settled(z)
      /\ DOMAIN party = Sides /\ DOMAIN net = Sides /\ Peer(s) \in Sides /\ Peer(s) # s
      /\ up \in BOOLEAN /\ residue \in BOOLEAN
  BY <1>1, Known
<1>3. /\ up /\ conf' = conf /\ up' = up /\ residue' = residue
  BY DEF Write
<1>4. /\ DOMAIN x = Fields /\ b \in {"eOut", "out"} /\ b # "writing" /\ b \in Fields
      /\ x[b] \in Seq(Bytes)
  BY <1>1, <1>2 DEF Formed, Shaped, Fields
<1>5. CASE /\ x[b] = <<>>
           /\ party' = [party EXCEPT ![s].writing = FALSE]
           /\ UNCHANGED net
  <2>1. PICK y : y = [x EXCEPT !.writing = FALSE]
    OBVIOUS
  <2>2. But(y, x, {"writing"})
    BY <1>4, <2>1 DEF But, Fields
  <2>3. /\ party'[s] = y /\ party'[Peer(s)] = z /\ DOMAIN party' = Sides
        /\ net'[s] = win /\ net'[Peer(s)] = wout /\ DOMAIN net' = Sides
    BY <1>1, <1>2, <1>5, <2>1
  <2>4. /\ Formed(s, y) /\ y.completed = x.completed /\ (Settled(x) => Settled(y))
        /\ Flow(s, x, z, wout) => Flow(s, y, z, wout)
        /\ Flow(Peer(s), z, x, win) => Flow(Peer(s), z, y, win)
    BY <1>2, <2>2, Alike
  <2> QED BY <1>2, <1>3, <2>3, <2>4, Steps
<1>6. CASE \E k \in 1..Len(x[b]) :
             /\ party' = [party EXCEPT ![s] =
                            [@ EXCEPT ![b] = Ignore(x[b], k), !.writing = k # Len(x[b])]]
             /\ net' = [net EXCEPT ![Peer(s)] = @ \o SubSeq(x[b], 1, k)]
  <2>1. PICK k \in 1..Len(x[b]) :
             /\ party' = [party EXCEPT ![s] =
                            [@ EXCEPT ![b] = Ignore(x[b], k), !.writing = k # Len(x[b])]]
             /\ net' = [net EXCEPT ![Peer(s)] = @ \o SubSeq(x[b], 1, k)]
    BY <1>6
  <2>2. PICK y, q : /\ y = [x EXCEPT ![b] = Ignore(x[b], k), !.writing = k # Len(x[b])]
                    /\ q = SubSeq(x[b], 1, k)
    OBVIOUS
  <2>3. But(y, x, {b, "writing"}) /\ y[b] = Ignore(x[b], k)
    BY <1>4, <2>2 DEF But, Fields
  <2>4. k \in 0..Size(x[b])
    BY <1>4, CutPlace
  <2>5. /\ party'[s] = y /\ party'[Peer(s)] = z /\ DOMAIN party' = Sides
        /\ net'[s] = win /\ net'[Peer(s)] = wout \o q /\ DOMAIN net' = Sides
    BY <1>1, <1>2, <2>1, <2>2
  <2>6. /\ Formed(s, y) /\ y.completed = x.completed /\ (Settled(x) => Settled(y))
        /\ SubSeq(x[b], 1, k) \in Seq(Bytes)
        /\ \A u, w : Flow(s, x, u, w) => Flow(s, y, u, w \o SubSeq(x[b], 1, k))
        /\ \A u, w : Flow(Peer(s), u, x, w) => Flow(Peer(s), u, y, w)
    <3>1. Formed(s, x) /\ b = IF x.rtmpe THEN "eOut" ELSE "out"
      BY <1>1, <1>2
    <3> QED BY <2>3, <2>4, <3>1, Written
  <2>7. /\ Flow(s, x, z, wout) => Flow(s, y, z, wout \o q)
        /\ Flow(Peer(s), z, x, win) => Flow(Peer(s), z, y, win)
    BY <2>2, <2>6
  <2>8. wout \o q \in Seq(Bytes)
    BY <1>2, <2>2, <2>6, Concat
  <2> QED BY <1>2, <1>3, <2>5, <2>6, <2>7, <2>8, Steps
<1> QED BY <1>1, <1>5, <1>6 DEF Write

\* The next k bytes arrive.
LEMMA Arrives ==
    ASSUME NEW s \in Sides, NEW x, Formed(s, x), NEW w, w \in Seq(Bytes), NEW k \in 0..Size(w),
           NEW y, Arrived(y, x, w, k)
    PROVE  /\ Formed(s, y) /\ y.completed = x.completed /\ y.state = x.state
           /\ \A z : Flow(Peer(s), z, x, w) => Flow(Peer(s), z, y, Ignore(w, k))
           /\ \A z, v : Flow(s, x, z, v) => Flow(s, y, z, v)
<1>1. /\ y.state = x.state /\ y.completed = x.completed /\ y.rtmpe = x.rtmpe
      /\ y.keyIn = x.keyIn /\ y.keyOut = x.keyOut /\ y.sent = x.sent /\ y.got = x.got
      /\ y.eIn = x.eIn /\ y.skip = x.skip /\ y.out = x.out
      /\ y.eOut = x.eOut /\ y.midChunk = x.midChunk /\ DOMAIN y = Fields
      /\ y.tcpIn = x.tcpIn \o SubSeq(w, 1, k)
  BY DEF Arrived, But, Fields
<1>2. y.tcpIn \in Seq(Bytes)
  <2>1. x.tcpIn \in Seq(Bytes) /\ SubSeq(w, 1, k) \in Seq(Bytes)
    BY Cuts DEF Formed, Shaped
  <2> QED BY <1>1, <2>1, Concat
<1>3. Formed(s, y)
  BY <1>1, <1>2 DEF Formed, Shaped, HasKeys
<1>4. ASSUME NEW z, Flow(Peer(s), z, x, w) PROVE Flow(Peer(s), z, y, Ignore(w, k))
  BY <1>1, <1>4, ArrivesFlow
<1>5. ASSUME NEW z, NEW v, Flow(s, x, z, v) PROVE Flow(s, y, z, v)
  BY <1>1, <1>5, FlowAlike
<1> QED BY <1>1, <1>3, <1>4, <1>5

\* A side refuses before it is done, and before its peer is.
LEMMA Refusal ==
    ASSUME NEW s \in Sides, NEW x, NEW z, NEW win, NEW wout, Formed(s, x), Formed(Peer(s), z),
           Flow(Peer(s), z, x, win), Flow(s, x, z, wout), Refuses(s, x)
    PROVE  ~x.completed /\ ~z.completed
<1>1. CASE s = "server"
  <2>1. x.state = "NOT_INITIALIZED" /\ Peer(s) = "client"
    BY <1>1 DEF Refuses, ServerRefuses, Peer
  <2>2. ~z.completed
    BY <1>1, <2>1, Order
  <2> QED BY <2>1, <2>2 DEF Formed, Shaped
<1>2. CASE s = "client"
  <2>1. x.state = "CLIENT_REQUEST_SENT" /\ Peer(s) = "server"
    BY <1>2 DEF Refuses, ClientRefuses, Peer
  <2>2. ~x.completed
    BY <2>1 DEF Formed, Shaped
  <2>3. z.completed => x.completed
    BY <1>2, <2>1, Order
  <2> QED BY <2>2, <2>3
<1> QED BY <1>1, <1>2 DEF Sides

\* What a side got in a flow is decrypted.
LEMMA Clear ==
    ASSUME NEW s, NEW x, NEW y, NEW w, Flow(s, x, y, w)
    PROVE  ~ \E i \in 1..Len(y.got) : y.got[i].mask # {}
<1>1. Run(s, y.got, ResponseLen, "clear")
  BY DEF Flow
<1>2. ASSUME NEW i \in 1..Len(y.got) PROVE y.got[i].mask = {}
  <2>1. y.got[i] = ByteAt(s, ResponseLen + i, "clear")
    BY <1>1 DEF Run, Size
  <2> QED BY <2>1, ByteIs DEF ByteAt
<1> QED BY <1>2

\* Read, the bytes having arrived.
ReadMore(s, x, y, k) ==
  LET garbled == \E i \in 1..Len(y.got) : y.got[i].mask # {}
  IN  /\ up
      /\ net' = [net EXCEPT ![s] = Ignore(@, k)]
      /\ IF Refuses(s, x)
         THEN up' = FALSE /\ UNCHANGED <<party, residue>>
         ELSE /\ party' = [party EXCEPT ![s] = y]
              /\ residue' = (residue \/ (y.rtmpe /\ y.tcpIn # <<>>))
              /\ up' \in {TRUE, ~garbled}
      /\ UNCHANGED conf

LEMMA ReadStep == ASSUME IInv, NEW s \in Sides, Read(s) PROVE IInv'
<1>0. PICK old, z, win, wout :
      old = party[s] /\ z = party[Peer(s)] /\ win = net[s] /\ wout = net[Peer(s)]
  OBVIOUS
<1>1. /\ Formed(s, old) /\ Formed(Peer(s), z) /\ win \in Seq(Bytes) /\ wout \in Seq(Bytes)
      /\ residue => old.completed /\ z.completed
      /\ ~residue /\ up => /\ Flow(Peer(s), z, old, win) /\ Flow(s, old, z, wout)
                           /\ Settled(old) /\ Settled(z)
      /\ DOMAIN party = Sides /\ DOMAIN net = Sides /\ Peer(s) \in Sides /\ Peer(s) # s
      /\ up \in BOOLEAN /\ residue \in BOOLEAN
  BY <1>0, Known
<1>2. \E k \in 1..Len(win) :
        LET x == [old EXCEPT !.tcpIn = @ \o SubSeq(win, 1, k)]
        IN  ReadMore(s, x, Receive(s, x), k)
  BY <1>0 DEF Read, ReadMore
<1>3. PICK k \in 1..Len(win) :
        LET x == [old EXCEPT !.tcpIn = @ \o SubSeq(win, 1, k)]
        IN  ReadMore(s, x, Receive(s, x), k)
  BY <1>2
<1>a. PICK x : x = [old EXCEPT !.tcpIn = @ \o SubSeq(win, 1, k)]
  OBVIOUS
<1>b. PICK y : y = Receive(s, x)
  OBVIOUS
<1>4. ReadMore(s, x, y, k)
  BY <1>3, <1>a, <1>b
<1>5. k \in 0..Size(win)
  BY <1>1, CutPlace
<1>6. Arrived(x, old, win, k)
  BY <1>1, <1>a DEF Arrived, But, Fields, Formed, Shaped
<1>c. PICK left : left = Ignore(win, k)
  OBVIOUS
<1>7. left \in Seq(Bytes) /\ Size(left) = Size(win) - k
  BY <1>1, <1>5, <1>c, Cuts
<1>8. /\ Formed(s, x) /\ x.completed = old.completed /\ x.state = old.state
      /\ Flow(Peer(s), z, old, win) => Flow(Peer(s), z, x, left)
      /\ Flow(s, old, z, wout) => Flow(s, x, z, wout)
  <2>1. /\ Formed(s, x) /\ x.completed = old.completed /\ x.state = old.state
        /\ \A u : Flow(Peer(s), u, old, win) => Flow(Peer(s), u, x, Ignore(win, k))
        /\ \A u, v : Flow(s, old, u, v) => Flow(s, x, u, v)
    BY <1>1, <1>5, <1>6, Arrives
  <2> QED BY <1>c, <2>1
<1>9. /\ up /\ conf' = conf /\ net'[s] = left /\ net'[Peer(s)] = wout /\ DOMAIN net' = Sides
  BY <1>0, <1>1, <1>4, <1>c DEF ReadMore
<1>10. CASE residue
  <2>1. x.completed /\ z.completed /\ x.state = "DONE"
    BY <1>1, <1>8, <1>10 DEF Formed, Shaped
  <2>2. ~Refuses(s, x)
    BY <2>1 DEF Refuses, ServerRefuses, ClientRefuses
  <2>3. Formed(s, y) /\ y.completed
    BY <1>8, <1>b, <2>1, ReceiveFormed
  <2>4. /\ party' = [party EXCEPT ![s] = y] /\ residue' /\ residue' \in BOOLEAN
        /\ up' \in BOOLEAN
    BY <1>4, <1>10, <2>2 DEF ReadMore
  <2>5. party'[s] = y /\ party'[Peer(s)] = z /\ DOMAIN party' = Sides
    BY <1>0, <1>1, <2>4
  <2> QED BY <1>1, <1>7, <1>9, <2>1, <2>3, <2>4, <2>5, Steps
<1>11. CASE ~residue /\ Refuses(s, x)
  <2>1. Flow(Peer(s), z, x, left) /\ Flow(s, x, z, wout)
    BY <1>1, <1>8, <1>9, <1>11
  <2>2. ~x.completed /\ ~z.completed
    BY <1>1, <1>8, <1>11, <2>1, Refusal
  <2>3. up' = FALSE /\ party' = party /\ residue' = residue
    BY <1>4, <1>11 DEF ReadMore
  <2>4. party'[s] = old /\ party'[Peer(s)] = z /\ DOMAIN party' = Sides
    BY <1>0, <1>1, <2>3
  <2>5. NothingThrownAway'
    <3>1. Len(net'["server"]) <= Len(net["server"]) /\ Len(net'["server"]) \in Nat
          /\ Len(net["server"]) \in Nat
      <4>1. Len(left) <= Len(win) /\ Len(left) \in Nat /\ Len(win) \in Nat /\ Len(wout) \in Nat
        <5>1. Size(left) <= Size(win) /\ Size(left) \in Nat /\ Size(win) \in Nat
              /\ Size(wout) \in Nat
          BY <1>1, <1>5, <1>7, Emptied
        <5> QED BY <5>1 DEF Size
      <4>2. "server" = s \/ "server" = Peer(s)
        BY DEF Sides, Peer
      <4> QED BY <1>0, <1>9, <4>1, <4>2
    <3>2. Len(party["client"].out) \in Nat /\ Len(party["server"].tcpIn) \in Nat
      <4>1. /\ party["client"].out \in Seq(Bytes) /\ party["server"].tcpIn \in Seq(Bytes)
        BY Kinds DEF IInv, Formed, Shaped
      <4> QED BY <4>1
    <3>3. NothingThrownAway
      BY DEF IInv
    <3>4. PICK i \in Nat, j \in Nat, m \in Nat, n \in Nat :
            /\ i = Len(party["client"].out) /\ j = Len(party["server"].tcpIn)
            /\ m = Len(net["server"]) /\ n = Len(net'["server"]) /\ n <= m
      BY <3>1, <3>2
    <3>5. i + m + j <= RequestLen => i + n + j <= RequestLen
      <4>1. n <= m
        BY <3>4
      <4> QED BY <4>1, Sizes
    <3>6. /\ Len(party["client"].out) + Len(net["server"]) + Len(party["server"].tcpIn) = i + m + j
          /\ Len(party["client"].out) + Len(net'["server"]) + Len(party["server"].tcpIn) = i + n + j
      BY <3>4
    <3> QED BY <2>3, <3>3, <3>5, <3>6 DEF NothingThrownAway
  <2>6. /\ ~old.completed /\ ~residue' /\ ~up' /\ up' \in BOOLEAN /\ residue' \in BOOLEAN
    BY <1>1, <1>8, <1>11, <2>2, <2>3
  <2> QED BY <1>1, <1>7, <1>9, <2>2, <2>4, <2>5, <2>6, Steps
<1>12. CASE ~residue /\ ~Refuses(s, x)
  <2>1. Flow(Peer(s), z, x, left) /\ Flow(s, x, z, wout) /\ Settled(z)
    BY <1>1, <1>8, <1>9, <1>12
  <2>2. /\ Formed(s, y)
        /\ Settled(y) => Flow(Peer(s), z, y, left) /\ Flow(s, y, z, wout)
        /\ ~Settled(y) => y.completed /\ z.completed
    BY <1>1, <1>8, <1>b, <2>1, ReceiveStep
  <2>3. /\ party' = [party EXCEPT ![s] = y] /\ (residue' <=> ~Settled(y))
        /\ residue' \in BOOLEAN
        /\ up' \in {TRUE, ~ \E i \in 1..Len(y.got) : y.got[i].mask # {}}
    BY <1>4, <1>12 DEF ReadMore, Settled
  <2>4. party'[s] = y /\ party'[Peer(s)] = z /\ DOMAIN party' = Sides
    BY <1>0, <1>1, <2>3
  <2>5. ASSUME ~residue' PROVE up'
    <3>1. Flow(Peer(s), z, y, left)
      BY <2>2, <2>3, <2>5
    <3>2. ~ \E i \in 1..Len(y.got) : y.got[i].mask # {}
      BY <3>1, Clear
    <3> QED BY <2>3, <3>2
  <2>6. up' \in BOOLEAN
    BY <2>3
  <2>7. /\ residue' => y.completed /\ z.completed
        /\ ~residue' => /\ Flow(Peer(s), z, y, left) /\ Flow(s, y, z, wout)
                        /\ Settled(y) /\ Settled(z)
    BY <2>1, <2>2, <2>3
  <2> QED BY <1>1, <1>7, <1>9, <2>2, <2>3, <2>4, <2>5, <2>6, <2>7, Steps
<1> QED BY <1>10, <1>11, <1>12

LEMMA SendStep == ASSUME IInv, NEW s \in Sides, Send(s) PROVE IInv'
<1> PICK x, z, win, wout :
      x = party[s] /\ z = party[Peer(s)] /\ win = net[s] /\ wout = net[Peer(s)]
  OBVIOUS
<1> PICK y : y = SendMessage(s, x)
  OBVIOUS
<1>1. /\ Formed(s, x) /\ Formed(Peer(s), z) /\ win \in Seq(Bytes) /\ wout \in Seq(Bytes)
      /\ residue => x.completed /\ z.completed
      /\ ~residue /\ up => /\ Flow(Peer(s), z, x, win) /\ Flow(s, x, z, wout)
                           /\ Settled(x) /\ Settled(z)
      /\ DOMAIN party = Sides /\ DOMAIN net = Sides /\ Peer(s) \in Sides /\ Peer(s) # s
      /\ up \in BOOLEAN /\ residue \in BOOLEAN
  BY Known
<1>2. /\ up /\ x.completed /\ x.sent < Chunks /\ party' = [party EXCEPT ![s] = y]
      /\ conf' = conf /\ net' = net /\ up' = up /\ residue' = residue
  BY DEF Send
<1>3. Shaped(s, x) /\ Held(x) /\ (x.rtmpe => x.out = <<>>)
  BY <1>1, SizeEmpty DEF Formed, Held
<1>4. Formed(s, y) /\ But(y, x, {"writing", "eOut", "keyOut", "skip", "out", "sent"})
  BY <1>2, <1>3, SendsFormed
<1>5. /\ y.got = x.got /\ y.eIn = x.eIn /\ y.tcpIn = x.tcpIn /\ y.state = x.state
      /\ y.keyIn = x.keyIn /\ y.completed = x.completed /\ y.rtmpe = x.rtmpe
  BY <1>4 DEF But, Fields
<1>6. ASSUME ~residue
      PROVE  Flow(Peer(s), z, y, win) /\ Flow(s, y, z, wout) /\ Settled(y) /\ Settled(z)
  <2>1. /\ Flow(Peer(s), z, x, win) /\ Flow(s, x, z, wout) /\ Settled(x) /\ Settled(z)
    BY <1>1, <1>2, <1>6
  <2>2. Flow(Peer(s), z, y, win)
    BY <1>5, <2>1, FlowAlike
  <2>3. Flow(s, y, z, wout)
    BY <1>2, <1>3, <2>1, SendsFlow
  <2> QED BY <1>5, <2>1, <2>2, <2>3 DEF Settled
<1>7. /\ party'[s] = y /\ party'[Peer(s)] = z /\ DOMAIN party' = Sides
      /\ net'[s] = win /\ net'[Peer(s)] = wout /\ DOMAIN net' = Sides
  BY <1>1, <1>2
<1> QED BY <1>1, <1>2, <1>4, <1>5, <1>6, <1>7, Steps

LEMMA StutterStep == ASSUME IInv, UNCHANGED vars PROVE IInv'
<1>1. conf' = conf /\ party' = party /\ net' = net /\ up' = up /\ residue' = residue
  BY DEF vars
<1>2. NothingThrownAway'
  BY <1>1 DEF IInv, NothingThrownAway
<1> PICK s, x, z, win, wout :
      /\ s = "client" /\ x = party[s] /\ z = party[Peer(s)] /\ win = net[s] /\ wout = net[Peer(s)]
  OBVIOUS
<1>3. s \in Sides
  BY DEF Sides
<1>4. /\ Formed(s, x) /\ Formed(Peer(s), z) /\ win \in Seq(Bytes) /\ wout \in Seq(Bytes)
      /\ residue => x.completed /\ z.completed
      /\ ~residue /\ up => /\ Flow(Peer(s), z, x, win) /\ Flow(s, x, z, wout)
                           /\ Settled(x) /\ Settled(z)
      /\ DOMAIN party = Sides /\ DOMAIN net = Sides /\ Peer(s) \in Sides
      /\ up \in BOOLEAN /\ residue \in BOOLEAN
  BY <1>3, Known
<1>5. ~residue /\ ~up => ~x.completed /\ ~z.completed
  BY <1>3, <1>4 DEF IInv
<1> QED BY <1>1, <1>2, <1>3, <1>4, <1>5, Steps

LEMMA NextStep == IInv /\ [Next]_vars => IInv'
<1> SUFFICES ASSUME IInv, [Next]_vars PROVE IInv'
  OBVIOUS
<1>1. CASE Connected
  BY <1>1, ConnectedStep
<1>2. ASSUME NEW s \in Sides, Write(s) PROVE IInv'
  BY <1>2, WriteStep
<1>3. ASSUME NEW s \in Sides, Read(s) PROVE IInv'
  BY <1>3, ReadStep
<1>4. ASSUME NEW s \in Sides, Send(s) PROVE IInv'
  BY <1>4, SendStep
<1>5. CASE UNCHANGED vars
  BY <1>5, StutterStep
<1> QED BY <1>1, <1>2, <1>3, <1>4, <1>5 DEF Next

LEMMA Inductive == Spec => []IInv
BY InitIInv, NextStep, PTL DEF Spec

-----------------------------------------------------------------------------
(* What follows from it.                                                   *)

\* What a side has got is the first of what its peer sends after the handshake.
LEMMA Decoded ==
    ASSUME NEW s \in Sides, NEW x, NEW y, NEW w, Formed(s, x), Formed(Peer(s), y), Flow(s, x, y, w)
    PROVE  y.got = Part(s, Len(y.got)) /\ Len(y.got) <= x.sent * ChunkLen
<1> PICK g, n : g = y.got /\ n = Size(g)
  OBVIOUS
<1>1. Run(s, g, ResponseLen, "clear") /\ g \in Seq(Bytes)
  BY DEF Flow, Run
<1>2. n \in Nat /\ n = Len(g)
  BY <1>1, Emptied DEF Size
<1>3. ASSUME NEW i \in 1..n PROVE g[i] = [part |-> s, n |-> i, mask |-> {}]
  <2>1. PICK m \in Int : m = ResponseLen + i
    BY Sizes
  <2>2. m > ResponseLen /\ m - ResponseLen = i
    BY <2>1, Sizes
  <2>3. PartAt(s, m) = s /\ PlaceAt(m) = i
    BY <2>2, PlaceIs
  <2>4. g[i] = ByteAt(s, m, "clear")
    BY <1>1, <2>1 DEF Run
  <2> QED BY <2>3, <2>4 DEF ByteAt, Byte
<1>4. g = [i \in 1..n |-> g[i]]
  <2>1. DOMAIN g = 1..Len(g) /\ g = [i \in DOMAIN g |-> g[i]]
    BY <1>1
  <2> QED BY <1>2, <2>1
<1>5. g = Part(s, n)
  BY <1>3, <1>4 DEF Part
<1>6. n <= Chunked(x.sent)
  <2>1. x.sent \in Nat
    BY Sizes DEF Formed, Shaped
  <2>2. Chunked(x.sent) \in Nat
    BY <2>1, ChunkedNext
  <2>3. CASE y.completed
    <3>1. Place(y) = ResponseLen + n
      BY <2>3 DEF Place, Taken, Formed, Shaped
    <3>2. End(s, x) >= Place(y)
      <4>1. /\ Place(y) \in Nat /\ Size(y.eIn) \in Nat /\ Size(y.tcpIn) \in Nat /\ Size(w) \in Nat
            /\ Size(x.eOut) \in Nat /\ Size(x.out) \in Nat
            /\ End(s, x) = Place(y) + Size(y.eIn) + Size(y.tcpIn) + Size(w) + Size(x.eOut)
                             + Size(x.out)
        BY Places
      <4> QED BY <4>1
    <3>3. End(s, x) = Begun(s, x) + Chunked(x.sent)
      BY DEF End
    <3>4. Begun(s, x) \in Nat /\ Begun(s, x) <= ResponseLen
      BY Sizes DEF Begun
    <3>5. PICK b \in Nat, c \in Nat : b = Begun(s, x) /\ c = Chunked(x.sent)
      BY <2>2, <3>4
    <3>6. b + c >= ResponseLen + n /\ b <= ResponseLen
      BY <3>1, <3>2, <3>3, <3>4, <3>5
    <3>7. n <= c
      <4>1. n \in Nat
        BY <1>2
      <4> QED BY <3>6, <4>1, Sizes
    <3> QED BY <3>5, <3>7
  <2>4. CASE ~y.completed
    <3>1. n = 0
      BY <2>4, SizeEmpty DEF Formed, Shaped
    <3> QED BY <2>2, <3>1
  <2> QED BY <2>3, <2>4
<1> QED BY <1>2, <1>5, <1>6 DEF Chunked

\* What is encrypted between the cursors of the sender and of the receiver.
LEMMA Aligned ==
    ASSUME NEW s \in Sides, NEW x, NEW y, NEW w, Formed(s, x), Flow(s, x, y, w),
           HasKeys(x), HasKeys(y)
    PROVE  x.keyOut - y.keyIn = Masked(x.eOut) + Masked(w) + Masked(y.tcpIn)
<1> PICK a, d, t, e, o, end :
      /\ a = Place(y) /\ d = y.eIn /\ t = y.tcpIn /\ e = x.eOut /\ o = x.out /\ end = End(s, x)
  OBVIOUS
<1>1. conf.encrypted
  BY DEF HasKeys
<1>2. /\ a \in Nat /\ Size(d) \in Nat /\ Size(t) \in Nat /\ Size(w) \in Nat /\ Size(e) \in Nat
      /\ Size(o) \in Nat /\ Stream(s, a, d, t, w, e, o, end)
  BY Places
<1>p. PICK p \in Nat : p = a + Size(d)
  BY <1>2
<1>q. PICK q \in Nat : q = p + Size(t)
  BY <1>2
<1>r. PICK r \in Nat : r = q + Size(w)
  BY <1>2
<1>v. PICK v \in Nat : v = r + Size(e)
  BY <1>2
<1>3. p = a + Size(d) /\ q = p + Size(t) /\ r = q + Size(w) /\ v = r + Size(e)
  BY <1>p, <1>q, <1>r, <1>v
<1>4. /\ Run(s, t, p, "wire") /\ Run(s, w, q, "wire") /\ Run(s, e, r, "wire")
      /\ end = v + Size(o)
  BY <1>3, <1>2 DEF Stream
<1>5. Masked(t) = Over(q) - Over(p) /\ Masked(w) = Over(r) - Over(q)
      /\ Masked(e) = Over(v) - Over(r)
  BY <1>1, <1>3, <1>4, MaskedRun
<1>6. Over(end) = Over(v)
  <2>1. CASE x.rtmpe
    <3>1. Size(o) = 0
      BY <2>1, SizeEmpty DEF Formed
    <3> QED BY <1>4, <3>1
  <2>2. CASE ~x.rtmpe
    <3>1. ~x.completed
      BY <1>1, <2>2 DEF Formed, Shaped
    <3>2. end <= ResponseLen
      BY <3>1, Ends
    <3>3. end \in Nat /\ v <= ResponseLen
      BY <1>2, <1>4, <3>2, Sizes
    <3> QED BY <3>2, <3>3, OverIs
  <2> QED BY <2>1, <2>2
<1>7. x.keyOut = Half + Over(end) /\ y.keyIn = Half + Over(p)
  BY <1>3 DEF Flow
<1>8. Over(p) \in Int /\ Over(q) \in Int /\ Over(r) \in Int /\ Over(v) \in Int
  BY Sizes DEF Over
<1>9. PICK i \in Int, j \in Int, k \in Int, l \in Int :
        i = Over(p) /\ j = Over(q) /\ k = Over(r) /\ l = Over(v)
  BY <1>8
<1>10. x.keyOut - y.keyIn = l - i
  BY <1>6, <1>7, <1>9, Sizes
<1>11. Masked(e) + Masked(w) + Masked(t) = l - i
  BY <1>5, <1>9
<1> QED BY <1>10, <1>11

LEMMA Empty == ASSUME NEW s PROVE <<>> = Part(s, 0) /\ Len(<<>>) = 0
BY DEF Part

\* Wherever TCP cuts the bytes and RTMPE is inserted between them: what ProcessBytes gets
\* is what its peer sent, each byte once, in order and decrypted, as long as no
\* byte that came with C2 stayed in the transport's buffer; and the server has no more
\* than the request in its input when it throws it away.
THEOREM BytesDecodedInOrder == Spec => []DecodedInOrder
<1>1. IInv => DecodedInOrder
  <2> SUFFICES ASSUME IInv PROVE DecodedInOrder
    OBVIOUS
  <2>1. NothingThrownAway
    BY DEF IInv
  <2>2. ASSUME ~residue, NEW s \in Sides
        PROVE  /\ party[s].got = Part(Peer(s), Len(party[s].got))
               /\ Len(party[s].got) <= party[Peer(s)].sent * ChunkLen
    <3>1. /\ Formed(s, party[s]) /\ Formed(Peer(s), party[Peer(s)]) /\ Peer(s) \in Sides
          /\ Peer(Peer(s)) = s /\ up \in BOOLEAN
      BY Known, Kinds
    <3>2. CASE up
      <4>1. Flow(Peer(s), party[Peer(s)], party[s], net[s])
        BY <2>2, <3>2, Known
      <4> QED BY <3>1, <4>1, Decoded
    <3>3. CASE ~up
      <4>1. ~party[s].completed /\ ~party[Peer(s)].completed
        BY <2>2, <3>1, <3>3 DEF IInv
      <4>2. party[s].got = <<>> /\ party[Peer(s)].sent = 0
        BY <3>1, <4>1 DEF Formed, Shaped
      <4>3. 0 <= 0 * ChunkLen
        BY Sizes
      <4> QED BY <4>2, <4>3, Empty
    <3> QED BY <3>1, <3>2, <3>3
  <2> QED BY <2>1, <2>2 DEF DecodedInOrder
<1> QED BY <1>1, Inductive, PTL

\* The state machine of each side goes with its keys, and both ends count the same bytes
\* of a keystream: what the sender is ahead is encrypted on its way, in RTMPE's
\* output, on the network or in the transport's input.
THEOREM KeystreamsStayAligned == Spec => []KeystreamsAligned
<1>1. IInv => KeystreamsAligned
  <2> SUFFICES ASSUME IInv PROVE KeystreamsAligned
    OBVIOUS
  <2>1. TypeOK
    <3>1. ASSUME NEW s \in Sides
          PROVE  LET x == party[s]
                 IN  /\ x.state \in IF s = "server"
                                    THEN {"NOT_INITIALIZED", "SERVER_RESPONSE_SENT", "DONE"}
                                    ELSE {"NOT_INITIALIZED", "CLIENT_REQUEST_SENT", "DONE"}
                     /\ x.completed <=> x.state = "DONE"
                     /\ x.rtmpe <=> x.completed /\ conf.encrypted
                     /\ x.keyIn # -1 <=> x.keyOut # -1
                     /\ x.sent \in 0..Chunks
                     /\ x.skip \in 0..Half
      <4>1. Formed(s, party[s])
        BY Known
      <4>2. s = "server" \/ s = "client"
        BY DEF Sides
      <4>3. 0 \in 0..Half
        BY Sizes
      <4>4. party[s].keyIn # -1 <=> party[s].keyOut # -1
        <5>1. \A n \in Nat : n # -1
          OBVIOUS
        <5> QED BY <4>1, <5>1 DEF Formed, Shaped
      <4> QED BY <4>1, <4>2, <4>3, <4>4 DEF Formed, Shaped, Waiting
    <3>2. up \in BOOLEAN /\ residue \in BOOLEAN
      BY DEF IInv
    <3> QED BY <3>1, <3>2 DEF TypeOK
  <2>2. ASSUME ~residue, NEW s \in Sides,
               party[s].keyOut # -1, party[Peer(s)].keyIn # -1
        PROVE  party[s].keyOut - party[Peer(s)].keyIn
                 = Masked(party[s].eOut) + Masked(net[Peer(s)]) + Masked(party[Peer(s)].tcpIn)
    <3>1. /\ Formed(s, party[s]) /\ Formed(Peer(s), party[Peer(s)]) /\ up \in BOOLEAN
      BY Known
    <3>2. HasKeys(party[s]) /\ HasKeys(party[Peer(s)])
      BY <2>2, <3>1 DEF Formed, Shaped
    <3>3. up
      <4>1. party["client"].state = "DONE" /\ Formed("client", party["client"])
        <5>1. HasKeys(party["client"]) /\ Formed("client", party["client"])
          BY <3>1, <3>2 DEF Sides, Peer
        <5> QED BY <5>1 DEF HasKeys, Formed, Shaped, Waiting
      <4>2. party["client"].completed
        BY <4>1 DEF Formed, Shaped
      <4> QED BY <2>2, <3>1, <4>2, Kinds DEF IInv
    <3>4. Flow(s, party[s], party[Peer(s)], net[Peer(s)])
      BY <2>2, <3>3, Known
    <3> QED BY <3>1, <3>2, <3>4, Aligned
  <2> QED BY <2>1, <2>2 DEF KeystreamsAligned
<1> QED BY <1>1, Inductive, PTL

==============================================================================
