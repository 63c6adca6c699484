--------------------------- MODULE RTMPHandshake ---------------------------
(***************************************************************************)
(* The RTMP handshake between an OutboundRTMPProtocol (the client) and an  *)
(* InboundRTMPProtocol (the server) over TCP, plain or encrypted, and the  *)
(* first messages after it (protocols/rtmp).                               *)
(*                                                                         *)
(* The bytes are the point: requests and answers arrive in pieces, RTMPE   *)
(* is inserted in the chain of protocols in the middle of the stream, and  *)
(* RC4 only works if both ends count the same bytes.  A byte is a record:  *)
(* the part it belongs to, its place n there and its mask, the set of      *)
(* keystream positions that were xored into it and not taken out again.    *)
(* C1, S1, S2 and C2 have Half bytes each, 1536 in the code.  Digests and  *)
(* keys are abstracted to whether a part carries a valid digest and to the *)
(* cursors of the keystreams.                                              *)
(***************************************************************************)
EXTENDS Integers, FiniteSets, Sequences

CONSTANTS
  Half,       \* bytes of one half of a response: 1536
  ChunkLen,   \* bytes of an RTMP chunk, its basic header included
  Chunks      \* chunks each side sends after the handshake (a bound)

ASSUME SizesAssumption ==
  /\ Half \in Nat \ {0}
  /\ ChunkLen \in Nat \ {0, 1}
  /\ Chunks \in Nat \ {0}

VARIABLES
  conf,      \* what is configured, and whether the client has a digest
  party,     \* the state of each side's protocols
  net,       \* the bytes on their way to each side
  up,        \* the connection is there
  residue    \* decrypted bytes stayed in the transport's buffer (history)

vars == <<conf, party, net, up, residue>>

Sides == {"client", "server"}
Peer(s) == IF s = "client" THEN "server" ELSE "client"

Part(p, len) == [n \in 1..len |-> [part |-> p, n |-> n, mask |-> {}]]
Chunk(s, k) == [n \in 1..ChunkLen |->
                  [part |-> s, n |-> (k - 1) * ChunkLen + n, mask |-> {}]]
\* What each step of the handshake waits for.
RequestLen == 1 + Half
\* Mistake: the client answers S1.
ResponseLen_Half == 1 + Half
ResponseLen == 1 + 2 * Half
ReplyLen == Half

Type(encrypted) == IF encrypted THEN "6" ELSE "3"
Ignore(seq, len) == SubSeq(seq, len + 1, Len(seq))

\* RC4 with its cursor at k on the bytes of seq after the first skip: xor is
\* its own inverse.
RC4(seq, k, skip) ==
  [i \in 1..Len(seq) |->
     LET pos == {k + i - skip - 1}
     IN  IF i <= skip THEN seq[i]
         ELSE [seq[i] EXCEPT !.mask = (@ \cup pos) \ (@ \cap pos)]]

-----------------------------------------------------------------------------
(* Where the Diffie-Hellman key and the digest of a part are: a place read *)
(* off the sum of four bytes of it, by one of two schemes.                 *)

Sums == 0..1020     \* four bytes

DHOffset_Wide(sum, scheme) == (sum % 764) + (IF scheme = 0 THEN 772 ELSE 8)
DHOffset(sum, scheme) == (sum % 632) + (IF scheme = 0 THEN 772 ELSE 8)
DHSource(scheme) == IF scheme = 0 THEN 1532 ELSE 768

DigestOffset(sum, scheme) == (sum % 728) + (IF scheme = 0 THEN 12 ELSE 776)
DigestSource(scheme) == IF scheme = 0 THEN 8 ELSE 772

-----------------------------------------------------------------------------
(* One side x: x.out is the RTMP protocol's _outputBuffer, x.tcpIn the TCP *)
(* protocol's _inputBuffer, x.eIn and x.eOut are RTMPE's buffers once      *)
(* x.rtmpe says it is in the chain; a key is its cursor, -1 for NULL.      *)

\* Mistake: RTMPE encrypts C2 as well.
EnqueueForOutbound_NoSkip(x) ==
  IF ~x.rtmpe THEN [x EXCEPT !.writing = TRUE]
  ELSE IF x.out = <<>> THEN x
  ELSE [x EXCEPT !.eOut = @ \o RC4(x.out, x.keyOut, 0),
                 !.keyOut = @ + Len(x.out),
                 !.skip = 0, !.out = <<>>, !.writing = TRUE]

\* EnqueueForOutbound down the chain: RTMPE takes what its near protocol has.
EnqueueForOutbound(x) ==
  IF ~x.rtmpe THEN [x EXCEPT !.writing = TRUE]
  ELSE IF x.out = <<>> THEN x
  ELSE [x EXCEPT !.eOut = @ \o RC4(x.out, x.keyOut, x.skip),
                 !.keyOut = @ + Len(x.out) - x.skip,
                 !.skip = 0, !.out = <<>>, !.writing = TRUE]

SendMessage(s, x) ==
  EnqueueForOutbound([x EXCEPT !.out = @ \o Chunk(s, x.sent + 1), !.sent = @ + 1])

\* ProcessBytes on buffer b: the basic header of a chunk leaves the buffer as
\* soon as it is there (_selectedChannel is set), the rest when complete.
ProcessBytes(x, b) ==
  LET begun == IF x.midChunk THEN 1 ELSE 0
      total == begun + Len(x[b])
      taken == IF total % ChunkLen = 0 THEN Len(x[b])
               ELSE (total \div ChunkLen) * ChunkLen + 1 - begun
  IN  [x EXCEPT ![b] = Ignore(x[b], taken),
                !.midChunk = total % ChunkLen # 0,
                !.got = @ \o SubSeq(x[b], 1, taken)]

\* The server's answer: the complex one when the client's digest is valid,
\* which throws away all of the input, or the simple one.
ServerResponds(x) ==
  LET encrypted == x.tcpIn[1].part = "6"
      valid == x.tcpIn[2].part = "C1 with digest"
  IN  EnqueueForOutbound(
        [x EXCEPT !.out = @ \o Part(Type(encrypted), 1)
                            \o Part(IF valid THEN "S1 with digest" ELSE "S1", Half)
                            \o Part("S2", Half),
                  !.tcpIn = IF valid THEN <<>> ELSE Ignore(@, RequestLen),
                  !.keyIn = IF encrypted THEN Half ELSE @,
                  !.keyOut = IF encrypted THEN Half ELSE @,
                  !.state = "SERVER_RESPONSE_SENT"])

ServerRefuses(x) ==
  /\ x.state = "NOT_INITIALIZED" /\ Len(x.tcpIn) >= RequestLen
  /\ x.tcpIn[2].part # "C1 with digest"
  /\ x.tcpIn[1].part = "6" \/ conf.serverValidates

\* C2 is there: RTMPE is inserted, and what came with C2 is decrypted in place.
ServerFinishes(x) ==
  LET rest == Ignore(x.tcpIn, ReplyLen)
      done == [x EXCEPT !.tcpIn = rest, !.completed = TRUE, !.state = "DONE"]
  IN  IF x.keyIn = -1 THEN done
      ELSE [done EXCEPT !.rtmpe = TRUE, !.tcpIn = RC4(rest, x.keyIn, 0),
                        !.keyIn = @ + Len(rest)]

\* PerformHandshakeStage1.
ClientRequests(x) ==
  EnqueueForOutbound(
    [x EXCEPT !.out = @ \o Part(Type(conf.encrypted), 1)
                        \o Part(IF conf.digest THEN "C1 with digest" ELSE "C1", Half),
              !.state = "CLIENT_REQUEST_SENT"])

ClientRefuses(x) ==
  /\ x.state = "CLIENT_REQUEST_SENT" /\ Len(x.tcpIn) >= ResponseLen
  /\ conf.encrypted \/ conf.clientValidates
  /\ x.tcpIn[2].part # "S1 with digest"

\* PerformHandshakeStage2, and RTMPE inserted while C2 waits in _outputBuffer.
ClientFinishes(x) ==
  LET replied == EnqueueForOutbound([x EXCEPT !.out = @ \o Part("C2", Half)])
      done == [replied EXCEPT !.state = "DONE", !.completed = TRUE,
                              !.tcpIn = Ignore(@, ResponseLen)]
  IN  IF ~conf.encrypted THEN done
      ELSE [done EXCEPT !.rtmpe = TRUE, !.skip = Len(replied.out),
                        !.keyIn = Half, !.keyOut = Half]

\* A step of the handshake when enough bytes have come for it.
PerformHandshake(s, x) ==
  CASE s = "server" /\ x.state = "NOT_INITIALIZED" /\ Len(x.tcpIn) >= RequestLen
         -> ServerResponds(x)
    [] s = "server" /\ x.state = "SERVER_RESPONSE_SENT" /\ Len(x.tcpIn) >= ReplyLen
         -> ServerFinishes(x)
    [] s = "client" /\ x.state = "CLIENT_REQUEST_SENT" /\ Len(x.tcpIn) >= ResponseLen
         -> ClientFinishes(x)
    [] OTHER -> x

\* Mistake: OutboundConnectionEstablished is not called.
SignalInputData_NotEstablished(s, x, b) ==
  IF x.completed THEN ProcessBytes(x, b)
  ELSE LET y == PerformHandshake(s, x)
       IN  IF y.completed THEN ProcessBytes(y, b) ELSE y

\* BaseRTMPProtocol::SignalInputData on buffer b.  Once the handshake is over
\* it calls itself for the rest, and the client sends its first message.
SignalInputData(s, x, b) ==
  IF x.completed THEN ProcessBytes(x, b)
  ELSE LET y == PerformHandshake(s, x)
       IN  IF ~y.completed THEN y
           ELSE IF s = "client" THEN SendMessage(s, ProcessBytes(y, b))
           ELSE ProcessBytes(y, b)

\* RTMPEProtocol::SignalInputData decrypts all that is in the transport's
\* buffer and hands its own buffer on.
Receive(s, x) ==
  IF x.rtmpe
  THEN SignalInputData(s, [x EXCEPT !.eIn = @ \o RC4(x.tcpIn, x.keyIn, 0),
                                    !.keyIn = @ + Len(x.tcpIn), !.tcpIn = <<>>], "eIn")
  ELSE SignalInputData(s, x, "tcpIn")

Refuses(s, x) == IF s = "server" THEN ServerRefuses(x) ELSE ClientRefuses(x)

-----------------------------------------------------------------------------
NewParty ==
  [state |-> "NOT_INITIALIZED", completed |-> FALSE, rtmpe |-> FALSE, skip |-> 0,
   keyIn |-> -1, keyOut |-> -1, out |-> <<>>, eIn |-> <<>>, eOut |-> <<>>,
   tcpIn |-> <<>>, writing |-> FALSE, midChunk |-> FALSE, sent |-> 0, got |-> <<>>]

\* The client of this repository always has a digest.  A player of another
\* make may have none: it speaks plain RTMP and validates nothing.
Init ==
  /\ conf \in [encrypted : BOOLEAN, clientValidates : BOOLEAN,
               serverValidates : BOOLEAN, digest : BOOLEAN]
  /\ conf.digest \/ ~(conf.encrypted \/ conf.clientValidates)
  /\ party = [s \in Sides |-> NewParty]
  /\ net = [s \in Sides |-> <<>>]
  /\ up = TRUE /\ residue = FALSE

\* OutboundRTMPProtocol::SignalProtocolCreated.
Connected ==
  /\ up /\ party["client"].state = "NOT_INITIALIZED"
  /\ party' = [party EXCEPT !["client"] = ClientRequests(@)]
  /\ UNCHANGED <<conf, net, up, residue>>

\* EPOLLOUT: the carrier sends the first bytes of what GetOutputBuffer of the
\* protocol next to TCP returns.
Write(s) ==
  LET x == party[s]
      b == IF x.rtmpe THEN "eOut" ELSE "out"
  IN  /\ up /\ x.writing
      /\ \/ /\ x[b] = <<>>
            /\ party' = [party EXCEPT ![s].writing = FALSE]
            /\ UNCHANGED net
         \/ \E k \in 1..Len(x[b]) :
              /\ party' = [party EXCEPT ![s] =
                             [@ EXCEPT ![b] = Ignore(x[b], k), !.writing = k # Len(x[b])]]
              /\ net' = [net EXCEPT ![Peer(s)] = @ \o SubSeq(x[b], 1, k)]
      /\ UNCHANGED <<conf, up, residue>>

\* EPOLLIN with the next k bytes.  Garbage in a header may be refused or not.
Read(s) ==
  \E k \in 1..Len(net[s]) :
    LET x == [party[s] EXCEPT !.tcpIn = @ \o SubSeq(net[s], 1, k)]
        y == Receive(s, x)
        garbled == \E i \in 1..Len(y.got) : y.got[i].mask # {}
    IN  /\ up
        /\ net' = [net EXCEPT ![s] = Ignore(@, k)]
        /\ IF Refuses(s, x)
           THEN up' = FALSE /\ UNCHANGED <<party, residue>>
           ELSE /\ party' = [party EXCEPT ![s] = y]
                /\ residue' = (residue \/ (y.rtmpe /\ y.tcpIn # <<>>))
                /\ up' \in {TRUE, ~garbled}
        /\ UNCHANGED conf

\* A message of the application, the server's in answer to one it got.
Send(s) ==
  /\ up /\ party[s].completed /\ party[s].sent < Chunks
  /\ s = "server" => Len(party[s].got) >= ChunkLen
  /\ party' = [party EXCEPT ![s] = SendMessage(s, @)]
  /\ UNCHANGED <<conf, net, up, residue>>

Next == Connected \/ \E s \in Sides : Write(s) \/ Read(s) \/ Send(s)

\* Descriptors are level triggered: what is ready is signalled again.
Fairness == WF_vars(Connected) /\ \A s \in Sides : WF_vars(Write(s)) /\ WF_vars(Read(s))

Spec == Init /\ [][Next]_vars
FairSpec == Spec /\ Fairness
-----------------------------------------------------------------------------
(* Properties.                                                             *)

Masked(seq) == Cardinality({i \in 1..Len(seq) : seq[i].mask # {}})

\* len1 bytes at o1 and len2 bytes at o2 have none in common.
Apart(o1, len1, o2, len2) == o1 + len1 <= o2 \/ o2 + len2 <= o1

\* The client picks the scheme, the server finds it by trying both.
UsedScheme == IF conf.encrypted THEN 1 ELSE 0

\* When the request is about to be written, and for the answer too: wherever the
\* scheme puts the key (128 bytes) and the digest (32), they are in the part,
\* after its time and version, and writing them touches neither each other nor
\* the bytes the receiver will read their places off.
OffsetsApart ==
  party["client"].state = "NOT_INITIALIZED" =>
    LET keys == {DHOffset(sum, UsedScheme) : sum \in Sums}
        digests == {DigestOffset(sum, UsedScheme) : sum \in Sums}
        sources == {DHSource(UsedScheme), DigestSource(UsedScheme)}
    IN  /\ \A key \in keys :
             /\ 8 <= key /\ key + 128 < 1536
             /\ \A source \in sources : Apart(key, 128, source, 4)
        /\ \A digest \in digests :
             /\ 8 <= digest /\ digest + 32 < 1536
             /\ \A source \in sources : Apart(digest, 32, source, 4)
        /\ \A key \in keys, digest \in digests : Apart(key, 128, digest, 32)

\* The state machine of each side goes with its keys and its buffers.
TypeOK ==
  /\ up \in BOOLEAN /\ residue \in BOOLEAN
  /\ \A s \in Sides :
       LET x == party[s]
       IN  /\ x.state \in IF s = "server"
                          THEN {"NOT_INITIALIZED", "SERVER_RESPONSE_SENT", "DONE"}
                          ELSE {"NOT_INITIALIZED", "CLIENT_REQUEST_SENT", "DONE"}
           /\ x.completed <=> x.state = "DONE"
           /\ x.rtmpe <=> x.completed /\ conf.encrypted
           /\ x.keyIn # -1 <=> x.keyOut # -1
           /\ x.sent \in 0..Chunks
           /\ x.skip \in 0..Half

\* A complex answer throws all of the server's input away (IgnoreAll): while it
\* is to come, nothing but the request was ever sent to the server.
NothingThrownAway ==
  party["server"].state = "NOT_INITIALIZED"
    => /\ ~party["client"].completed
       /\ Len(party["client"].out) + Len(net["server"]) + Len(party["server"].tcpIn)
            <= RequestLen

\* Wherever the bytes were cut, what ProcessBytes gets is what the other side
\* sent, each byte once, in order and decrypted; as long as no decrypted byte
\* stayed in the transport's buffer.
DecodedInOrder ==
  /\ NothingThrownAway
  /\ ~residue => \A s \in Sides :
       /\ party[s].got = Part(Peer(s), Len(party[s].got))
       /\ Len(party[s].got) <= party[Peer(s)].sent * ChunkLen

\* Both ends count the same bytes: what the keystream of a sender is ahead of
\* the receiver's is what is encrypted between them.
KeystreamsAligned ==
  /\ TypeOK
  /\ ~residue => \A s \in Sides :
       LET x == party[s]
           y == party[Peer(s)]
       IN  x.keyOut # -1 /\ y.keyIn # -1 =>
             x.keyOut - y.keyIn = Masked(x.eOut) + Masked(net[Peer(s)]) + Masked(y.tcpIn)

\* However the bytes are cut, the handshake comes to its end on both sides and
\* every message sent arrives: C2, which RTMPE holds back until there is a
\* message to send with it, is not stuck.
Converses ==
  <>[](up /\ ~residue => \A s \in Sides :
         /\ party[s].completed
         /\ party["client"].sent > 0
         /\ Len(party[s].got) = party[Peer(s)].sent * ChunkLen)

\* What the comment of PerformHandshake says where RTMPE is inserted, "decrypt
\* the leftovers": each byte that came with C2 is decrypted, once.
LeftoversDecrypted ==
  \A s \in Sides : \A i \in 1..Len(party[s].got) : party[s].got[i].mask = {}

==============================================================================
