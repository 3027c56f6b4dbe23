----------------------- MODULE StorageNodeServiceProofs -----------------------
(***************************************************************************)
(* Proofs about StorageNodeService, for any nodes, workers, chunks, limits *)
(* and any number of calls, faults and shutdowns.  The inductive invariant *)
(* says of a replication that what the reader has, what is under way and   *)
(* what the source has still to send are consecutive pieces of the chunk.  *)
(***************************************************************************)
EXTENDS StorageNodeService, SequenceTheorems, TLAPS

Msg == [kind : {"metadata"}, status : ChunkStatus, size : Nat]
         \cup [kind : {"data"}, data : Seq(Blocks)]
Ends == {"open", "ok", "error"}

TypeInv ==
  /\ mode \in [Nodes -> {"serving", "signalled", "draining", "down"}]
  /\ store \in [Nodes -> [Chunks -> {"absent", "good", "rotted"}]]
  /\ pc \in [Workers -> Places]
  /\ id \in [Workers -> Chunks \cup {Nil}]
  /\ payload \in [Workers -> Seq(Blocks)] /\ rest \in [Workers -> Seq(Blocks)]
  /\ peer \in [Workers -> Workers \cup {Nil}] /\ server \in [Workers -> Workers \cup {Nil}]
  /\ source \in [Workers -> Nodes \cup {Nil}]
  /\ stream \in [Workers -> [msgs : Seq(Msg), end : Ends]]
  /\ DOMAIN reply = Workers

\* data, cut at the places off, is on its way: pay has arrived, then msgs, and
\* rst is still to be sent.
Flow(data, pay, msgs, end, rst) ==
  \E off \in [1..Len(msgs) + 1 -> 0..Len(data)] :
    /\ pay = SubSeq(data, 1, off[1])
    /\ \A k \in 1..Len(msgs) :
         IF msgs[k].kind = "metadata" THEN off[k + 1] = off[k]
         ELSE off[k] <= off[k + 1] /\ msgs[k].data = SubSeq(data, off[k] + 1, off[k + 1])
    /\ end = "open" => rst = SubSeq(data, off[Len(msgs) + 1] + 1, Len(data))
    /\ end = "ok" => off[Len(msgs) + 1] = Len(data)

\* A worker keeps bytes and a stream for a call only.
Rests(w) ==
  /\ pc[w] = "idle" => server[w] = Nil /\ source[w] = Nil /\ stream[w] = Silent
  /\ pc[w] \notin {"put_read", "repl_read"} => payload[w] = <<>>
  /\ pc[w] \in {"put_read", "repl_open", "repl_read"} => id[w] \in Chunks

\* The metadata come first.
Offered(msgs, c) ==
  /\ msgs # <<>> /\ msgs[1].kind = "metadata" /\ msgs[1].status # "CHECKSUM_MISMATCH"
  /\ \A k \in 2..Len(msgs) : msgs[k].kind = "data"
  /\ msgs[1].status = "OK" => msgs[1].size = Len(Content[c])

\* The reader r is served by a handler that knows it, as long as neither left.
Joined(r, s) == pc[s] = "get_send" /\ peer[s] = r /\ NodeOf[s] = source[r]

Reading(r) ==
  /\ source[r] \in Nodes
  /\ server[r] = Nil => pc[r] = "repl_open" /\ stream[r].msgs = <<>> /\ stream[r].end # "ok"
  /\ server[r] # Nil =>
       /\ stream[r].end = "open" => Joined(r, server[r])
       /\ pc[r] = "repl_open" => Offered(stream[r].msgs, id[r])
       /\ pc[r] = "repl_read" =>
            /\ \A k \in 1..Len(stream[r].msgs) : stream[r].msgs[k].kind = "data"
            /\ Len(Content[id[r]]) <= MaxChunkBytes[NodeOf[r]]
       /\ pc[r] = "repl_read" \/ stream[r].msgs[1].status = "OK" =>
            Flow(Content[id[r]], payload[r], stream[r].msgs, stream[r].end, rest[server[r]])

Follows(r) == pc[r] \in {"repl_open", "repl_read"} => Reading(r)

Answers ==
  \A w \in Workers : reply[w] # Nil =>
    /\ reply[w].status \in ChunkStatus
    /\ ~(reply[w].rpc = "ReplicateChunk" /\ reply[w].status = "CHECKSUM_MISMATCH")

ServiceInv ==
  /\ TypeInv /\ WithinLimit /\ Answers
  /\ \A w \in Workers : Rests(w) /\ Follows(w)

-----------------------------------------------------------------------------
(* The flow of a chunk                                                      *)

\* The pieces of a sequence.
LEMMA Pieces ==
  ASSUME NEW d \in Seq(Blocks), NEW a \in 0..Len(d), NEW b \in a..Len(d)
  PROVE  /\ SubSeq(d, 1, a) \in Seq(Blocks) /\ Len(SubSeq(d, 1, a)) = a
         /\ SubSeq(d, a + 1, b) \in Seq(Blocks) /\ Len(SubSeq(d, a + 1, b)) = b - a
         /\ SubSeq(d, 1, a) \o SubSeq(d, a + 1, b) = SubSeq(d, 1, b)
  <1>1. \A i \in 1..Len(d) : d[i] \in Blocks
    OBVIOUS
  <1>2. SubSeq(d, 1, a) \in Seq(Blocks) /\ Len(SubSeq(d, 1, a)) = a
    <2>1. \A i \in 1..a : d[i] \in Blocks
      BY <1>1
    <2> QED BY <2>1, SubSeqProperties
  <1>3. SubSeq(d, a + 1, b) \in Seq(Blocks) /\ Len(SubSeq(d, a + 1, b)) = b - a
    <2>1. \A i \in a + 1..b : d[i] \in Blocks
      BY <1>1
    <2>2. a + 1 \in Int /\ b \in Int
      OBVIOUS
    <2>3. /\ SubSeq(d, a + 1, b) \in Seq(Blocks)
          /\ Len(SubSeq(d, a + 1, b)) = IF a + 1 <= b THEN b - (a + 1) + 1 ELSE 0
      BY <2>1, <2>2, SubSeqProperties, Zenon
    <2> QED BY <2>3
  <1>4. SubSeq(d, 1, a) \o SubSeq(d, a + 1, b) = SubSeq(d, 1, b)
    BY ConcatAdjacentSubSeq
  <1> QED BY <1>2, <1>3, <1>4, Zenon

(* A sequence of blocks cut after its first k blocks (GetChunk's next frame *)
(* and what is still to be sent) is two sequences of blocks.                *)
LEMMA CutFront ==
  \A d \in Seq(Blocks) : \A k \in 1..Len(d) :
    SubSeq(d, 1, k) \in Seq(Blocks) /\ SubSeq(d, k + 1, Len(d)) \in Seq(Blocks)
  <1> SUFFICES ASSUME NEW d \in Seq(Blocks), NEW k \in 1..Len(d)
               PROVE  SubSeq(d, 1, k) \in Seq(Blocks) /\ SubSeq(d, k + 1, Len(d)) \in Seq(Blocks)
    OBVIOUS
  <1>1. k \in 0..Len(d) /\ Len(d) \in k..Len(d)
    BY LenProperties
  <1> QED BY <1>1, Pieces, Zenon

\* The first k of what follows place a, and the rest of it.
LEMMA PiecesOfPiece ==
  ASSUME NEW d \in Seq(Blocks), NEW a \in 0..Len(d), NEW k \in 1..Len(d) - a
  PROVE  LET r == SubSeq(d, a + 1, Len(d)) IN
         /\ Len(r) = Len(d) - a
         /\ SubSeq(r, 1, k) = SubSeq(d, a + 1, a + k)
         /\ SubSeq(r, k + 1, Len(r)) = SubSeq(d, a + k + 1, Len(d))
  <1> DEFINE r == SubSeq(d, a + 1, Len(d))
  <1>1. r \in Seq(Blocks) /\ Len(r) = Len(d) - a
    BY Pieces
  <1>2. a + 1 \in 1..Len(d) /\ Len(d) \in 1..Len(d) /\ Len(d) - (a + 1) + 1 = Len(d) - a
    OBVIOUS
  <1>3. SubSeq(r, 1, k) = SubSeq(d, a + 1, a + k)
    <2>1. PICK m \in 1..Len(d) - (a + 1) + 1 : m = 1
      BY <1>2
    <2>2. k \in 1..Len(d) - (a + 1) + 1
      BY <1>2, Zenon
    <2>3. SubSeq(r, m, k) = SubSeq(d, (a + 1) + m - 1, (a + 1) + k - 1)
      BY <1>2, <2>2, SubSeqOfSubSeq
    <2>4. (a + 1) + m - 1 = a + 1 /\ (a + 1) + k - 1 = a + k
      BY <2>1
    <2> HIDE DEF r
    <2> QED BY <2>1, <2>3, <2>4, Zenon
  <1>4. SubSeq(r, k + 1, Len(r)) = SubSeq(d, a + k + 1, Len(d))
    <2>1. CASE k = Len(d) - a
      <3>1. k + 1 > Len(r) /\ a + k + 1 > Len(d)
        BY <1>1, <2>1
      <3>2. k + 1 \in Int /\ Len(r) \in Int /\ a + k + 1 \in Int /\ Len(d) \in Int
        BY <1>1
      <3> HIDE DEF r
      <3>3. SubSeq(r, k + 1, Len(r)) = <<>> /\ SubSeq(d, a + k + 1, Len(d)) = <<>>
        BY <3>1, <3>2, SubSeqEmpty, Zenon
      <3> QED BY <3>3, Zenon
    <2>2. CASE k < Len(d) - a
      <3>1. k + 1 \in 1..Len(d) - (a + 1) + 1 /\ Len(r) \in 1..Len(d) - (a + 1) + 1
        BY <1>1, <1>2, <2>2
      <3>2. SubSeq(r, k + 1, Len(r)) = SubSeq(d, (a + 1) + (k + 1) - 1, (a + 1) + Len(r) - 1)
        BY <1>2, <3>1, SubSeqOfSubSeq
      <3> HIDE DEF r
      <3>3. (a + 1) + (k + 1) - 1 = a + k + 1 /\ (a + 1) + Len(r) - 1 = Len(d)
        BY <1>1
      <3> QED BY <3>2, <3>3, Zenon
    <2> QED BY <2>1, <2>2
  <1> QED BY <1>1, <1>3, <1>4, Zenon

\* A chunk of which the source has sent nothing but the metadata.
LEMMA FlowStart ==
  ASSUME NEW d \in Seq(Blocks), NEW m \in Msg, m.kind = "metadata"
  PROVE  Flow(d, <<>>, <<m>>, "open", d)
  <1> DEFINE off == [k \in 1..Len(<<m>>) + 1 |-> 0]
  <1>1. Len(<<m>>) = 1 /\ <<m>>[1] = m /\ Len(d) \in Nat
    OBVIOUS
  <1>2. off \in [1..Len(<<m>>) + 1 -> 0..Len(d)] /\ off[1] = 0 /\ off[2] = 0
    BY <1>1
  <1>3. SubSeq(d, 1, 0) = <<>>
    BY SubSeqEmpty
  <1>4. SubSeq(d, 1, Len(d)) = d
    BY SubSeqFull, Zenon
  <1>5. 0 + 1 = 1 /\ Len(<<m>>) + 1 = 2 /\ 1..Len(<<m>>) = {1}
    BY <1>1
  <1>6. \A k \in 1..Len(<<m>>) : <<m>>[k].kind = "metadata" /\ off[k + 1] = off[k]
    BY <1>1, <1>2, <1>5, Zenon
  <1> HIDE DEF off
  <1> QED BY <1>1, <1>2, <1>3, <1>4, <1>5, <1>6 DEF Flow

\* What has arrived is never longer than the chunk.
LEMMA FlowLength ==
  ASSUME NEW d \in Seq(Blocks), NEW pay, NEW msgs \in Seq(Msg), NEW end, NEW rst,
         Flow(d, pay, msgs, end, rst)
  PROVE  Len(pay) <= Len(d)
  <1>1. PICK off \in [1..Len(msgs) + 1 -> 0..Len(d)] : pay = SubSeq(d, 1, off[1])
    BY Zenon DEF Flow
  <1>2. off[1] \in 0..Len(d) /\ Len(d) \in off[1]..Len(d)
    OBVIOUS
  <1>3. Len(pay) = off[1]
    BY <1>1, <1>2, Pieces, Zenon
  <1> QED BY <1>2, <1>3

\* A stream read to the end of a source that sent everything gave the chunk.
LEMMA FlowComplete ==
  ASSUME NEW d \in Seq(Blocks), NEW pay, NEW rst, Flow(d, pay, <<>>, "ok", rst)
  PROVE  pay = d
  <1>1. PICK off \in [1..Len(<<>>) + 1 -> 0..Len(d)] :
          pay = SubSeq(d, 1, off[1]) /\ off[Len(<<>>) + 1] = Len(d)
    BY Zenon DEF Flow
  <1>2. Len(<<>>) + 1 = 1
    OBVIOUS
  <1> QED BY <1>1, <1>2, SubSeqFull, Zenon

\* Once the source has left, what it had to send does not matter; a stream that
\* breaks promises no more than what arrived.
LEMMA FlowLeft ==
  ASSUME NEW d \in Seq(Blocks), NEW pay, NEW msgs \in Seq(Msg), NEW end, NEW rst, NEW rst2,
         NEW end2, Flow(d, pay, msgs, end, rst), end2 = "error" \/ (end2 = end /\ end # "open")
  PROVE  Flow(d, pay, msgs, end2, rst2)
  BY Zenon DEF Flow

\* The source returns after its last frame.
LEMMA FlowReturned ==
  ASSUME NEW d \in Seq(Blocks), NEW pay, NEW msgs \in Seq(Msg), NEW rst,
         Flow(d, pay, msgs, "open", <<>>)
  PROVE  Flow(d, pay, msgs, "ok", rst)
  <1>1. PICK off \in [1..Len(msgs) + 1 -> 0..Len(d)] :
          /\ pay = SubSeq(d, 1, off[1])
          /\ \A k \in 1..Len(msgs) :
               IF msgs[k].kind = "metadata" THEN off[k + 1] = off[k]
               ELSE off[k] <= off[k + 1] /\ msgs[k].data = SubSeq(d, off[k] + 1, off[k + 1])
          /\ <<>> = SubSeq(d, off[Len(msgs) + 1] + 1, Len(d))
    BY Zenon DEF Flow
  <1>2. PICK a \in 0..Len(d) : a = off[Len(msgs) + 1]
    <2>1. Len(msgs) + 1 \in 1..Len(msgs) + 1
      OBVIOUS
    <2>2. off[Len(msgs) + 1] \in 0..Len(d)
      BY <2>1, Zenon
    <2> QED BY <2>2, Zenon
  <1>3. Len(SubSeq(d, a + 1, Len(d))) = Len(d) - a
    BY Pieces
  <1>4. a = Len(d)
    <2>1. SubSeq(d, a + 1, Len(d)) = <<>>
      BY <1>1, <1>2, Zenon
    <2>2. Len(d) - a = Len(<<>>)
      BY <1>3, <2>1, Zenon
    <2> QED BY <2>2
  <1> QED BY <1>1, <1>2, <1>4, Zenon DEF Flow

\* Cut says that off are the places where data is cut into pay and msgs.
Cut(data, pay, msgs, off) ==
  /\ off \in [1..Len(msgs) + 1 -> 0..Len(data)]
  /\ pay = SubSeq(data, 1, off[1])
  /\ \A k \in 1..Len(msgs) :
       IF msgs[k].kind = "metadata" THEN off[k + 1] = off[k]
       ELSE off[k] <= off[k + 1] /\ msgs[k].data = SubSeq(data, off[k] + 1, off[k + 1])

\* A frame is written: it is the next piece.
LEMMA FlowWritten ==
  ASSUME NEW d \in Seq(Blocks), NEW pay, NEW msgs \in Seq(Msg), NEW rst,
         NEW n \in Nat, n \in 1..Len(rst), Flow(d, pay, msgs, "open", rst)
  PROVE  Flow(d, pay, Append(msgs, DataFrame(SubSeq(rst, 1, n))), "open", SubSeq(rst, n + 1, Len(rst)))
  <1> DEFINE f == DataFrame(SubSeq(rst, 1, n))
             l == Len(msgs)
             ms == Append(msgs, f)
  <1>1. PICK off : Cut(d, pay, msgs, off) /\ rst = SubSeq(d, off[l + 1] + 1, Len(d))
    BY Zenon DEF Flow, Cut
  <1>2. l \in Nat /\ Len(d) \in Nat /\ l + 1 \in 1..l + 1 /\ off \in [1..l + 1 -> 0..Len(d)]
    BY <1>1 DEF Cut
  <1>3. PICK a \in 0..Len(d) : a = off[l + 1]
    BY <1>2, Zenon
  <1>4. rst = SubSeq(d, a + 1, Len(d)) /\ Len(rst) = Len(d) - a
    <2>1. rst = SubSeq(d, a + 1, Len(d))
      BY <1>1, <1>3, Zenon
    <2>2. Len(d) \in a..Len(d)
      BY <1>2
    <2> QED BY <2>1, <2>2, Pieces, ZenonT(30)
  <1>5. n \in 1..Len(d) - a
    BY <1>4, Zenon
  <1>6. /\ SubSeq(rst, 1, n) = SubSeq(d, a + 1, a + n)
        /\ SubSeq(rst, n + 1, Len(rst)) = SubSeq(d, a + n + 1, Len(d))
    BY <1>4, <1>5, PiecesOfPiece, Zenon
  <1>7. PICK b \in 0..Len(d) : b = a + n
    BY <1>2, <1>5
  <1> DEFINE off2 == [k \in 1..l + 2 |-> IF k = l + 2 THEN b ELSE off[k]]
  <1>8. /\ off2 \in [1..l + 2 -> 0..Len(d)] /\ off2[1] = off[1] /\ off2[l + 2] = b /\ off2[l + 1] = a
        /\ \A k \in 1..l : off2[k] = off[k] /\ off2[k + 1] = off[k + 1]
    BY <1>2, <1>3, SMTT(30)
  <1>9. /\ f.kind = "data" /\ f.data = SubSeq(d, a + 1, b)
    BY <1>6, <1>7, Zenon DEF DataFrame
  <1>10. /\ Len(ms) = l + 1 /\ ms[l + 1] = f /\ \A k \in 1..l : ms[k] = msgs[k]
    BY <1>2
  <1>11. a <= b /\ (l + 1) + 1 = l + 2 /\ 1..Len(ms) = 1..l \cup {l + 1} /\ Len(ms) + 1 = l + 2
    BY <1>2, <1>5, <1>7, <1>10
  <1> HIDE DEF off2, f, l, ms
  <1>12. ASSUME NEW k \in 1..Len(ms)
         PROVE  IF ms[k].kind = "metadata" THEN off2[k + 1] = off2[k]
                ELSE off2[k] <= off2[k + 1] /\ ms[k].data = SubSeq(d, off2[k] + 1, off2[k + 1])
    <2>1. CASE k \in 1..l
      <3>1. ms[k] = msgs[k] /\ off2[k] = off[k] /\ off2[k + 1] = off[k + 1]
        BY <1>8, <1>10, <2>1, Zenon
      <3>2. IF msgs[k].kind = "metadata" THEN off[k + 1] = off[k]
            ELSE off[k] <= off[k + 1] /\ msgs[k].data = SubSeq(d, off[k] + 1, off[k + 1])
        BY <1>1, <2>1, Zenon DEF Cut, l
      <3> QED BY <3>1, <3>2, Zenon
    <2>2. CASE k = l + 1
      <3>1. ms[k] = f /\ off2[k] = a /\ off2[k + 1] = b
        BY <1>8, <1>10, <1>11, <2>2, Zenon
      <3>2. ms[k].kind # "metadata"
        BY <1>9, <3>1, Zenon
      <3> QED BY <1>9, <1>11, <3>1, <3>2, Zenon
    <2> QED BY <1>11, <2>1, <2>2, Zenon
  <1>13. pay = SubSeq(d, 1, off2[1])
    BY <1>1, <1>8, Zenon DEF Cut
  <1>14. SubSeq(rst, n + 1, Len(rst)) = SubSeq(d, off2[Len(ms) + 1] + 1, Len(d))
    BY <1>6, <1>7, <1>8, <1>11, Zenon
  <1>15. off2 \in [1..Len(ms) + 1 -> 0..Len(d)]
    BY <1>8, <1>11, Zenon
  <1>16. Flow(d, pay, ms, "open", SubSeq(rst, n + 1, Len(rst)))
    <2> DEFINE rs == SubSeq(rst, n + 1, Len(rst))
    <2> HIDE DEF rs
    <2>1. "open" # "ok" /\ rs = SubSeq(d, off2[Len(ms) + 1] + 1, Len(d))
      BY <1>14, Zenon DEF rs
    <2>2. Flow(d, pay, ms, "open", rs)
      BY <1>12, <1>13, <1>15, <2>1, Zenon DEF Flow
    <2> QED BY <2>2, Zenon DEF rs
  <1> QED BY <1>16, Zenon DEF ms, f

\* A message is read: the metadata add nothing, a frame is the next piece.
LEMMA FlowRead ==
  ASSUME NEW d \in Seq(Blocks), NEW pay, NEW msgs \in Seq(Msg), NEW end, NEW rst,
         msgs # <<>>, Flow(d, pay, msgs, end, rst)
  PROVE  /\ msgs[1].kind = "metadata" => Flow(d, pay, Tail(msgs), end, rst)
         /\ msgs[1].kind = "data" => Flow(d, pay \o msgs[1].data, Tail(msgs), end, rst)
  <1> DEFINE l == Len(msgs)
             ms == Tail(msgs)
             pay2 == IF msgs[1].kind = "metadata" THEN pay ELSE pay \o msgs[1].data
  <1>1. PICK off : /\ Cut(d, pay, msgs, off)
                   /\ end = "open" => rst = SubSeq(d, off[l + 1] + 1, Len(d))
                   /\ end = "ok" => off[l + 1] = Len(d)
    BY Zenon DEF Flow, Cut
  <1>2. l \in Nat /\ l >= 1 /\ Len(d) \in Nat /\ off \in [1..l + 1 -> 0..Len(d)]
    BY <1>1 DEF Cut
  <1>3. Len(ms) = l - 1 /\ \A k \in 1..l - 1 : ms[k] = msgs[k + 1]
    BY <1>2
  <1> DEFINE off2 == [k \in 1..l |-> off[k + 1]]
  <1>4. off2 \in [1..l -> 0..Len(d)] /\ off2[1] = off[2] /\ off2[l] = off[l + 1]
    BY <1>2
  <1>5. \A k \in 1..l - 1 : off2[k] = off[k + 1] /\ off2[k + 1] = off[(k + 1) + 1] /\ k + 1 \in 1..l
    BY <1>2
  <1>6. Len(ms) + 1 = l
    BY <1>2, <1>3
  <1>7. 1 \in 1..l /\ 1 + 1 = 2 /\ 2 \in 1..l + 1 /\ 1 \in 1..l + 1
    BY <1>2
  <1>8. IF msgs[1].kind = "metadata" THEN off[2] = off[1]
        ELSE off[1] <= off[2] /\ msgs[1].data = SubSeq(d, off[1] + 1, off[2])
    <2>1. IF msgs[1].kind = "metadata" THEN off[1 + 1] = off[1]
          ELSE off[1] <= off[1 + 1] /\ msgs[1].data = SubSeq(d, off[1] + 1, off[1 + 1])
      BY <1>1, <1>7, Zenon DEF Cut
    <2> QED BY <1>7, <2>1, Zenon
  <1>9. pay2 = SubSeq(d, 1, off2[1])
    <2>1. PICK a \in 0..Len(d) : a = off[1]
      BY <1>2, <1>7, Zenon
    <2>2. PICK b \in 0..Len(d) : b = off[2]
      BY <1>2, <1>7, Zenon
    <2>3. pay = SubSeq(d, 1, a)
      BY <1>1, <2>1, Zenon DEF Cut
    <2>4. CASE msgs[1].kind = "metadata"
      BY <1>4, <1>8, <2>1, <2>2, <2>3, <2>4, Zenon
    <2>5. CASE msgs[1].kind # "metadata"
      <3>1. b \in a..Len(d) /\ msgs[1].data = SubSeq(d, a + 1, b)
        BY <1>2, <1>8, <2>1, <2>2, <2>5
      <3>2. SubSeq(d, 1, a) \o SubSeq(d, a + 1, b) = SubSeq(d, 1, b)
        BY <3>1, Pieces, Zenon
      <3>3. pay2 = SubSeq(d, 1, b)
        BY <2>3, <2>5, <3>1, <3>2, Zenon
      <3> HIDE DEF pay2, off2
      <3> QED BY <1>4, <2>2, <3>3, Zenon
    <2> QED BY <2>4, <2>5, Zenon
  <1>10. ASSUME NEW k \in 1..Len(ms)
         PROVE  IF ms[k].kind = "metadata" THEN off2[k + 1] = off2[k]
                ELSE off2[k] <= off2[k + 1] /\ ms[k].data = SubSeq(d, off2[k] + 1, off2[k + 1])
    <2> HIDE DEF off2, ms
    <2>1. k \in 1..l - 1
      BY <1>2, <1>3, Zenon
    <2>2. ms[k] = msgs[k + 1] /\ off2[k] = off[k + 1] /\ off2[k + 1] = off[(k + 1) + 1] /\ k + 1 \in 1..l
      BY <1>3, <1>5, <2>1, Zenon
    <2>3. PICK j \in 1..l : j = k + 1
      BY <2>2, Zenon
    <2>4. IF msgs[j].kind = "metadata" THEN off[j + 1] = off[j]
          ELSE off[j] <= off[j + 1] /\ msgs[j].data = SubSeq(d, off[j] + 1, off[j + 1])
      BY <1>1, Zenon DEF Cut
    <2> QED BY <2>2, <2>3, <2>4, Zenon
  <1>11. Flow(d, pay2, ms, end, rst)
    <2> HIDE DEF off2, ms, pay2, l
    <2>1. off2 \in [1..Len(ms) + 1 -> 0..Len(d)]
      BY <1>4, <1>6, Zenon
    <2>2. off2[Len(ms) + 1] = off[l + 1]
      BY <1>4, <1>6, Zenon
    <2> QED BY <1>1, <1>9, <1>10, <2>1, <2>2, Zenon DEF Flow
  <1> QED BY <1>11, Zenon

-----------------------------------------------------------------------------
(* Steps and the workers they leave alone                                   *)

Same(v) ==
  /\ pc'[v] = pc[v] /\ id'[v] = id[v] /\ payload'[v] = payload[v] /\ source'[v] = source[v]
  /\ server'[v] = server[v] /\ stream'[v] = stream[v]

\* A reader follows on if it and the handler that serves it stay as they are.
LEMMA FollowsOn ==
  ASSUME NEW r \in Workers, TypeInv, Rests(r), Follows(r), Same(r),
         pc[r] \in {"repl_open", "repl_read"} /\ server[r] # Nil /\ stream[r].end = "open" =>
           LET s == server[r] IN pc'[s] = pc[s] /\ peer'[s] = peer[s] /\ rest'[s] = rest[s]
  PROVE  Follows(r)'
  <1> SUFFICES ASSUME pc[r] \in {"repl_open", "repl_read"} PROVE Reading(r)'
    BY Zenon DEF Follows, Same
  <1>1. /\ source[r] \in Nodes
        /\ server[r] = Nil => pc[r] = "repl_open" /\ stream[r].msgs = <<>> /\ stream[r].end # "ok"
    BY Zenon DEF Follows, Reading
  <1>2. CASE server[r] = Nil
    BY <1>1, <1>2, Zenon DEF Same, Reading
  <1>3. CASE server[r] # Nil
    <2> DEFINE s == server[r]
               d == Content[id[r]]
    <2>1. /\ stream[r].end = "open" => Joined(r, s)
          /\ pc[r] = "repl_open" => Offered(stream[r].msgs, id[r])
          /\ pc[r] = "repl_read" =>
               /\ \A k \in 1..Len(stream[r].msgs) : stream[r].msgs[k].kind = "data"
               /\ Len(d) <= MaxChunkBytes[NodeOf[r]]
          /\ pc[r] = "repl_read" \/ stream[r].msgs[1].status = "OK" =>
               Flow(d, payload[r], stream[r].msgs, stream[r].end, rest[s])
      BY <1>3, Zenon DEF Follows, Reading
    <2>2. stream[r].end = "open" => Joined(r, s)'
      BY <1>3, <2>1, Zenon DEF Joined, Same
    <2>3. ASSUME pc[r] = "repl_read" \/ stream[r].msgs[1].status = "OK"
          PROVE  Flow(d, payload[r], stream[r].msgs, stream[r].end, rest'[s])
      <3>1. d \in Seq(Blocks) /\ stream[r].msgs \in Seq(Msg)
        BY ServiceConstants, Zenon DEF Rests, TypeInv
      <3>2. CASE stream[r].end = "open"
        BY <1>3, <2>1, <2>3, <3>2, Zenon
      <3>3. CASE stream[r].end # "open"
        BY <2>1, <2>3, <3>1, <3>3, FlowLeft, SMTT(30)
      <3> QED BY <3>2, <3>3, Zenon
    <2>4. pc'[r] = pc[r] /\ stream'[r] = stream[r] /\ server'[r] = s /\ id'[r] = id[r]
          /\ payload'[r] = payload[r] /\ source'[r] = source[r]
      BY Zenon DEF Same
    <2> QED BY <1>1, <1>3, <2>1, <2>2, <2>3, <2>4, Zenon DEF Reading
  <1> QED BY <1>2, <1>3, Zenon

GoodAnswer(a) ==
  /\ a.status \in ChunkStatus
  /\ ~(a.rpc = "ReplicateChunk" /\ a.status = "CHECKSUM_MISMATCH")

\* A step of a worker that serves nobody touches no other worker.
LEMMA OwnStep ==
  ASSUME ServiceInv, NEW w \in Workers, pc[w] # "get_send", TypeInv',
         \A v \in Workers : v # w => /\ Same(v) /\ peer'[v] = peer[v] /\ rest'[v] = rest[v]
                                     /\ reply'[v] = reply[v],
         Rests(w)', Follows(w)', Len(payload'[w]) <= MaxChunkBytes[NodeOf[w]],
         reply'[w] # Nil => GoodAnswer(reply'[w])
  PROVE  ServiceInv'
  <1>1. ASSUME NEW v \in Workers PROVE Rests(v)' /\ Follows(v)'
    <2>1. CASE v = w
      BY <2>1, Zenon
    <2>2. CASE v # w
      <3>1. TypeInv /\ Rests(v) /\ Follows(v)
        BY Zenon DEF ServiceInv
      <3>2. Rests(v)'
        BY <2>2, <3>1, Zenon DEF Rests, Same
      <3>3. ASSUME pc[v] \in {"repl_open", "repl_read"}, server[v] # Nil, stream[v].end = "open"
            PROVE  LET s == server[v] IN pc'[s] = pc[s] /\ peer'[s] = peer[s] /\ rest'[s] = rest[s]
        <4>1. pc[server[v]] = "get_send"
          BY <3>1, <3>3, Zenon DEF Follows, Reading, Joined
        <4>2. server[v] \in Workers /\ server[v] # w
          BY <3>1, <3>3, <4>1 DEF TypeInv
        <4> QED BY <4>2, Zenon DEF Same
      <3>4. Same(v)
        BY <2>2, Zenon
      <3>5. Follows(v)'
        BY <3>1, <3>3, <3>4, FollowsOn, Zenon
      <3> QED BY <3>2, <3>5, Zenon
    <2> QED BY <2>1, <2>2, Zenon
  <1>2. WithinLimit'
    BY Zenon DEF WithinLimit, ServiceInv, Same
  <1>3. Answers'
    <2> SUFFICES ASSUME NEW v \in Workers, reply'[v] # Nil PROVE GoodAnswer(reply'[v])
      BY Zenon DEF Answers, GoodAnswer
    <2>1. CASE v = w
      BY <2>1, Zenon
    <2>2. CASE v # w
      BY <2>2, Zenon DEF ServiceInv, Answers, GoodAnswer
    <2> QED BY <2>1, <2>2, Zenon
  <1> QED BY <1>1, <1>2, <1>3, Zenon DEF ServiceInv

\* A worker that serves nobody returns from its handler.
LEMMA ReturnStep ==
  ASSUME ServiceInv, NEW w \in Workers, pc[w] # "get_send", NEW a, Return(w, a), GoodAnswer(a),
         store' \in [Nodes -> [Chunks -> {"absent", "good", "rotted"}]],
         UNCHANGED <<mode, id, peer, source, server>>,
         stream' \in [Workers -> [msgs : Seq(Msg), end : Ends]],
         \A v \in Workers : v # w => stream'[v] = stream[v]
  PROVE  ServiceInv'
  <1>1. TypeInv
    BY Zenon DEF ServiceInv
  <1>2. /\ pc' = [pc EXCEPT ![w] = "done"] /\ reply' = [reply EXCEPT ![w] = a]
        /\ payload' = [payload EXCEPT ![w] = <<>>] /\ rest' = [rest EXCEPT ![w] = <<>>]
    BY Zenon DEF Return
  <1>3. TypeInv'
    BY <1>1, <1>2, SMTT(30) DEF TypeInv, Places
  <1>4. \A v \in Workers : v # w => /\ Same(v) /\ peer'[v] = peer[v] /\ rest'[v] = rest[v]
                                    /\ reply'[v] = reply[v]
    BY <1>1, <1>2, Zenon DEF TypeInv, Same
  <1>5. pc'[w] = "done" /\ payload'[w] = <<>> /\ reply'[w] = a
    BY <1>1, <1>2, Zenon DEF TypeInv
  <1>6. Rests(w)' /\ Follows(w)'
    BY <1>5, Zenon DEF Rests, Follows
  <1>7. MaxChunkBytes[NodeOf[w]] \in Nat
    BY ServiceConstants, Zenon
  <1>8. Len(payload'[w]) <= MaxChunkBytes[NodeOf[w]]
    BY <1>5, <1>7
  <1>9. GoodAnswer(reply'[w])
    BY <1>5, Zenon
  <1> QED BY <1>3, <1>4, <1>6, <1>8, <1>9, OwnStep, Zenon

-----------------------------------------------------------------------------
(* The store                                                                *)

States == {"absent", "good", "rotted"}

\* What a call of the store may answer, as a status, and what it may leave.
LEMMA StoreAnswers ==
  ASSUME TypeInv, NEW n \in Nodes, NEW c \in Chunks, NEW data \in Seq(Blocks),
         NEW o \in StorePut(n, c, data) \cup StoreGet(n, c) \cup StoreDelete(n, c)
  PROVE  /\ MapStoreError(o.result) \in ChunkStatus /\ o.left \in States
         /\ o \in StorePut(n, c, data) /\ data = Content[c] => MapStoreError(o.result) # "CHECKSUM_MISMATCH"
         /\ o \in StoreGet(n, c) => /\ MapStoreError(o.result) # "CHECKSUM_MISMATCH"
                                    /\ o.result = "ok" <=> MapStoreError(o.result) = "OK"
         /\ Stored(n, c, o) => store' \in [Nodes -> [Chunks -> States]]
  <1>1. store[n][c] \in States /\ store \in [Nodes -> [Chunks -> States]]
    BY DEF TypeInv, States
  <1>2. /\ o.result \in {"ok", "ChecksumMismatch", "CorruptionDetected", "NotFound", "IoError"}
        /\ o.left \in States
        /\ o \in StorePut(n, c, data) /\ data = Content[c] => o.result # "ChecksumMismatch"
        /\ o \in StoreGet(n, c) => o.result # "ChecksumMismatch"
    BY <1>1 DEF StorePut, StoreGet, StoreDelete, Outcome, States
  <1>3. /\ MapStoreError(o.result) \in ChunkStatus
        /\ o.result # "ChecksumMismatch" => MapStoreError(o.result) # "CHECKSUM_MISMATCH"
        /\ o.result = "ok" <=> MapStoreError(o.result) = "OK"
    BY <1>2, Zenon DEF MapStoreError, ChunkStatus
  <1>4. Stored(n, c, o) => store' \in [Nodes -> [Chunks -> States]]
    BY <1>1, <1>2 DEF Stored
  <1> QED BY <1>2, <1>3, <1>4, Zenon

-----------------------------------------------------------------------------
(* The handlers                                                             *)

\* A call whose client has still to say something holds nothing but its worker.
LEMMA OpenedStep ==
  ASSUME ServiceInv, NEW w \in Workers, PutChunk(w) \/ ServerReflectionInfo(w)
  PROVE  ServiceInv'
  <1>1. PICK p \in {"put_first", "reflect"} : pc' = [pc EXCEPT ![w] = p]
    BY Zenon DEF PutChunk, ServerReflectionInfo
  <1>2. /\ TypeInv /\ Rests(w) /\ pc[w] = "idle"
        /\ UNCHANGED <<mode, store, id, payload, rest, peer, source, server, stream, reply>>
    BY Zenon DEF ServiceInv, PutChunk, ServerReflectionInfo, Accept
  <1>3. TypeInv'
    BY <1>1, <1>2, Zenon DEF TypeInv, Places
  <1>4. \A v \in Workers : v # w => /\ Same(v) /\ peer'[v] = peer[v] /\ rest'[v] = rest[v]
                                    /\ reply'[v] = reply[v]
    BY <1>1, <1>2, Zenon DEF TypeInv, Same
  <1>5. pc'[w] = p /\ payload'[w] = <<>>
    BY <1>1, <1>2, Zenon DEF TypeInv, Rests
  <1>6. Rests(w)' /\ Follows(w)'
    BY <1>5, Zenon DEF Rests, Follows
  <1>7. Len(payload'[w]) <= MaxChunkBytes[NodeOf[w]] /\ (reply'[w] # Nil => GoodAnswer(reply'[w]))
    BY <1>2, Zenon DEF ServiceInv, WithinLimit, Answers, GoodAnswer
  <1> QED BY <1>2, <1>3, <1>4, <1>6, <1>7, OwnStep, Zenon

\* A reflection stream ends as its client closes it.
LEMMA ReflectionEndsStep ==
  ASSUME ServiceInv, NEW w \in Workers, ReflectionEnds(w)
  PROVE  ServiceInv'
  <1>1. /\ TypeInv /\ pc[w] = "reflect" /\ UNCHANGED <<mode, store, id, peer, source, server, stream>>
        /\ Return(w, Answer("ServerReflectionInfo", TRUE, "OK", "OK"))
    BY Zenon DEF ServiceInv, ReflectionEnds
  <1>2. GoodAnswer(Answer("ServerReflectionInfo", TRUE, "OK", "OK"))
    BY Zenon DEF GoodAnswer, Answer, ChunkStatus
  <1> QED BY <1>1, <1>2, ReturnStep, Zenon DEF TypeInv

\* An upload is admitted with an empty buffer, or refused.
LEMMA PutChunkFirstStep ==
  ASSUME ServiceInv, NEW w \in Workers, NEW first \in FirstMessage, PutChunkFirst(w, first)
  PROVE  ServiceInv'
  <1> DEFINE grpc == PutAdmission(NodeOf[w], first)
  <1>1. /\ TypeInv /\ pc[w] = "put_first"
        /\ UNCHANGED <<mode, store, peer, source, server, stream>>
    BY Zenon DEF ServiceInv, PutChunkFirst
  <1>2. CASE grpc = "OK" /\ pc' = [pc EXCEPT ![w] = "put_read"]
             /\ id' = [id EXCEPT ![w] = first.id] /\ UNCHANGED <<payload, rest, reply>>
    <2>1. first.kind = "metadata" /\ first.id # Nil
      BY <1>2, Zenon DEF PutAdmission, IdThenVersion
    <2>2. first.id \in Chunks
      BY <2>1, Zenon DEF FirstMessage
    <2>3. TypeInv'
      BY <1>1, <1>2, <2>2, Zenon DEF TypeInv, Places
    <2>4. \A v \in Workers : v # w => /\ Same(v) /\ peer'[v] = peer[v] /\ rest'[v] = rest[v]
                                      /\ reply'[v] = reply[v]
      BY <1>1, <1>2, Zenon DEF TypeInv, Same
    <2>5. pc'[w] = "put_read" /\ id'[w] \in Chunks
      BY <1>1, <1>2, <2>2, Zenon DEF TypeInv
    <2>6. Rests(w)' /\ Follows(w)'
      BY <2>5, Zenon DEF Rests, Follows
    <2>7. Len(payload'[w]) <= MaxChunkBytes[NodeOf[w]] /\ (reply'[w] # Nil => GoodAnswer(reply'[w]))
      BY <1>2, Zenon DEF ServiceInv, WithinLimit, Answers, GoodAnswer
    <2> QED BY <1>1, <2>3, <2>4, <2>6, <2>7, OwnStep, Zenon
  <1>3. CASE /\ grpc # "OK" /\ UNCHANGED id
             /\ Return(w, Answer("PutChunk", first.supported, grpc, TooLarge(grpc)))
    <2>1. GoodAnswer(Answer("PutChunk", first.supported, grpc, TooLarge(grpc)))
      BY Zenon DEF GoodAnswer, Answer, TooLarge, ChunkStatus
    <2> QED BY <1>1, <1>3, <2>1, ReturnStep, Zenon DEF TypeInv
  <1> QED BY <1>2, <1>3, Zenon DEF PutChunkFirst

\* A frame is added only if it fits.
LEMMA PutChunkReadStep ==
  ASSUME ServiceInv, NEW w \in Workers, NEW frame \in Frames, PutChunkRead(w, frame)
  PROVE  ServiceInv'
  <1>1. /\ TypeInv /\ pc[w] = "put_read" /\ frame \in Seq(Blocks)
        /\ UNCHANGED <<mode, store, id, peer, source, server, stream>>
    BY ServiceConstants, Zenon DEF ServiceInv, PutChunkRead
  <1>2. CASE FitsAfter(w, frame) /\ payload' = [payload EXCEPT ![w] = payload[w] \o frame]
             /\ UNCHANGED <<pc, rest, reply>>
    <2>1. payload[w] \in Seq(Blocks) /\ payload[w] \o frame \in Seq(Blocks)
          /\ Len(payload[w] \o frame) = Len(payload[w]) + Len(frame)
      BY <1>1 DEF TypeInv
    <2>2. TypeInv'
      BY <1>1, <1>2, <2>1, Zenon DEF TypeInv
    <2>3. \A v \in Workers : v # w => /\ Same(v) /\ peer'[v] = peer[v] /\ rest'[v] = rest[v]
                                      /\ reply'[v] = reply[v]
      BY <1>1, <1>2, Zenon DEF TypeInv, Same
    <2>4. pc'[w] = "put_read" /\ id'[w] \in Chunks /\ payload'[w] = payload[w] \o frame
      BY <1>1, <1>2, Zenon DEF TypeInv, ServiceInv, Rests
    <2>5. Rests(w)' /\ Follows(w)'
      BY <2>4, Zenon DEF Rests, Follows
    <2>6. Len(payload'[w]) <= MaxChunkBytes[NodeOf[w]]
      BY <1>2, <2>1, <2>4, Zenon DEF FitsAfter
    <2>7. reply'[w] # Nil => GoodAnswer(reply'[w])
      BY <1>2, Zenon DEF ServiceInv, Answers, GoodAnswer
    <2> QED BY <1>1, <2>2, <2>3, <2>5, <2>6, <2>7, OwnStep, Zenon
  <1>3. CASE Return(w, Answer("PutChunk", TRUE, "RESOURCE_EXHAUSTED", "CHUNK_TOO_LARGE"))
    <2>1. GoodAnswer(Answer("PutChunk", TRUE, "RESOURCE_EXHAUSTED", "CHUNK_TOO_LARGE"))
      BY Zenon DEF GoodAnswer, Answer, ChunkStatus
    <2> QED BY <1>1, <1>3, <2>1, ReturnStep, Zenon DEF TypeInv
  <1> QED BY <1>2, <1>3, Zenon DEF PutChunkRead

\* The upload ends with the answer of the store.
LEMMA PutChunkStoreStep ==
  ASSUME ServiceInv, NEW w \in Workers, PutChunkStore(w)
  PROVE  ServiceInv'
  <1>1. /\ TypeInv /\ pc[w] = "put_read" /\ id[w] \in Chunks /\ NodeOf[w] \in Nodes
        /\ payload[w] \in Seq(Blocks) /\ UNCHANGED <<mode, id, peer, source, server, stream>>
    BY ServiceConstants, Zenon DEF ServiceInv, PutChunkStore, Rests, TypeInv
  <1>2. PICK o \in StorePut(NodeOf[w], id[w], payload[w]) :
          /\ Stored(NodeOf[w], id[w], o)
          /\ Return(w, Answer("PutChunk", TRUE, "OK", MapStoreError(o.result)))
    BY Zenon DEF PutChunkStore
  <1>3. MapStoreError(o.result) \in ChunkStatus /\ store' \in [Nodes -> [Chunks -> States]]
    BY <1>1, <1>2, StoreAnswers, Zenon
  <1>4. GoodAnswer(Answer("PutChunk", TRUE, "OK", MapStoreError(o.result)))
    BY <1>3, Zenon DEF GoodAnswer, Answer
  <1> QED BY <1>1, <1>2, <1>3, <1>4, ReturnStep, Zenon DEF TypeInv, States

\* DeleteChunk, VerifyChunk and GetNodeStats return at once.
LEMMA OneStepCalls ==
  ASSUME ServiceInv, NEW w \in Workers, NEW v \in BOOLEAN, NEW c \in Chunks \cup {Nil},
         DeleteChunk(w, v, c) \/ VerifyChunk(w, v, c) \/ GetNodeStats(w, v)
  PROVE  ServiceInv'
  <1>0. pc[w] = "idle" /\ UNCHANGED <<mode, id, peer, source, server, stream>>
    <2>1. CASE DeleteChunk(w, v, c)
      BY <2>1, Zenon DEF DeleteChunk, Accept
    <2>2. CASE VerifyChunk(w, v, c)
      BY <2>2, Zenon DEF VerifyChunk, Accept
    <2>3. CASE GetNodeStats(w, v)
      BY <2>3, Zenon DEF GetNodeStats, Accept
    <2> QED BY <2>1, <2>2, <2>3, Zenon
  <1>1. /\ TypeInv /\ pc[w] = "idle" /\ NodeOf[w] \in Nodes /\ <<>> \in Seq(Blocks)
        /\ UNCHANGED <<mode, id, peer, source, server, stream>>
    <2>1. NodeOf[w] \in Nodes /\ <<>> \in Seq(Blocks)
      BY ServiceConstants, EmptySeq, Zenon
    <2> QED BY <1>0, <2>1, Zenon DEF ServiceInv
  <1>2. CASE DeleteChunk(w, v, c)
    <2> DEFINE grpc == IdThenVersion(v, c)
    <2>1. CASE /\ grpc = "OK"
               /\ \E o \in StoreDelete(NodeOf[w], c) :
                    /\ Stored(NodeOf[w], c, o)
                    /\ Return(w, Answer("DeleteChunk", TRUE, "OK", MapStoreError(o.result)))
      <3>1. c \in Chunks
        BY <2>1, Zenon DEF IdThenVersion
      <3>2. PICK o \in StoreDelete(NodeOf[w], c) :
              /\ Stored(NodeOf[w], c, o)
              /\ Return(w, Answer("DeleteChunk", TRUE, "OK", MapStoreError(o.result)))
        BY <2>1, Zenon
      <3>3. MapStoreError(o.result) \in ChunkStatus /\ store' \in [Nodes -> [Chunks -> States]]
        BY <1>1, <3>1, <3>2, StoreAnswers, Zenon
      <3>4. GoodAnswer(Answer("DeleteChunk", TRUE, "OK", MapStoreError(o.result)))
        BY <3>3, Zenon DEF GoodAnswer, Answer
      <3> QED BY <1>1, <3>2, <3>3, <3>4, ReturnStep, Zenon DEF TypeInv, States
    <2>2. CASE Return(w, Answer("DeleteChunk", v, grpc, "OK")) /\ UNCHANGED store
      <3>1. GoodAnswer(Answer("DeleteChunk", v, grpc, "OK"))
        BY Zenon DEF GoodAnswer, Answer, ChunkStatus
      <3> QED BY <1>1, <2>2, <3>1, ReturnStep, Zenon DEF TypeInv
    <2> QED BY <1>2, <2>1, <2>2, Zenon DEF DeleteChunk
  <1>3. CASE VerifyChunk(w, v, c)
    <2> DEFINE grpc == VersionThenId(v, c)
    <2>1. PICK status \in IF grpc = "OK" THEN {MapStoreError(o.result) : o \in StoreGet(NodeOf[w], c)}
                                         ELSE {"OK"} :
            Return(w, Answer("VerifyChunk", v, grpc, status))
      BY <1>3, Zenon DEF VerifyChunk
    <2>2. status \in ChunkStatus
      <3>1. CASE grpc = "OK"
        <4>1. c \in Chunks
          BY <3>1, Zenon DEF VersionThenId, RunPreamble
        <4>2. PICK o \in StoreGet(NodeOf[w], c) : status = MapStoreError(o.result)
          BY <2>1, <3>1, Zenon
        <4> QED BY <1>1, <4>1, <4>2, StoreAnswers, Zenon
      <3>2. CASE grpc # "OK"
        BY <2>1, <3>2, Zenon DEF ChunkStatus
      <3> QED BY <3>1, <3>2, Zenon
    <2>3. GoodAnswer(Answer("VerifyChunk", v, grpc, status)) /\ UNCHANGED store
      BY <1>3, <2>2, Zenon DEF GoodAnswer, Answer, VerifyChunk
    <2> QED BY <1>1, <2>1, <2>3, ReturnStep, Zenon DEF TypeInv
  <1>4. CASE GetNodeStats(w, v)
    <2>1. Return(w, Answer("GetNodeStats", v, RunPreamble(v), "OK")) /\ UNCHANGED store
      BY <1>4, Zenon DEF GetNodeStats
    <2>2. GoodAnswer(Answer("GetNodeStats", v, RunPreamble(v), "OK"))
      BY Zenon DEF GoodAnswer, Answer, ChunkStatus
    <2> QED BY <1>1, <2>1, <2>2, ReturnStep, Zenon DEF TypeInv
  <1> QED BY <1>2, <1>3, <1>4, Zenon

\* A download by a client starts: it has no reader among the handlers.
LEMMA GetChunkStep ==
  ASSUME ServiceInv, NEW w \in Workers, NEW v \in BOOLEAN, NEW c \in Chunks \cup {Nil}, GetChunk(w, v, c)
  PROVE  ServiceInv'
  <1> DEFINE grpc == VersionThenId(v, c)
  <1>1. /\ TypeInv /\ pc[w] = "idle" /\ NodeOf[w] \in Nodes /\ payload[w] = <<>>
        /\ UNCHANGED <<mode, store, id, peer, source, server>>
    BY ServiceConstants, Zenon DEF ServiceInv, GetChunk, Accept, Rests
  <1>2. CASE grpc = "OK" /\ GetChunkBody(w, Nil, c)
    <2>1. c \in Chunks /\ Content[c] \in Seq(Blocks) /\ <<>> \in Seq(Blocks)
      BY <1>2, ServiceConstants DEF VersionThenId, RunPreamble
    <2>2. PICK o \in StoreGet(NodeOf[w], c) :
            /\ UNCHANGED stream
            /\ \/ /\ pc' = [pc EXCEPT ![w] = "get_send"]
                  /\ rest' = [rest EXCEPT ![w] = Content[c]]
                  /\ UNCHANGED <<payload, reply>>
               \/ Return(w, Answer("GetChunk", TRUE, "OK", MapStoreError(o.result)))
      BY <1>2, Zenon DEF GetChunkBody
    <2>3. CASE /\ pc' = [pc EXCEPT ![w] = "get_send"] /\ rest' = [rest EXCEPT ![w] = Content[c]]
               /\ UNCHANGED <<payload, reply>>
      <3>1. TypeInv'
        BY <1>1, <2>1, <2>2, <2>3, Zenon DEF TypeInv, Places
      <3>2. \A u \in Workers : u # w => /\ Same(u) /\ peer'[u] = peer[u] /\ rest'[u] = rest[u]
                                        /\ reply'[u] = reply[u]
        BY <1>1, <2>2, <2>3, Zenon DEF TypeInv, Same
      <3>3. pc'[w] = "get_send" /\ payload'[w] = <<>>
        BY <1>1, <2>3, Zenon DEF TypeInv
      <3>4. Rests(w)' /\ Follows(w)'
        BY <3>3, Zenon DEF Rests, Follows
      <3>5. Len(payload'[w]) <= MaxChunkBytes[NodeOf[w]] /\ (reply'[w] # Nil => GoodAnswer(reply'[w]))
        BY <2>3, Zenon DEF ServiceInv, WithinLimit, Answers, GoodAnswer
      <3> QED BY <1>1, <3>1, <3>2, <3>4, <3>5, OwnStep, ZenonT(30)
    <2>4. CASE Return(w, Answer("GetChunk", TRUE, "OK", MapStoreError(o.result)))
      <3>1. MapStoreError(o.result) \in ChunkStatus
        BY <1>1, <2>1, <2>2, StoreAnswers, Zenon
      <3>2. GoodAnswer(Answer("GetChunk", TRUE, "OK", MapStoreError(o.result)))
        BY <3>1, Zenon DEF GoodAnswer, Answer
      <3> QED BY <1>1, <2>2, <2>4, <3>2, ReturnStep, Zenon DEF TypeInv
    <2> QED BY <2>2, <2>3, <2>4, Zenon
  <1>3. CASE Return(w, Answer("GetChunk", v, grpc, "OK")) /\ UNCHANGED stream
    <2>1. GoodAnswer(Answer("GetChunk", v, grpc, "OK"))
      BY Zenon DEF GoodAnswer, Answer, ChunkStatus
    <2> QED BY <1>1, <1>3, <2>1, ReturnStep, ZenonT(30) DEF TypeInv
  <1> QED BY <1>2, <1>3, Zenon DEF GetChunk

\* A worker that sent its answer keeps nothing of the call.
LEMMA SentStep ==
  ASSUME ServiceInv, NEW w \in Workers, Sent(w)
  PROVE  ServiceInv'
  <1>1. /\ TypeInv /\ pc[w] = "done" /\ payload[w] = <<>>
        /\ pc' = [pc EXCEPT ![w] = "idle"] /\ reply' = [reply EXCEPT ![w] = Nil]
        /\ id' = [id EXCEPT ![w] = Nil] /\ peer' = [peer EXCEPT ![w] = Nil]
        /\ source' = [source EXCEPT ![w] = Nil] /\ server' = [server EXCEPT ![w] = Nil]
        /\ stream' = [stream EXCEPT ![w] = Silent] /\ UNCHANGED <<mode, store, payload, rest>>
    BY Zenon DEF ServiceInv, Sent, Rests
  <1>2. Silent \in [msgs : Seq(Msg), end : Ends]
    BY SMTT(30) DEF Silent, Ends
  <1>3. TypeInv'
    BY <1>1, <1>2, Zenon DEF TypeInv, Places
  <1>4. \A v \in Workers : v # w => /\ Same(v) /\ peer'[v] = peer[v] /\ rest'[v] = rest[v]
                                    /\ reply'[v] = reply[v]
    BY <1>1, Zenon DEF TypeInv, Same
  <1>5. /\ pc'[w] = "idle" /\ payload'[w] = <<>> /\ reply'[w] = Nil /\ server'[w] = Nil
        /\ source'[w] = Nil /\ stream'[w] = Silent
    BY <1>1, Zenon DEF TypeInv
  <1>6. Rests(w)' /\ Follows(w)'
    BY <1>5, Zenon DEF Rests, Follows
  <1>7. Len(payload'[w]) <= MaxChunkBytes[NodeOf[w]]
    BY <1>1, Zenon DEF ServiceInv, WithinLimit
  <1> QED BY <1>1, <1>3, <1>4, <1>5, <1>6, <1>7, OwnStep, Zenon

\* A replication opens its stream, which is silent at first.
LEMMA ReplicateChunkStep ==
  ASSUME ServiceInv, NEW w \in Workers, NEW v \in BOOLEAN, NEW c \in Chunks \cup {Nil},
         NEW n \in Nodes, ReplicateChunk(w, v, c, n)
  PROVE  ServiceInv'
  <1> DEFINE grpc == VersionThenId(v, c)
  <1>1. /\ TypeInv /\ pc[w] = "idle" /\ payload[w] = <<>> /\ server[w] = Nil /\ stream[w] = Silent
        /\ UNCHANGED <<mode, store, peer, server, stream>>
    BY Zenon DEF ServiceInv, ReplicateChunk, Accept, Rests
  <1>2. CASE /\ grpc = "OK" /\ pc' = [pc EXCEPT ![w] = "repl_open"]
             /\ id' = [id EXCEPT ![w] = c] /\ source' = [source EXCEPT ![w] = n]
             /\ UNCHANGED <<payload, rest, reply>>
    <2>1. c \in Chunks
      BY <1>2, Zenon DEF VersionThenId, RunPreamble
    <2>2. TypeInv'
      BY <1>1, <1>2, <2>1, Zenon DEF TypeInv, Places
    <2>3. \A u \in Workers : u # w => /\ Same(u) /\ peer'[u] = peer[u] /\ rest'[u] = rest[u]
                                      /\ reply'[u] = reply[u]
      BY <1>1, <1>2, Zenon DEF TypeInv, Same
    <2>4. /\ pc'[w] = "repl_open" /\ payload'[w] = <<>> /\ id'[w] \in Chunks /\ source'[w] \in Nodes
          /\ server'[w] = Nil /\ stream'[w].msgs = <<>> /\ stream'[w].end = "open"
      BY <1>1, <1>2, <2>1, SMTT(30) DEF TypeInv, Silent
    <2>5. Rests(w)' /\ Follows(w)'
      BY <2>4, Zenon DEF Rests, Follows, Reading
    <2>6. Len(payload'[w]) <= MaxChunkBytes[NodeOf[w]] /\ (reply'[w] # Nil => GoodAnswer(reply'[w]))
      BY <1>2, Zenon DEF ServiceInv, WithinLimit, Answers, GoodAnswer
    <2> QED BY <1>1, <2>2, <2>3, <2>5, <2>6, OwnStep, Zenon
  <1>3. CASE Return(w, Answer("ReplicateChunk", v, grpc, "OK")) /\ UNCHANGED <<id, source>>
    <2>1. GoodAnswer(Answer("ReplicateChunk", v, grpc, "OK"))
      BY Zenon DEF GoodAnswer, Answer, ChunkStatus
    <2> QED BY <1>1, <1>3, <2>1, ReturnStep, Zenon DEF TypeInv
  <1> QED BY <1>2, <1>3, Zenon DEF ReplicateChunk

\* The stream of a reader loses its connection, before or while it is served.
LEMMA CutOff ==
  ASSUME ServiceInv, NEW w \in Workers, pc[w] \in {"repl_open", "repl_read"},
         stream' = [stream EXCEPT ![w] = [stream[w] EXCEPT !.end = "error"]],
         UNCHANGED <<mode, store, pc, id, payload, rest, peer, source, server, reply>>
  PROVE  ServiceInv'
  <1>1. TypeInv /\ Rests(w) /\ Reading(w)
    BY Zenon DEF ServiceInv, Follows
  <1>2. stream[w].msgs \in Seq(Msg) /\ Content[id[w]] \in Seq(Blocks)
    BY <1>1, ServiceConstants, Zenon DEF TypeInv, Rests
  <1>3. stream'[w].msgs = stream[w].msgs /\ stream'[w].end = "error"
    BY <1>1 DEF TypeInv
  <1>4. TypeInv'
    <2>1. PICK q \in [msgs : Seq(Msg), end : Ends] : q = stream[w]
      BY <1>1, Zenon DEF TypeInv
    <2>2. [q EXCEPT !.end = "error"] \in [msgs : Seq(Msg), end : Ends]
      BY DEF Ends
    <2> QED BY <1>1, <2>1, <2>2, Zenon DEF TypeInv
  <1>5. \A v \in Workers : v # w => /\ Same(v) /\ peer'[v] = peer[v] /\ rest'[v] = rest[v]
                                    /\ reply'[v] = reply[v]
    BY <1>1, Zenon DEF TypeInv, Same
  <1>6. ASSUME Flow(Content[id[w]], payload[w], stream[w].msgs, stream[w].end, rest[server[w]])
        PROVE  Flow(Content[id[w]], payload[w], stream[w].msgs, "error", rest[server[w]])
    BY <1>2, <1>6, FlowLeft, Zenon
  <1>7. Reading(w)'
    BY <1>1, <1>3, <1>6, Zenon DEF Reading
  <1>8. Rests(w)' /\ Follows(w)'
    BY <1>1, <1>7, Zenon DEF Rests, Follows
  <1>9. Len(payload'[w]) <= MaxChunkBytes[NodeOf[w]] /\ (reply'[w] # Nil => GoodAnswer(reply'[w]))
    BY Zenon DEF ServiceInv, WithinLimit, Answers, GoodAnswer
  <1> QED BY <1>4, <1>5, <1>8, <1>9, OwnStep, Zenon

\* The source refuses: the stream ends before anything was sent.
LEMMA RefusedStep ==
  ASSUME ServiceInv, NEW w \in Workers, Refused(w)
  PROVE  ServiceInv'
  <1>1. /\ pc[w] \in {"repl_open", "repl_read"}
        /\ stream' = [stream EXCEPT ![w] = [stream[w] EXCEPT !.end = "error"]]
        /\ UNCHANGED <<mode, store, pc, id, payload, rest, peer, source, server, reply>>
    BY Zenon DEF Refused, ServiceInv, TypeInv
  <1> QED BY <1>1, CutOff, Zenon

\* The connection breaks: what was read stays a prefix.
LEMMA BreakStep ==
  ASSUME ServiceInv, NEW w \in Workers, Break(w)
  PROVE  ServiceInv'
  <1>1. /\ pc[w] \in {"repl_open", "repl_read"}
        /\ stream' = [stream EXCEPT ![w] = [stream[w] EXCEPT !.end = "error"]]
        /\ UNCHANGED <<mode, store, pc, id, payload, rest, peer, source, server, reply>>
    BY Zenon DEF Break, ServiceInv, TypeInv
  <1> QED BY <1>1, CutOff, Zenon

\* A reader takes the first message of its stream.
LEMMA TakeMessage ==
  ASSUME ServiceInv, NEW w \in Workers, stream[w].msgs # <<>>,
         stream' = [stream EXCEPT ![w] = [stream[w] EXCEPT !.msgs = Tail(stream[w].msgs)]]
  PROVE  /\ stream[w].msgs \in Seq(Msg) /\ Head(stream[w].msgs) = stream[w].msgs[1]
         /\ stream[w].msgs[1] \in Msg
         /\ Tail(stream[w].msgs) \in Seq(Msg)
         /\ Len(Tail(stream[w].msgs)) = Len(stream[w].msgs) - 1 /\ 1 \in 1..Len(stream[w].msgs)
         /\ \A k \in 1..Len(stream[w].msgs) - 1 : Tail(stream[w].msgs)[k] = stream[w].msgs[k + 1]
         /\ stream'[w].msgs = Tail(stream[w].msgs) /\ stream'[w].end = stream[w].end
         /\ stream' \in [Workers -> [msgs : Seq(Msg), end : Ends]]
         /\ \A v \in Workers : v # w => stream'[v] = stream[v]
  <1>1. stream \in [Workers -> [msgs : Seq(Msg), end : Ends]]
    BY Zenon DEF ServiceInv, TypeInv
  <1>2. PICK q \in Seq(Msg) : q = stream[w].msgs
    BY <1>1, Zenon
  <1>3. /\ Head(q) = q[1] /\ q[1] \in Msg /\ Tail(q) \in Seq(Msg) /\ Len(Tail(q)) = Len(q) - 1
        /\ 1 \in 1..Len(q)
        /\ \A k \in 1..Len(q) - 1 : Tail(q)[k] = q[k + 1]
    BY <1>2, HeadTailProperties
  <1>4. [stream[w] EXCEPT !.msgs = Tail(q)] \in [msgs : Seq(Msg), end : Ends]
    BY <1>1, <1>3, ZenonT(30)
  <1>5. stream' = [stream EXCEPT ![w] = [stream[w] EXCEPT !.msgs = Tail(q)]]
    BY <1>2, Zenon
  <1>6. /\ stream'[w].msgs = Tail(q) /\ stream'[w].end = stream[w].end
        /\ stream' \in [Workers -> [msgs : Seq(Msg), end : Ends]]
        /\ \A v \in Workers : v # w => stream'[v] = stream[v]
    BY <1>1, <1>4, <1>5, ZenonT(30)
  <1> QED BY <1>2, <1>3, <1>6, Zenon

\* A frame moves from the stream to the buffer, which stays a prefix of the chunk
\* and so within the size that the source announced.
LEMMA ReplicateReadStep ==
  ASSUME ServiceInv, NEW w \in Workers, ReplicateRead(w)
  PROVE  ServiceInv'
  <1> DEFINE msgs == stream[w].msgs
             d == Content[id[w]]
  <1>1. /\ TypeInv /\ Rests(w) /\ Reading(w) /\ pc[w] = "repl_read" /\ msgs # <<>>
        /\ UNCHANGED <<mode, store, pc, id, rest, peer, source, server, reply>>
    BY Zenon DEF ServiceInv, ReplicateRead, Follows
  <1>2. stream' = [stream EXCEPT ![w] = [stream[w] EXCEPT !.msgs = Tail(stream[w].msgs)]]
    BY <1>1, Zenon DEF ReplicateRead, TypeInv
  <1>3. /\ msgs \in Seq(Msg) /\ Head(msgs) = msgs[1] /\ msgs[1] \in Msg /\ Tail(msgs) \in Seq(Msg)
        /\ Len(Tail(msgs)) = Len(msgs) - 1 /\ 1 \in 1..Len(msgs)
        /\ \A k \in 1..Len(msgs) - 1 : Tail(msgs)[k] = msgs[k + 1]
        /\ stream'[w].msgs = Tail(msgs) /\ stream'[w].end = stream[w].end
        /\ stream' \in [Workers -> [msgs : Seq(Msg), end : Ends]]
        /\ \A v \in Workers : v # w => stream'[v] = stream[v]
    BY <1>1, <1>2, TakeMessage, Zenon
  <1>4. /\ d \in Seq(Blocks) /\ server[w] # Nil /\ Len(d) <= MaxChunkBytes[NodeOf[w]]
        /\ Flow(d, payload[w], msgs, stream[w].end, rest[server[w]])
        /\ \A k \in 1..Len(msgs) : msgs[k].kind = "data"
    BY <1>1, ServiceConstants, Zenon DEF Rests, Reading
  <1>5. msgs[1].kind = "data" /\ msgs[1].data \in Seq(Blocks)
    BY <1>3, <1>4, Zenon DEF Msg
  <1>6. payload' = [payload EXCEPT ![w] = payload[w] \o msgs[1].data]
    BY <1>1, <1>3, <1>5, Zenon DEF ReplicateRead, TypeInv
  <1>7. payload[w] \o msgs[1].data \in Seq(Blocks)
    BY <1>1, <1>5, SMTT(30) DEF TypeInv
  <1>8. TypeInv'
    BY <1>1, <1>3, <1>6, <1>7, Zenon DEF TypeInv
  <1>9. \A v \in Workers : v # w => /\ Same(v) /\ peer'[v] = peer[v] /\ rest'[v] = rest[v]
                                    /\ reply'[v] = reply[v]
    BY <1>1, <1>3, <1>6, Zenon DEF TypeInv, Same
  <1>10. payload'[w] = payload[w] \o msgs[1].data
    BY <1>1, <1>6, Zenon DEF TypeInv
  <1>11. Flow(d, payload'[w], stream'[w].msgs, stream'[w].end, rest[server[w]])
    <2>1. Flow(d, payload[w] \o msgs[1].data, Tail(msgs), stream[w].end, rest[server[w]])
      BY <1>1, <1>3, <1>4, <1>5, FlowRead, ZenonT(30)
    <2> QED BY <1>3, <1>10, <2>1, Zenon
  <1>12. \A k \in 1..Len(stream'[w].msgs) : stream'[w].msgs[k].kind = "data"
    <2> SUFFICES ASSUME NEW k \in 1..Len(Tail(msgs)) PROVE Tail(msgs)[k].kind = "data"
      BY <1>3, Zenon
    <2>1. k \in 1..Len(msgs) - 1 /\ k + 1 \in 1..Len(msgs)
      BY <1>3
    <2>2. Tail(msgs)[k] = msgs[k + 1] /\ msgs[k + 1].kind = "data"
      BY <1>3, <1>4, <2>1, Zenon
    <2> QED BY <2>2, Zenon
  <1>13. stream'[w].end = "open" => Joined(w, server[w])'
    BY <1>1, <1>3, <1>4, Zenon DEF Reading, Joined
  <1>14. Reading(w)'
    <2>1. pc'[w] = "repl_read" /\ server'[w] # Nil /\ source'[w] \in Nodes
      BY <1>1, <1>4, Zenon DEF Reading
    <2>2. id'[w] = id[w] /\ server'[w] = server[w] /\ rest'[server'[w]] = rest[server[w]]
      BY <1>1, Zenon
    <2>3. (stream[w].end = "open" => Joined(w, server[w]))'
      BY <1>13, Zenon
    <2> QED BY <1>4, <1>11, <1>12, <2>1, <2>2, <2>3, Zenon DEF Reading
  <1>15. Rests(w)' /\ Follows(w)'
    BY <1>1, <1>14, Zenon DEF Rests, Follows
  <1>16. Len(payload'[w]) <= MaxChunkBytes[NodeOf[w]] /\ (reply'[w] # Nil => GoodAnswer(reply'[w]))
    <2>1. Len(payload'[w]) <= Len(d)
      BY <1>3, <1>4, <1>11, FlowLength, Zenon
    <2>2. Len(payload'[w]) \in Nat /\ Len(d) \in Nat /\ MaxChunkBytes[NodeOf[w]] \in Nat
      BY <1>4, <1>7, <1>10, LenProperties, ServiceConstants, Zenon
    <2> QED BY <1>1, <1>4, <2>1, <2>2 DEF ServiceInv, Answers, GoodAnswer
  <1> QED BY <1>1, <1>8, <1>9, <1>15, <1>16, OwnStep, Zenon

\* The metadata tell the size; only a chunk within the limit is read.
LEMMA ReplicateOfferStep ==
  ASSUME ServiceInv, NEW w \in Workers, ReplicateOffer(w)
  PROVE  ServiceInv'
  <1> DEFINE msgs == stream[w].msgs
             d == Content[id[w]]
             status == OfferStatus(NodeOf[w], Head(msgs))
  <1>1. /\ TypeInv /\ Rests(w) /\ Reading(w) /\ pc[w] = "repl_open" /\ payload[w] = <<>>
        /\ UNCHANGED <<mode, store, id, peer, source, server>>
    BY Zenon DEF ServiceInv, ReplicateOffer, Follows, Rests
  <1>2. CASE /\ msgs # <<>> /\ stream' = [stream EXCEPT ![w].msgs = Tail(@)]
             /\ \/ /\ status = "OK" /\ pc' = [pc EXCEPT ![w] = "repl_read"]
                   /\ UNCHANGED <<payload, rest, reply>>
                \/ status # "OK" /\ Return(w, ReplAnswer(status))
    <2>2. stream' = [stream EXCEPT ![w] = [stream[w] EXCEPT !.msgs = Tail(stream[w].msgs)]]
      BY <1>1, <1>2, Zenon DEF TypeInv
    <2>3. /\ msgs \in Seq(Msg) /\ Head(msgs) = msgs[1] /\ msgs[1] \in Msg /\ Tail(msgs) \in Seq(Msg)
          /\ Len(Tail(msgs)) = Len(msgs) - 1 /\ 1 \in 1..Len(msgs)
          /\ \A k \in 1..Len(msgs) - 1 : Tail(msgs)[k] = msgs[k + 1]
          /\ stream'[w].msgs = Tail(msgs) /\ stream'[w].end = stream[w].end
          /\ stream' \in [Workers -> [msgs : Seq(Msg), end : Ends]]
          /\ \A v \in Workers : v # w => stream'[v] = stream[v]
      BY <1>2, <2>2, TakeMessage, Zenon
    <2>4. /\ d \in Seq(Blocks) /\ server[w] # Nil
          /\ msgs[1].kind = "metadata" /\ msgs[1].status # "CHECKSUM_MISMATCH"
          /\ \A k \in 2..Len(msgs) : msgs[k].kind = "data"
          /\ msgs[1].status = "OK" =>
               /\ msgs[1].size = Len(d)
               /\ Flow(d, payload[w], msgs, stream[w].end, rest[server[w]])
      BY <1>1, <1>2, ServiceConstants, Zenon DEF Rests, Reading, Offered
    <2>5. msgs[1].status \in ChunkStatus /\ msgs[1].size \in Nat /\ MaxChunkBytes[NodeOf[w]] \in Nat
      BY <2>3, <2>4, ServiceConstants, Zenon DEF Msg
    <2>6. CASE /\ status = "OK" /\ pc' = [pc EXCEPT ![w] = "repl_read"]
               /\ UNCHANGED <<payload, rest, reply>>
      <3>1. msgs[1].status = "OK" /\ Len(d) <= MaxChunkBytes[NodeOf[w]]
        <4>1. msgs[1].status = "OK" /\ ~(msgs[1].size > MaxChunkBytes[NodeOf[w]])
          BY <2>3, <2>4, <2>6, Zenon DEF OfferStatus, OfferedSize
        <4>2. msgs[1].size <= MaxChunkBytes[NodeOf[w]]
          <5> HIDE DEF msgs
          <5> QED BY <2>5, <4>1, SMTT(30)
        <4> QED BY <2>4, <4>1, <4>2, Zenon
      <3>2. TypeInv'
        BY <1>1, <2>3, <2>6, Zenon DEF TypeInv, Places
      <3>3. \A v \in Workers : v # w => /\ Same(v) /\ peer'[v] = peer[v] /\ rest'[v] = rest[v]
                                        /\ reply'[v] = reply[v]
        BY <1>1, <2>3, <2>6, Zenon DEF TypeInv, Same
      <3>4. Flow(d, payload[w], stream'[w].msgs, stream'[w].end, rest[server[w]])
        <4>1. Flow(d, payload[w], Tail(msgs), stream[w].end, rest[server[w]])
          BY <1>2, <2>3, <2>4, <3>1, FlowRead, Zenon
        <4> QED BY <2>3, <4>1, Zenon
      <3>5. \A k \in 1..Len(stream'[w].msgs) : stream'[w].msgs[k].kind = "data"
        <4> SUFFICES ASSUME NEW k \in 1..Len(Tail(msgs)) PROVE Tail(msgs)[k].kind = "data"
          BY <2>3, Zenon
        <4>1. k \in 1..Len(msgs) - 1 /\ k + 1 \in 2..Len(msgs)
          BY <2>3
        <4>2. Tail(msgs)[k] = msgs[k + 1] /\ msgs[k + 1].kind = "data"
          BY <2>3, <2>4, <4>1, Zenon
        <4> QED BY <4>2, Zenon
      <3>6. stream'[w].end = "open" => Joined(w, server[w])'
        <4> SUFFICES ASSUME stream[w].end = "open" PROVE Joined(w, server[w])'
          BY <2>3, Zenon
        <4>1. pc[server[w]] = "get_send" /\ peer[server[w]] = w /\ NodeOf[server[w]] = source[w]
          BY <1>1, <2>4, Zenon DEF Reading, Joined
        <4>2. server[w] \in Workers
          BY <1>1, <2>4, Zenon DEF TypeInv
        <4>3. pc'[server[w]] = "get_send"
          BY <1>1, <2>6, <4>1, <4>2, Zenon DEF TypeInv
        <4> QED BY <1>1, <4>1, <4>3, Zenon DEF Joined
      <3>7. Reading(w)'
        <4>1. pc'[w] = "repl_read" /\ server'[w] # Nil /\ source'[w] \in Nodes
          BY <1>1, <2>4, <2>6, Zenon DEF Reading, TypeInv
        <4>2. /\ id'[w] = id[w] /\ server'[w] = server[w] /\ rest'[server'[w]] = rest[server[w]]
              /\ payload'[w] = payload[w]
          BY <1>1, <2>6, Zenon
        <4>3. (stream[w].end = "open" => Joined(w, server[w]))'
          BY <3>6, Zenon
        <4> QED BY <3>1, <3>4, <3>5, <4>1, <4>2, <4>3, Zenon DEF Reading
      <3>8. Rests(w)' /\ Follows(w)'
        BY <1>1, <2>6, <3>7, Zenon DEF Rests, Follows, TypeInv
      <3>9. Len(payload'[w]) <= MaxChunkBytes[NodeOf[w]] /\ (reply'[w] # Nil => GoodAnswer(reply'[w]))
        BY <2>6, Zenon DEF ServiceInv, WithinLimit, Answers, GoodAnswer
      <3> QED BY <1>1, <3>2, <3>3, <3>8, <3>9, OwnStep, Zenon
    <2>7. CASE Return(w, ReplAnswer(status))
      <3>1. GoodAnswer(ReplAnswer(status))
        BY <2>3, <2>4, <2>5, Zenon DEF GoodAnswer, ReplAnswer, Answer, OfferStatus, ChunkStatus
      <3> QED BY <1>1, <2>3, <2>7, <3>1, ReturnStep, Zenon DEF TypeInv
    <2> QED BY <1>2, <2>6, <2>7, Zenon
  <1>3. CASE Return(w, ReplAnswer("SOURCE_UNREACHABLE")) /\ UNCHANGED stream
    <2>1. GoodAnswer(ReplAnswer("SOURCE_UNREACHABLE"))
      BY Zenon DEF GoodAnswer, ReplAnswer, Answer, ChunkStatus
    <2> QED BY <1>1, <1>3, <2>1, ReturnStep, Zenon DEF TypeInv
  <1> QED BY <1>2, <1>3, Zenon DEF ReplicateOffer

\* A stream that ended well brought the whole chunk, so that Put finds the digest
\* it expects.
LEMMA ReplicateStoreStep ==
  ASSUME ServiceInv, NEW w \in Workers, ReplicateStore(w)
  PROVE  ServiceInv'
  <1> DEFINE d == Content[id[w]]
  <1>1. /\ TypeInv /\ Rests(w) /\ Reading(w) /\ pc[w] = "repl_read" /\ ReadEnds(w)
        /\ UNCHANGED <<mode, id, peer, source, server, stream>>
    BY Zenon DEF ServiceInv, ReplicateStore, Follows
  <1>2. CASE Return(w, ReplAnswer("SOURCE_UNREACHABLE")) /\ UNCHANGED store
    <2>1. GoodAnswer(ReplAnswer("SOURCE_UNREACHABLE"))
      BY Zenon DEF GoodAnswer, ReplAnswer, Answer, ChunkStatus
    <2> QED BY <1>1, <1>2, <2>1, ReturnStep, Zenon DEF TypeInv
  <1>3. CASE /\ FinishOk(w)
             /\ \E o \in StorePut(NodeOf[w], id[w], payload[w]) :
                  Stored(NodeOf[w], id[w], o) /\ Return(w, ReplAnswer(MapStoreError(o.result)))
    <2>1. /\ NodeOf[w] \in Nodes /\ id[w] \in Chunks /\ payload[w] \in Seq(Blocks) /\ d \in Seq(Blocks)
          /\ stream[w].end = "ok" /\ stream[w].msgs = <<>>
      BY <1>1, <1>3, ServiceConstants, Zenon DEF TypeInv, Rests, ReadEnds, FinishOk
    <2>2. Flow(d, payload[w], <<>>, "ok", rest[server[w]])
      BY <1>1, <2>1, Zenon DEF Reading
    <2>3. payload[w] = d
      BY <2>1, <2>2, FlowComplete, Zenon
    <2>4. PICK o \in StorePut(NodeOf[w], id[w], payload[w]) :
            Stored(NodeOf[w], id[w], o) /\ Return(w, ReplAnswer(MapStoreError(o.result)))
      BY <1>3, Zenon
    <2>5. /\ MapStoreError(o.result) \in ChunkStatus
          /\ MapStoreError(o.result) # "CHECKSUM_MISMATCH"
          /\ store' \in [Nodes -> [Chunks -> States]]
      BY <1>1, <2>1, <2>3, <2>4, StoreAnswers, Zenon
    <2>6. GoodAnswer(ReplAnswer(MapStoreError(o.result)))
      BY <2>5, Zenon DEF GoodAnswer, ReplAnswer, Answer
    <2> QED BY <1>1, <2>4, <2>5, <2>6, ReturnStep, Zenon DEF TypeInv, States
  <1> QED BY <1>2, <1>3, Zenon DEF ReplicateStore

-----------------------------------------------------------------------------
(* Steps that touch two workers                                             *)

\* A step of a handler that sends changes only what its reader finds in the
\* stream, and that only while the reader is connected.
LEMMA ServeStep ==
  ASSUME ServiceInv, NEW w \in Workers, pc[w] = "get_send", TypeInv',
         UNCHANGED <<id, peer, source, server>>,
         \A v \in Workers : v # w => /\ pc'[v] = pc[v] /\ payload'[v] = payload[v]
                                     /\ rest'[v] = rest[v] /\ reply'[v] = reply[v],
         pc'[w] \in {"get_send", "done"}, payload'[w] = <<>>,
         reply'[w] # Nil => GoodAnswer(reply'[w]),
         \A v \in Workers : stream'[v] = stream[v] \/ (v = peer[w] /\ Connected(w)),
         \A v \in Workers :
           (v = peer[w] /\ Connected(w) /\ pc[v] \in {"repl_open", "repl_read"}) => Reading(v)'
  PROVE  ServiceInv'
  <1>1. TypeInv /\ \A v \in Workers : Rests(v) /\ Follows(v)
    BY Zenon DEF ServiceInv
  <1>2. ASSUME NEW v \in Workers PROVE Rests(v)' /\ Follows(v)'
    <2>1. CASE v = w
      BY <2>1, Zenon DEF Rests, Follows
    <2>2. CASE v # w /\ v = peer[w] /\ Connected(w)
      <3>1. server[v] = w /\ w # Nil
        BY <2>2, ServiceConstants, Zenon DEF Connected
      <3>2. Rests(v)'
        BY <1>1, <2>2, <3>1, Zenon DEF Rests
      <3>3. Follows(v)'
        BY <2>2, Zenon DEF Follows
      <3> QED BY <3>2, <3>3, Zenon
    <2>3. CASE v # w /\ ~(v = peer[w] /\ Connected(w))
      <3>1. Same(v)
        BY <2>3, Zenon DEF Same
      <3>2. Rests(v)'
        BY <1>1, <3>1, Zenon DEF Rests, Same
      <3>3. ASSUME pc[v] \in {"repl_open", "repl_read"}, server[v] # Nil, stream[v].end = "open"
            PROVE  server[v] \in Workers /\ server[v] # w
        <4>1. Reading(v)
          BY <1>1, <3>3, Zenon DEF Follows
        <4>2. Joined(v, server[v])
          BY <3>3, <4>1, Zenon DEF Reading
        <4>3. server[v] \in Workers
          BY <1>1, <3>3, ZenonT(30) DEF TypeInv
        <4>4. server[v] = w => v = peer[w] /\ Connected(w)
          BY <3>3, <4>2, Zenon DEF Joined, Connected
        <4> QED BY <2>3, <4>3, <4>4, Zenon
      <3>4. pc[v] \in {"repl_open", "repl_read"} /\ server[v] # Nil /\ stream[v].end = "open" =>
              /\ pc'[server[v]] = pc[server[v]] /\ peer'[server[v]] = peer[server[v]]
              /\ rest'[server[v]] = rest[server[v]]
        BY <3>3, Zenon
      <3>5. Follows(v)'
        BY <1>1, <3>1, <3>4, FollowsOn, Zenon
      <3> QED BY <3>2, <3>5, Zenon
    <2> QED BY <2>1, <2>2, <2>3, Zenon
  <1>3. WithinLimit'
    <2> SUFFICES ASSUME NEW v \in Workers PROVE Len(payload'[v]) <= MaxChunkBytes[NodeOf[v]]
      BY Zenon DEF WithinLimit
    <2>1. Len(payload[v]) <= MaxChunkBytes[NodeOf[v]] /\ (v = w => payload[v] = <<>>)
      BY <1>1, Zenon DEF ServiceInv, WithinLimit, Rests
    <2> QED BY <2>1, Zenon
  <1>4. Answers'
    <2> SUFFICES ASSUME NEW v \in Workers, reply'[v] # Nil PROVE GoodAnswer(reply'[v])
      BY Zenon DEF Answers, GoodAnswer
    <2> QED BY Zenon DEF ServiceInv, Answers, GoodAnswer
  <1> QED BY <1>2, <1>3, <1>4, Zenon DEF ServiceInv

\* A stream that is not empty has a first message.
LEMMA HasFirst == \A msgs \in Seq(Msg) : msgs # <<>> => 1 \in 1..Len(msgs)
  BY EmptySeq, LenProperties

\* What an append leaves as it was.
LEMMA Appended ==
  ASSUME NEW q \in Seq(Msg), NEW f \in Msg
  PROVE  /\ Append(q, f) \in Seq(Msg) /\ Append(q, f) # <<>> /\ Len(Append(q, f)) = Len(q) + 1
         /\ \A k \in 1..Len(q) : Append(q, f)[k] = q[k]
         /\ Append(q, f)[Len(q) + 1] = f
  BY AppendProperties, SMTT(30)

\* A frame written to a reader.
LEMMA WrittenFrame ==
  ASSUME ServiceInv, NEW w \in Workers, NEW v \in Workers, pc[w] = "get_send",
         v = peer[w], Connected(w), pc[v] \in {"repl_open", "repl_read"}, NEW k \in 1..Len(rest[w]),
         stream'[v].msgs = Append(stream[v].msgs, DataFrame(SubSeq(rest[w], 1, k))),
         stream'[v].end = stream[v].end, rest'[w] = SubSeq(rest[w], k + 1, Len(rest[w])),
         UNCHANGED <<pc, id, payload, peer, source, server>>
  PROVE  Reading(v)'
  <1> DEFINE f == DataFrame(SubSeq(rest[w], 1, k))
             msgs == stream[v].msgs
             d == Content[id[v]]
  <1>1. /\ TypeInv /\ Rests(v) /\ Reading(v) /\ server[v] = w /\ w # Nil /\ stream[v].end = "open"
        /\ msgs \in Seq(Msg) /\ d \in Seq(Blocks) /\ rest[w] \in Seq(Blocks)
    BY ServiceConstants, Zenon DEF ServiceInv, Follows, Connected, TypeInv, Rests
  <1>2. f \in Msg /\ f.kind = "data"
    <2>1. SubSeq(rest[w], 1, k) \in Seq(Blocks)
      BY <1>1, CutFront, Zenon
    <2> QED BY <2>1, Zenon DEF DataFrame, Msg
  <1> HIDE DEF f, msgs
  <1>3. /\ Append(msgs, f) \in Seq(Msg) /\ Append(msgs, f) # <<>> /\ Len(Append(msgs, f)) = Len(msgs) + 1
        /\ \A j \in 1..Len(msgs) : Append(msgs, f)[j] = msgs[j]
        /\ Append(msgs, f)[Len(msgs) + 1] = f
    BY <1>1, <1>2, Appended, Zenon
  <1>4. Len(msgs) \in Nat /\ k \in Nat
    <2>1. Len(msgs) \in Nat
      BY <1>1, LenProperties, Zenon
    <2>2. k \in Nat
      OBVIOUS
    <2> QED BY <2>1, <2>2, Zenon
  <1>5. ASSUME Flow(d, payload[v], msgs, "open", rest[w])
        PROVE  Flow(d, payload[v], Append(msgs, f), "open", rest'[w])
    BY <1>1, <1>4, <1>5, FlowWritten, Zenon DEF f
  <1>6. ASSUME pc[v] = "repl_open"
        PROVE  Offered(Append(msgs, f), id[v]) /\ Append(msgs, f)[1] = msgs[1]
    <2>1. Offered(msgs, id[v])
      BY <1>1, <1>6, Zenon DEF Reading, msgs
    <2>2. 1 \in 1..Len(msgs)
      BY <1>1, <2>1, HasFirst, Zenon DEF Offered
    <2>3. Append(msgs, f)[1] = msgs[1]
      BY <1>3, <2>2, Zenon
    <2>4. ASSUME NEW j \in 2..Len(msgs) + 1 PROVE Append(msgs, f)[j].kind = "data"
      <3>1. CASE j = Len(msgs) + 1
        BY <1>2, <1>3, <3>1, Zenon
      <3>2. CASE j # Len(msgs) + 1
        <4>1. j \in 1..Len(msgs) /\ j \in 2..Len(msgs)
          BY <1>4, <3>2, SMTT(30)
        <4> QED BY <1>3, <2>1, <4>1, Zenon DEF Offered
      <3> QED BY <3>1, <3>2, Zenon
    <2> QED BY <1>3, <2>1, <2>3, <2>4, Zenon DEF Offered
  <1>7. ASSUME pc[v] = "repl_read", NEW j \in 1..Len(msgs) + 1 PROVE Append(msgs, f)[j].kind = "data"
    <2>1. CASE j = Len(msgs) + 1
      BY <1>2, <1>3, <2>1, Zenon
    <2>2. CASE j # Len(msgs) + 1
      <3>1. j \in 1..Len(msgs)
        BY <1>4, <2>2, SMTT(30)
      <3> QED BY <1>1, <1>3, <1>7, <3>1, Zenon DEF Reading, msgs
    <2> QED BY <2>1, <2>2, Zenon
  <1>8. /\ source[v] \in Nodes /\ Joined(v, w)
        /\ pc[v] = "repl_read" => Len(d) <= MaxChunkBytes[NodeOf[v]]
        /\ pc[v] = "repl_read" \/ msgs[1].status = "OK" => Flow(d, payload[v], msgs, "open", rest[w])
    BY <1>1, Zenon DEF Reading, msgs
  <1>9. stream'[v].msgs = Append(msgs, f) /\ stream'[v].end = "open"
    BY <1>1, Zenon DEF msgs, f
  <1>10. source'[v] \in Nodes /\ server'[v] = w /\ Joined(v, w)'
    BY <1>1, <1>8, Zenon DEF Joined
  <1>11. pc'[v] = "repl_open" => Offered(stream'[v].msgs, id'[v])
    BY <1>6, <1>9, Zenon
  <1>12. pc'[v] = "repl_read" => /\ \A j \in 1..Len(stream'[v].msgs) : stream'[v].msgs[j].kind = "data"
                                 /\ Len(Content[id'[v]]) <= MaxChunkBytes[NodeOf[v]]
    BY <1>3, <1>7, <1>8, <1>9, Zenon
  <1>13. pc'[v] = "repl_read" \/ stream'[v].msgs[1].status = "OK" =>
           Flow(Content[id'[v]], payload'[v], stream'[v].msgs, stream'[v].end, rest'[server'[v]])
    <2> SUFFICES ASSUME pc[v] = "repl_read" \/ Append(msgs, f)[1].status = "OK"
                 PROVE  Flow(d, payload[v], Append(msgs, f), "open", rest'[w])
      BY <1>9, <1>10, Zenon
    <2>1. pc[v] = "repl_read" \/ msgs[1].status = "OK"
      BY <1>6, Zenon
    <2> QED BY <1>5, <1>8, <2>1, Zenon
  <1> QED BY <1>1, <1>10, <1>11, <1>12, <1>13, Zenon DEF Reading

\* The next frame moves from what is to be sent to the stream.
LEMMA GetChunkWriteStep ==
  ASSUME ServiceInv, NEW w \in Workers, GetChunkWrite(w)
  PROVE  ServiceInv'
  <1>1. /\ TypeInv /\ pc[w] = "get_send" /\ rest[w] # <<>> /\ payload[w] = <<>> /\ rest[w] \in Seq(Blocks)
        /\ peer[w] \in Workers \cup {Nil}
        /\ UNCHANGED <<mode, store, pc, id, payload, peer, source, server, reply>>
    BY Zenon DEF ServiceInv, GetChunkWrite, Rests, TypeInv
  <1>0. FrameLength(w) \in 1..Len(rest[w])
    <2>1. PICK n \in Nat : n = Len(rest[w])
      BY <1>1
    <2>2. n # 0
      BY <1>1, <2>1, EmptySeq, Zenon
    <2>3. FrameLength(w) = IF n > FrameSize THEN FrameSize ELSE n
      BY <2>1, Zenon DEF FrameLength
    <2> QED BY <2>1, <2>2, <2>3, ServiceConstants
  <1>2. reply'[w] # Nil => GoodAnswer(reply'[w])
    BY <1>1, Zenon DEF ServiceInv, Answers, GoodAnswer
  <1>3. CASE UNCHANGED stream /\ (peer[w] = Nil \/ ~Connected(w))
             /\ \E q \in Seq(Blocks) : rest' = [rest EXCEPT ![w] = q]
    <2>1. TypeInv'
      BY <1>1, <1>3, SMTT(30) DEF TypeInv
    <2>2. \A v \in Workers : v # w => rest'[v] = rest[v]
      BY <1>1, <1>3, Zenon DEF TypeInv
    <2>3. \A v \in Workers : ~(v = peer[w] /\ Connected(w))
      BY <1>3, ServiceConstants, Zenon
    <2> QED BY <1>1, <1>2, <1>3, <2>1, <2>2, <2>3, ServeStep, Zenon
  <1>4. CASE /\ peer[w] # Nil /\ Connected(w)
             /\ rest' = [rest EXCEPT ![w] = SubSeq(@, FrameLength(w) + 1, Len(@))]
             /\ stream' = [stream EXCEPT ![peer[w]].msgs =
                             Append(@, DataFrame(SubSeq(rest[w], 1, FrameLength(w))))]
    <2>1. PICK r \in Workers : r = peer[w]
      BY <1>1, <1>4, Zenon
    <2>2. PICK k \in 1..Len(rest[w]) : k = FrameLength(w)
      BY <1>0, Zenon
    <2>3. SubSeq(rest[w], 1, k) \in Seq(Blocks) /\ SubSeq(rest[w], k + 1, Len(rest[w])) \in Seq(Blocks)
      BY <1>1, CutFront, Zenon
    <2> DEFINE f == DataFrame(SubSeq(rest[w], 1, k))
               b == SubSeq(rest[w], k + 1, Len(rest[w]))
    <2>4. f \in Msg
      BY <2>3, Zenon DEF DataFrame, Msg
    <2>5. rest' = [rest EXCEPT ![w] = b]
      BY <1>4, <2>2, Zenon
    <2>6. stream' = [stream EXCEPT ![r].msgs = Append(@, f)]
      BY <1>4, <2>1, <2>2, Zenon
    <2>b. b \in Seq(Blocks)
      BY <2>3, Zenon
    <2> HIDE DEF f, b
    <2>7. stream[r] \in [msgs : Seq(Msg), end : Ends] /\ Append(stream[r].msgs, f) \in Seq(Msg)
      BY <1>1, <2>4, Appended, Zenon DEF TypeInv
    <2>8. stream' = [stream EXCEPT ![r] = [stream[r] EXCEPT !.msgs = Append(stream[r].msgs, f)]]
      BY <1>1, <2>6, Zenon DEF TypeInv
    <2>9. [stream[r] EXCEPT !.msgs = Append(stream[r].msgs, f)] \in [msgs : Seq(Msg), end : Ends]
      BY <2>7, Zenon
    <2>10. /\ stream' \in [Workers -> [msgs : Seq(Msg), end : Ends]]
           /\ stream'[r].msgs = Append(stream[r].msgs, f) /\ stream'[r].end = stream[r].end
           /\ \A v \in Workers : v # r => stream'[v] = stream[v]
      BY <1>1, <2>7, <2>8, <2>9, Zenon DEF TypeInv
    <2>11. /\ rest' \in [Workers -> Seq(Blocks)] /\ rest'[w] = b
           /\ \A v \in Workers : v # w => rest'[v] = rest[v]
      BY <1>1, <2>5, <2>b, Zenon DEF TypeInv
    <2>12. TypeInv'
      BY <1>1, <2>10, <2>11, Zenon DEF TypeInv
    <2>13. ASSUME pc[r] \in {"repl_open", "repl_read"} PROVE Reading(r)'
      BY <1>1, <1>4, <2>1, <2>10, <2>11, <2>13, WrittenFrame, ZenonT(30) DEF f, b
    <2>14. \A v \in Workers : stream'[v] = stream[v] \/ (v = peer[w] /\ Connected(w))
      BY <1>4, <2>1, <2>10, Zenon
    <2>15. \A v \in Workers :
             (v = peer[w] /\ Connected(w) /\ pc[v] \in {"repl_open", "repl_read"}) => Reading(v)'
      BY <2>1, <2>13, Zenon
    <2> QED BY <1>1, <1>2, <2>11, <2>12, <2>14, <2>15, ServeStep, ZenonT(30)
  <1>5. ASSUME peer[w] = Nil \/ ~Connected(w)
        PROVE  UNCHANGED stream /\ \E q \in Seq(Blocks) : rest' = [rest EXCEPT ![w] = q]
    <2>1. PICK k \in 1..Len(rest[w]) : k = FrameLength(w)
      BY <1>0, Zenon
    <2>e. <<>> \in Seq(Blocks)
      BY EmptySeq, Zenon
    <2>2. SubSeq(rest[w], k + 1, Len(rest[w])) \in Seq(Blocks)
      BY <1>1, CutFront, Zenon
    <2>3. /\ UNCHANGED stream
          /\ \/ rest' = [rest EXCEPT ![w] = SubSeq(rest[w], FrameLength(w) + 1, Len(rest[w]))]
             \/ rest' = [rest EXCEPT ![w] = <<>>]
      BY <1>1, <1>5, Zenon DEF GetChunkWrite
    <2> QED BY <2>1, <2>2, <2>3, <2>e, Zenon
  <1>6. peer[w] # Nil /\ Connected(w) =>
          /\ rest' = [rest EXCEPT ![w] = SubSeq(@, FrameLength(w) + 1, Len(@))]
          /\ stream' = [stream EXCEPT ![peer[w]].msgs =
                          Append(@, DataFrame(SubSeq(rest[w], 1, FrameLength(w))))]
    BY Zenon DEF GetChunkWrite
  <1> QED BY <1>3, <1>4, <1>5, <1>6, Zenon

\* The handler returns with nothing left to send: the stream holds the rest.
LEMMA GetChunkReturnStep ==
  ASSUME ServiceInv, NEW w \in Workers, GetChunkReturn(w)
  PROVE  ServiceInv'
  <1> DEFINE a == Answer("GetChunk", TRUE, "OK", "OK")
  <1>1. /\ TypeInv /\ pc[w] = "get_send" /\ rest[w] = <<>> /\ peer[w] \in Workers \cup {Nil}
        /\ pc' = [pc EXCEPT ![w] = "done"] /\ reply' = [reply EXCEPT ![w] = a]
        /\ payload' = [payload EXCEPT ![w] = <<>>] /\ rest' = [rest EXCEPT ![w] = <<>>]
        /\ UNCHANGED <<mode, store, id, peer, source, server>>
    BY Zenon DEF ServiceInv, GetChunkReturn, Return, TypeInv
  <1>2. GoodAnswer(a)
    BY Zenon DEF GoodAnswer, Answer, ChunkStatus
  <1> HIDE DEF a
  <1>3. /\ pc'[w] = "done" /\ reply'[w] = a /\ payload'[w] = <<>> /\ rest'[w] = <<>>
        /\ \A v \in Workers : v # w => /\ pc'[v] = pc[v] /\ payload'[v] = payload[v]
                                       /\ rest'[v] = rest[v] /\ reply'[v] = reply[v]
    BY <1>1, Zenon DEF TypeInv
  <1>4. CASE UNCHANGED stream /\ (peer[w] = Nil \/ ~Connected(w))
    <2>1. TypeInv'
      BY <1>1, <1>4, Zenon DEF TypeInv, Places
    <2>2. \A v \in Workers : ~(v = peer[w] /\ Connected(w))
      BY <1>4, ServiceConstants, Zenon
    <2> QED BY <1>1, <1>2, <1>3, <1>4, <2>1, <2>2, ServeStep, Zenon
  <1>5. CASE /\ peer[w] # Nil /\ Connected(w)
             /\ stream' = [stream EXCEPT ![peer[w]] = [@ EXCEPT !.end = "ok"]]
    <2>1. PICK r \in Workers : r = peer[w]
      BY <1>1, <1>5, Zenon
    <2>2. stream' = [stream EXCEPT ![r] = [stream[r] EXCEPT !.end = "ok"]]
      BY <1>1, <1>5, <2>1, Zenon DEF TypeInv
    <2>3. [stream[r] EXCEPT !.end = "ok"] \in [msgs : Seq(Msg), end : Ends]
      <3>1. stream[r] \in [msgs : Seq(Msg), end : Ends] /\ "ok" \in Ends
        BY <1>1, Zenon DEF TypeInv, Ends
      <3> QED BY <3>1, Zenon
    <2>4. /\ stream' \in [Workers -> [msgs : Seq(Msg), end : Ends]]
          /\ stream'[r].msgs = stream[r].msgs /\ stream'[r].end = "ok"
          /\ \A v \in Workers : v # r => stream'[v] = stream[v]
      BY <1>1, <2>2, <2>3, Zenon DEF TypeInv
    <2>5. TypeInv'
      BY <1>1, <2>4, Zenon DEF TypeInv, Places
    <2>6. ASSUME pc[r] \in {"repl_open", "repl_read"} PROVE Reading(r)'
      <3>1. /\ Rests(r) /\ Reading(r) /\ server[r] = w /\ w # Nil /\ stream[r].end = "open" /\ r # w
        BY <1>1, <1>5, <2>1, <2>6, ServiceConstants, Zenon DEF ServiceInv, Follows, Connected
      <3>2. stream[r].msgs \in Seq(Msg) /\ Content[id[r]] \in Seq(Blocks)
        BY <1>1, <2>6, <3>1, ServiceConstants, Zenon DEF TypeInv, Rests
      <3>3. ASSUME Flow(Content[id[r]], payload[r], stream[r].msgs, "open", <<>>)
            PROVE  Flow(Content[id[r]], payload[r], stream[r].msgs, "ok", rest'[w])
        BY <3>2, <3>3, FlowReturned, Zenon
      <3>4. /\ source[r] \in Nodes
            /\ pc[r] = "repl_open" => Offered(stream[r].msgs, id[r])
            /\ pc[r] = "repl_read" =>
                 /\ \A k \in 1..Len(stream[r].msgs) : stream[r].msgs[k].kind = "data"
                 /\ Len(Content[id[r]]) <= MaxChunkBytes[NodeOf[r]]
            /\ pc[r] = "repl_read" \/ stream[r].msgs[1].status = "OK" =>
                 Flow(Content[id[r]], payload[r], stream[r].msgs, "ok", rest'[w])
        BY <1>1, <3>1, <3>3, Zenon DEF Reading
      <3>5. pc'[r] = pc[r] /\ payload'[r] = payload[r] /\ id'[r] = id[r] /\ source'[r] = source[r]
            /\ server'[r] = w
        BY <1>1, <1>3, <3>1, Zenon
      <3>6. stream'[r].end # "open"
        BY <2>4, Zenon
      <3> QED BY <2>4, <3>1, <3>4, <3>5, <3>6, Zenon DEF Reading
    <2>7. \A v \in Workers :
            (v = peer[w] /\ Connected(w) /\ pc[v] \in {"repl_open", "repl_read"}) => Reading(v)'
      BY <2>1, <2>6, Zenon
    <2>8. \A v \in Workers : stream'[v] = stream[v] \/ (v = peer[w] /\ Connected(w))
      BY <1>5, <2>1, <2>4, Zenon
    <2> QED BY <1>1, <1>2, <1>3, <2>5, <2>7, <2>8, ServeStep, Zenon
  <1> QED BY <1>4, <1>5, Zenon DEF GetChunkReturn

\* The source takes the call: the metadata are under way, the whole chunk is to come.
LEMMA ServedStep ==
  ASSUME ServiceInv, NEW r \in Workers, NEW w \in Workers, Served(r, w)
  PROVE  ServiceInv'
  <1> DEFINE c == id[r]
             d == Content[id[r]]
  <1>1. /\ TypeInv /\ Rests(r) /\ Rests(w) /\ Reading(r) /\ r # w
        /\ pc[r] = "repl_open" /\ server[r] = Nil /\ pc[w] = "idle" /\ NodeOf[w] = source[r]
        /\ server' = [server EXCEPT ![r] = w] /\ peer' = [peer EXCEPT ![w] = r]
        /\ GetChunkBody(w, r, c) /\ UNCHANGED <<mode, store, id, source>>
    BY Zenon DEF ServiceInv, Served, Follows
  <1>2. /\ c \in Chunks /\ d \in Seq(Blocks) /\ NodeOf[w] \in Nodes /\ r # Nil /\ w # Nil
        /\ payload[r] = <<>> /\ payload[w] = <<>> /\ <<>> \in Seq(Blocks) /\ Len(d) \in Nat
    BY <1>1, ServiceConstants DEF Rests
  <1>3. PICK o \in StoreGet(NodeOf[w], c) :
          LET ok == o.result = "ok"
              m  == Metadata(MapStoreError(o.result), IF ok THEN Len(Content[c]) ELSE 0) IN
          /\ stream' = [stream EXCEPT ![r] = [msgs |-> <<m>>, end |-> IF ok THEN "open" ELSE "ok"]]
          /\ \/ /\ ok
                /\ pc' = [pc EXCEPT ![w] = "get_send"]
                /\ rest' = [rest EXCEPT ![w] = Content[c]]
                /\ UNCHANGED <<payload, reply>>
             \/ /\ ~ok
                /\ Return(w, Answer("GetChunk", TRUE, "OK", MapStoreError(o.result)))
    BY <1>1, <1>2, Zenon DEF GetChunkBody
  <1> DEFINE status == MapStoreError(o.result)
             m == Metadata(status, IF o.result = "ok" THEN Len(d) ELSE 0)
             end == IF o.result = "ok" THEN "open" ELSE "ok"
             a == Answer("GetChunk", TRUE, "OK", status)
  <1>4. status \in ChunkStatus /\ status # "CHECKSUM_MISMATCH" /\ (o.result = "ok" <=> status = "OK")
    BY <1>1, <1>2, <1>3, StoreAnswers, ZenonT(30)
  <1>5. /\ m \in Msg /\ m.kind = "metadata" /\ m.status = status /\ (status = "OK" => m.size = Len(d))
        /\ GoodAnswer(a)
    <2>1. PICK z \in Nat : z = IF o.result = "ok" THEN Len(d) ELSE 0
      BY <1>2, Zenon
    <2>2. m = [kind |-> "metadata", status |-> status, size |-> z]
      BY <2>1, Zenon DEF Metadata
    <2>3. PICK s \in ChunkStatus : s = status
      BY <1>4, Zenon
    <2>4. [kind |-> "metadata", status |-> s, size |-> z] \in Msg
      BY Zenon DEF Msg
    <2>5. m \in Msg /\ m.kind = "metadata" /\ m.status = status /\ m.size = z
      BY <2>2, <2>3, <2>4
    <2>6. status = "OK" => z = Len(d)
      BY <1>4, <2>1, Zenon
    <2>7. GoodAnswer(Answer("GetChunk", TRUE, "OK", s))
      BY <1>4, <2>3, Zenon DEF GoodAnswer, Answer
    <2> QED BY <2>3, <2>5, <2>6, <2>7, Zenon
  <1>6. \/ /\ o.result = "ok" /\ pc' = [pc EXCEPT ![w] = "get_send"] /\ rest' = [rest EXCEPT ![w] = d]
           /\ UNCHANGED <<payload, reply>>
        \/ o.result # "ok" /\ Return(w, a)
    BY <1>3, Zenon
  <1>7. stream' = [stream EXCEPT ![r] = [msgs |-> <<m>>, end |-> end]]
    BY <1>3, Zenon
  <1>8. end \in Ends /\ (end = "open" <=> o.result = "ok")
    BY Zenon DEF Ends
  <1> HIDE DEF status, m, end, a, d
  <1>9. /\ pc' \in [Workers -> Places]
        /\ payload' \in [Workers -> Seq(Blocks)] /\ rest' \in [Workers -> Seq(Blocks)]
        /\ DOMAIN reply' = Workers
        /\ pc'[w] = (IF o.result = "ok" THEN "get_send" ELSE "done") /\ payload'[w] = <<>>
        /\ o.result = "ok" => rest'[w] = d
        /\ reply'[w] = reply[w] \/ reply'[w] = a
        /\ \A v \in Workers : v # w => /\ pc'[v] = pc[v] /\ payload'[v] = payload[v]
                                       /\ rest'[v] = rest[v] /\ reply'[v] = reply[v]
    <2>1. CASE /\ o.result = "ok" /\ pc' = [pc EXCEPT ![w] = "get_send"] /\ rest' = [rest EXCEPT ![w] = d]
               /\ UNCHANGED <<payload, reply>>
      BY <1>1, <1>2, <2>1, ZenonT(30) DEF TypeInv, Places, d
    <2>2. CASE o.result # "ok" /\ Return(w, a)
      BY <1>1, <1>2, <2>2, Zenon DEF TypeInv, Places, Return
    <2> QED BY <1>6, <2>1, <2>2, Zenon
  <1>10. /\ stream' \in [Workers -> [msgs : Seq(Msg), end : Ends]]
         /\ stream'[r].msgs = <<m>> /\ stream'[r].end = end
         /\ \A v \in Workers : v # r => stream'[v] = stream[v]
    <2>1. [msgs |-> <<m>>, end |-> end] \in [msgs : Seq(Msg), end : Ends]
      BY <1>5, <1>8, SMTT(30)
    <2> QED BY <1>1, <1>7, <2>1, Zenon DEF TypeInv
  <1>11. /\ server' \in [Workers -> Workers \cup {Nil}] /\ server'[r] = w
         /\ \A v \in Workers : v # r => server'[v] = server[v]
         /\ peer' \in [Workers -> Workers \cup {Nil}] /\ peer'[w] = r
         /\ \A v \in Workers : v # w => peer'[v] = peer[v]
    BY <1>1, Zenon DEF TypeInv
  <1>12. TypeInv'
    BY <1>1, <1>9, <1>10, <1>11, Zenon DEF TypeInv
  <1>13. Rests(w)' /\ Follows(w)'
    BY <1>9, Zenon DEF Rests, Follows
  <1>14. Rests(r)' /\ Follows(r)'
    <2>1. /\ pc'[r] = "repl_open" /\ payload'[r] = <<>> /\ id'[r] = id[r] /\ source'[r] = source[r]
          /\ source[r] \in Nodes
      BY <1>1, <1>2, <1>9, Zenon DEF Reading
    <2>2. Offered(<<m>>, id[r])
      BY <1>4, <1>5, SMTT(30) DEF Offered, d
    <2>3. end = "open" => Joined(r, w)'
      BY <1>1, <1>8, <1>9, <1>11, Zenon DEF Joined
    <2>4. m.status = "OK" => Flow(d, <<>>, <<m>>, end, rest'[w])
      <3> SUFFICES ASSUME m.status = "OK" PROVE Flow(d, <<>>, <<m>>, end, rest'[w])
        OBVIOUS
      <3>1. end = "open" /\ rest'[w] = d
        BY <1>4, <1>5, <1>8, <1>9, Zenon
      <3>2. Flow(d, <<>>, <<m>>, "open", d)
        BY <1>2, <1>5, FlowStart, Zenon DEF d
      <3> QED BY <3>1, <3>2, Zenon
    <2>5. <<m>>[1] = m
      OBVIOUS
    <2>6. Reading(r)'
      <3>1. (pc[r] = "repl_read" \/ stream[r].msgs[1].status = "OK" =>
               Flow(Content[id[r]], payload[r], stream[r].msgs, stream[r].end, rest[server[r]]))'
        BY <1>10, <1>11, <2>1, <2>4, <2>5, Zenon DEF d
      <3>2. (stream[r].end = "open" => Joined(r, server[r]))'
        BY <1>10, <1>11, <2>3, Zenon
      <3>3. (pc[r] = "repl_open" => Offered(stream[r].msgs, id[r]))'
        BY <1>10, <2>1, <2>2, Zenon
      <3>4. (pc[r] # "repl_read" /\ server[r] # Nil /\ source[r] \in Nodes)'
        BY <1>2, <1>11, <2>1, Zenon
      <3> QED BY <3>1, <3>2, <3>3, <3>4, Zenon DEF Reading
    <2>7. Rests(r)'
      BY <1>2, <2>1, Zenon DEF Rests
    <2> QED BY <2>6, <2>7, Zenon DEF Follows
  <1>15. ASSUME NEW v \in Workers, v # w, v # r PROVE Rests(v)' /\ Follows(v)'
    <2>1. Same(v) /\ Rests(v) /\ Follows(v)
      BY <1>1, <1>9, <1>10, <1>11, <1>15, Zenon DEF Same, ServiceInv
    <2>2. Rests(v)'
      BY <2>1, Zenon DEF Rests, Same
    <2>3. ASSUME pc[v] \in {"repl_open", "repl_read"}, server[v] # Nil, stream[v].end = "open"
          PROVE  /\ pc'[server[v]] = pc[server[v]] /\ peer'[server[v]] = peer[server[v]]
                 /\ rest'[server[v]] = rest[server[v]]
      <3>1. pc[server[v]] = "get_send" /\ server[v] \in Workers
        BY <1>1, <2>1, <2>3, ZenonT(30) DEF Follows, Reading, Joined, TypeInv
      <3>2. server[v] # w
        BY <1>1, <3>1, Zenon
      <3> QED BY <1>9, <1>11, <3>1, <3>2, Zenon
    <2>4. Follows(v)'
      BY <1>1, <2>1, <2>3, FollowsOn, Zenon
    <2> QED BY <2>2, <2>4, Zenon
  <1>16. WithinLimit'
    <2> SUFFICES ASSUME NEW v \in Workers PROVE Len(payload'[v]) <= MaxChunkBytes[NodeOf[v]]
      BY Zenon DEF WithinLimit
    <2>1. payload'[v] = payload[v]
      BY <1>2, <1>9, Zenon
    <2> QED BY <2>1, Zenon DEF ServiceInv, WithinLimit
  <1>17. Answers'
    <2> SUFFICES ASSUME NEW v \in Workers, reply'[v] # Nil PROVE GoodAnswer(reply'[v])
      BY Zenon DEF Answers, GoodAnswer
    <2>1. reply'[v] = reply[v] \/ reply'[v] = a
      BY <1>9, Zenon
    <2> QED BY <1>5, <2>1, Zenon DEF ServiceInv, Answers, GoodAnswer
  <1> QED BY <1>12, <1>13, <1>14, <1>15, <1>16, <1>17, Zenon DEF ServiceInv

-----------------------------------------------------------------------------
(* The nodes                                                                *)

\* A node dies: its own calls are gone, and readers elsewhere see a broken stream.
LEMMA CrashStep ==
  ASSUME ServiceInv, NEW n \in Nodes, Crash(n)
  PROVE  ServiceInv'
  <1> DEFINE Gone(v) == source[v] = n /\ stream[v].end = "open"
  <1>1. TypeInv /\ <<>> \in Seq(Blocks) /\ Silent \in [msgs : Seq(Msg), end : Ends]
    BY DEF ServiceInv, Silent, Ends
  <1>2. \A v \in Workers : NodeOf[v] # n =>
          /\ pc'[v] = pc[v] /\ id'[v] = id[v] /\ reply'[v] = reply[v] /\ payload'[v] = payload[v]
          /\ rest'[v] = rest[v] /\ peer'[v] = peer[v] /\ source'[v] = source[v]
          /\ server'[v] = server[v]
          /\ stream'[v] = (IF Gone(v) THEN [stream[v] EXCEPT !.end = "error"] ELSE stream[v])
    BY Zenon DEF Crash
  <1>3. \A v \in Workers : NodeOf[v] = n =>
          /\ pc'[v] = "idle" /\ reply'[v] = Nil /\ payload'[v] = <<>> /\ server'[v] = Nil
          /\ source'[v] = Nil /\ stream'[v] = Silent
    BY Zenon DEF Crash
  <1>4. TypeInv'
    <2>1. mode' \in [Nodes -> {"serving", "signalled", "draining", "down"}] /\ UNCHANGED store
      BY <1>1, Zenon DEF Crash, TypeInv
    <2>2. /\ pc' \in [Workers -> Places]
          /\ id' \in [Workers -> Chunks \cup {Nil}]
          /\ payload' \in [Workers -> Seq(Blocks)] /\ rest' \in [Workers -> Seq(Blocks)]
          /\ peer' \in [Workers -> Workers \cup {Nil}] /\ server' \in [Workers -> Workers \cup {Nil}]
          /\ source' \in [Workers -> Nodes \cup {Nil}] /\ DOMAIN reply' = Workers
      BY <1>1, Zenon DEF Crash, TypeInv, Places
    <2>3. ASSUME NEW v \in Workers PROVE stream'[v] \in [msgs : Seq(Msg), end : Ends]
      <3>1. stream[v] \in [msgs : Seq(Msg), end : Ends] /\ "error" \in Ends
        BY <1>1, Zenon DEF TypeInv, Ends
      <3>2. [stream[v] EXCEPT !.end = "error"] \in [msgs : Seq(Msg), end : Ends]
        BY <3>1, Zenon
      <3> QED BY <1>1, <1>2, <1>3, <3>1, <3>2, Zenon
    <2>4. stream' = [v \in Workers |-> stream'[v]]
      BY Zenon DEF Crash
    <2>5. stream' \in [Workers -> [msgs : Seq(Msg), end : Ends]]
      BY <2>3, <2>4, Zenon
    <2> QED BY <1>1, <2>1, <2>2, <2>5, Zenon DEF TypeInv
  <1>5. ASSUME NEW v \in Workers PROVE Rests(v)' /\ Follows(v)'
    <2>0. Rests(v) /\ Follows(v)
      BY Zenon DEF ServiceInv
    <2>1. CASE NodeOf[v] = n
      BY <1>3, <2>1, Zenon DEF Rests, Follows
    <2>2. CASE NodeOf[v] # n /\ ~Gone(v)
      <3>1. Same(v)
        BY <1>2, <2>2, Zenon DEF Same
      <3>2. Rests(v)'
        BY <2>0, <3>1, Zenon DEF Rests, Same
      <3>3. ASSUME pc[v] \in {"repl_open", "repl_read"}, server[v] # Nil, stream[v].end = "open"
            PROVE  /\ pc'[server[v]] = pc[server[v]] /\ peer'[server[v]] = peer[server[v]]
                   /\ rest'[server[v]] = rest[server[v]]
        <4>1. NodeOf[server[v]] = source[v] /\ server[v] \in Workers
          BY <1>1, <2>0, <3>3, Zenon DEF Follows, Reading, Joined, TypeInv
        <4>2. source[v] # n
          BY <2>2, <3>3, Zenon
        <4> QED BY <1>2, <4>1, <4>2, Zenon
      <3>4. Follows(v)'
        BY <1>1, <2>0, <3>1, <3>3, FollowsOn, Zenon
      <3> QED BY <3>2, <3>4, Zenon
    <2>3. CASE NodeOf[v] # n /\ Gone(v)
      <3>1. /\ pc'[v] = pc[v] /\ id'[v] = id[v] /\ payload'[v] = payload[v] /\ source'[v] = source[v]
            /\ server'[v] = server[v] /\ stream'[v] = [stream[v] EXCEPT !.end = "error"]
        BY <1>2, <2>3, Zenon
      <3>2. stream'[v].msgs = stream[v].msgs /\ stream'[v].end = "error" /\ stream[v].msgs \in Seq(Msg)
        BY <1>1, <3>1, Zenon DEF TypeInv
      <3>3. Rests(v)'
        <4>1. pc[v] # "idle"
          <5> SUFFICES ASSUME pc[v] = "idle" PROVE FALSE
            OBVIOUS
          <5> QED BY <2>0, <2>3, ServiceConstants, Zenon DEF Rests
        <4> QED BY <2>0, <3>1, <4>1, Zenon DEF Rests
      <3>4. ASSUME pc[v] \in {"repl_open", "repl_read"} PROVE Reading(v)'
        <4>1. Reading(v) /\ Content[id[v]] \in Seq(Blocks)
          BY <2>0, <3>4, ServiceConstants, Zenon DEF Follows, Rests
        <4>2. ASSUME Flow(Content[id[v]], payload[v], stream[v].msgs, stream[v].end, rest[server[v]])
              PROVE  Flow(Content[id[v]], payload[v], stream[v].msgs, "error", rest'[server[v]])
          BY <3>2, <4>1, <4>2, FlowLeft, Zenon
        <4> QED BY <3>1, <3>2, <4>1, <4>2, ZenonT(30) DEF Reading
      <3> QED BY <3>1, <3>3, <3>4, Zenon DEF Follows
    <2> QED BY <2>1, <2>2, <2>3, Zenon
  <1>6. WithinLimit'
    <2> SUFFICES ASSUME NEW v \in Workers PROVE Len(payload'[v]) <= MaxChunkBytes[NodeOf[v]]
      BY Zenon DEF WithinLimit
    <2>1. CASE NodeOf[v] # n
      BY <1>2, <2>1, Zenon DEF ServiceInv, WithinLimit
    <2>2. CASE NodeOf[v] = n
      <3>1. payload'[v] = <<>> /\ MaxChunkBytes[NodeOf[v]] \in Nat
        BY <1>3, <2>2, ServiceConstants, Zenon
      <3> QED BY <3>1
    <2> QED BY <2>1, <2>2, Zenon
  <1>7. Answers'
    <2> SUFFICES ASSUME NEW v \in Workers, reply'[v] # Nil PROVE GoodAnswer(reply'[v])
      BY Zenon DEF Answers, GoodAnswer
    <2>1. NodeOf[v] # n
      BY <1>3, Zenon
    <2> QED BY <1>2, <2>1, ZenonT(30) DEF ServiceInv, Answers, GoodAnswer
  <1> QED BY <1>4, <1>5, <1>6, <1>7, Zenon DEF ServiceInv

\* Steps of nodes and disks that leave the handlers alone.
LEMMA QuietStep ==
  ASSUME ServiceInv, UNCHANGED handler,
         mode' \in [Nodes -> {"serving", "signalled", "draining", "down"}],
         store' \in [Nodes -> [Chunks -> {"absent", "good", "rotted"}]]
  PROVE  ServiceInv'
  <1>1. UNCHANGED <<pc, id, payload, rest, peer, source, server, stream, reply>>
    BY Zenon DEF handler
  <1>2. TypeInv'
    BY <1>1, Zenon DEF ServiceInv, TypeInv
  <1>3. WithinLimit' /\ Answers'
    BY <1>1, Zenon DEF ServiceInv, WithinLimit, Answers
  <1>4. ASSUME NEW v \in Workers PROVE Rests(v)' /\ Follows(v)'
    <2>1. Rests(v) /\ Follows(v)
      BY Zenon DEF ServiceInv
    <2>2. Rests(v)'
      BY <1>1, <2>1, Zenon DEF Rests
    <2>3. Follows(v)'
      BY <1>1, <2>1, Zenon DEF Follows, Reading, Joined
    <2> QED BY <2>2, <2>3, Zenon
  <1> QED BY <1>2, <1>3, <1>4, Zenon DEF ServiceInv

\* A start, a signal, a shutdown and a rotten chunk leave the handlers alone.
LEMMA NodeStep ==
  ASSUME ServiceInv, NEW n \in Nodes,
         \/ Start(n) \/ SignalHandler(n) \/ Shutdown(n)
         \/ \E c \in Chunks : Rot(n, c)
  PROVE  ServiceInv'
  <1>1. /\ mode \in [Nodes -> {"serving", "signalled", "draining", "down"}]
        /\ store \in [Nodes -> [Chunks -> {"absent", "good", "rotted"}]]
    BY Zenon DEF ServiceInv, TypeInv
  <1>2. CASE Start(n) \/ SignalHandler(n) \/ Shutdown(n)
    <2>1. UNCHANGED <<store, handler>>
      BY <1>2, Zenon DEF Start, SignalHandler, Shutdown
    <2>2. \E m \in {"serving", "signalled", "draining", "down"} : mode' = [mode EXCEPT ![n] = m]
      BY <1>2, Zenon DEF Start, SignalHandler, Shutdown
    <2> QED BY <1>1, <2>1, <2>2, QuietStep, Zenon
  <1>3. ASSUME NEW c \in Chunks, Rot(n, c) PROVE ServiceInv'
    <2>1. UNCHANGED <<mode, handler>> /\ store' = [store EXCEPT ![n] = [store[n] EXCEPT ![c] = "rotted"]]
      BY <1>3, Zenon DEF Rot
    <2>2. [store[n] EXCEPT ![c] = "rotted"] \in [Chunks -> {"absent", "good", "rotted"}]
      BY <1>1, Zenon
    <2>3. store' \in [Nodes -> [Chunks -> {"absent", "good", "rotted"}]]
      BY <1>1, <2>1, <2>2, Zenon
    <2> QED BY <1>1, <2>1, <2>3, QuietStep, Zenon
  <1> QED BY <1>2, <1>3, Zenon

-----------------------------------------------------------------------------
(* The invariant                                                            *)

\* Every node starts with idle workers.
LEMMA ServiceStart == Init => ServiceInv
  <1> SUFFICES ASSUME Init PROVE ServiceInv
    OBVIOUS
  <1>1. Silent \in [msgs : Seq(Msg), end : Ends] /\ <<>> \in Seq(Blocks)
    BY SMTT(30) DEF Silent, Ends
  <1>2. TypeInv
    BY <1>1, SMTT(30) DEF Init, TypeInv, Places
  <1>3. WithinLimit
    <2> SUFFICES ASSUME NEW w \in Workers PROVE Len(payload[w]) <= MaxChunkBytes[NodeOf[w]]
      BY Zenon DEF WithinLimit
    <2>1. payload[w] = <<>> /\ MaxChunkBytes[NodeOf[w]] \in Nat
      BY ServiceConstants, Zenon DEF Init
    <2>2. Len(payload[w]) = 0
      BY <2>1, EmptySeq, Zenon
    <2> QED BY <2>1, <2>2
  <1>4. Answers /\ \A w \in Workers : Rests(w) /\ Follows(w)
    BY Zenon DEF Init, Answers, Rests, Follows
  <1> QED BY <1>2, <1>3, <1>4, Zenon DEF ServiceInv

\* Every step keeps the pieces of every chunk under way together.
LEMMA ServiceStep == ServiceInv /\ [Next]_vars => ServiceInv'
  <1> SUFFICES ASSUME ServiceInv, [Next]_vars PROVE ServiceInv'
    OBVIOUS
  <1>0. ASSUME NEW w \in Workers, PutChunk(w) \/ ServerReflectionInfo(w) \/ ReflectionEnds(w)
        PROVE  ServiceInv'
    BY <1>0, OpenedStep, ReflectionEndsStep, Zenon
  <1>1. ASSUME NEW w \in Workers, NEW first \in FirstMessage, PutChunkFirst(w, first) PROVE ServiceInv'
    BY <1>1, PutChunkFirstStep, Zenon
  <1>2. ASSUME NEW w \in Workers, NEW frame \in Frames, PutChunkRead(w, frame) PROVE ServiceInv'
    BY <1>2, PutChunkReadStep, Zenon
  <1>3. ASSUME NEW w \in Workers, PutChunkStore(w) PROVE ServiceInv'
    BY <1>3, PutChunkStoreStep, Zenon
  <1>4. ASSUME NEW w \in Workers, NEW v \in BOOLEAN, NEW c \in Chunks \cup {Nil}, GetChunk(w, v, c)
        PROVE  ServiceInv'
    BY <1>4, GetChunkStep, Zenon
  <1>5. ASSUME NEW w \in Workers, NEW v \in BOOLEAN, NEW c \in Chunks \cup {Nil},
               DeleteChunk(w, v, c) \/ VerifyChunk(w, v, c)
        PROVE  ServiceInv'
    BY <1>5, OneStepCalls, Zenon
  <1>6. ASSUME NEW w \in Workers, NEW v \in BOOLEAN, NEW c \in Chunks \cup {Nil}, NEW n \in Nodes,
               ReplicateChunk(w, v, c, n)
        PROVE  ServiceInv'
    BY <1>6, ReplicateChunkStep, Zenon
  <1>7. ASSUME NEW w \in Workers, NEW v \in BOOLEAN, GetNodeStats(w, v) PROVE ServiceInv'
    <2>1. Nil \in Chunks \cup {Nil}
      OBVIOUS
    <2> QED BY <1>7, <2>1, OneStepCalls, Zenon
  <1>8. ASSUME NEW w \in Workers, Handle(w) \/ GetChunkWrite(w) \/ ReplicateStore(w) PROVE ServiceInv'
    BY SMTT(30), <1>8, GetChunkWriteStep, GetChunkReturnStep, ReplicateOfferStep, ReplicateReadStep,
       ReplicateStoreStep, SentStep DEF Handle
  <1>9. ASSUME NEW w \in Workers, Refused(w) \/ Break(w) PROVE ServiceInv'
    BY <1>9, RefusedStep, BreakStep, Zenon
  <1>10. ASSUME NEW r \in Workers, NEW w \in Workers, Served(r, w) PROVE ServiceInv'
    BY <1>10, ServedStep, Zenon
  <1>11. ASSUME NEW n \in Nodes, Crash(n) PROVE ServiceInv'
    BY <1>11, CrashStep, Zenon
  <1>12. ASSUME NEW n \in Nodes,
                Start(n) \/ SignalHandler(n) \/ Shutdown(n) \/ \E c \in Chunks : Rot(n, c)
         PROVE  ServiceInv'
    BY <1>12, NodeStep, Zenon
  <1>13. CASE UNCHANGED vars
    BY <1>13, QuietStep, Zenon DEF vars, ServiceInv, TypeInv
  <1>14. CASE Next
    BY <1>0, <1>1, <1>2, <1>3, <1>4, <1>5, <1>6, <1>7, <1>8, <1>9, <1>10, <1>11, <1>12, <1>14,
       ZenonT(30) DEF Next
  <1> QED BY <1>13, <1>14, Zenon

\* What a reader has, what is under way and what its source has still to send
\* are always consecutive pieces of the chunk.
LEMMA ServiceInvariant == Spec => []ServiceInv
  BY ServiceStart, ServiceStep, PTL DEF Spec

\* The state of nodes, workers and streams keeps its shape, and every stream from
\* a GetChunk to a replication brings the metadata first and then only data.
THEOREM ServiceTyped == Spec => []TypeOK
  <1>1. ASSUME ServiceInv, NEW w \in Workers, pc[w] \in {"repl_open", "repl_read"},
               NEW k \in 1..Len(stream[w].msgs)
        PROVE  stream[w].msgs[k].kind = IF k = 1 /\ pc[w] = "repl_open" THEN "metadata" ELSE "data"
    <2>1. Reading(w) /\ stream[w].msgs \in Seq(Msg)
      BY <1>1, Zenon DEF ServiceInv, Follows, TypeInv
    <2>2. stream[w].msgs # <<>>
      BY <1>1, EmptySeq
    <2>3. server[w] # Nil
      BY <2>1, <2>2, Zenon DEF Reading
    <2>4. k # 1 => k \in 2..Len(stream[w].msgs)
      BY <1>1, <2>1
    <2>5. CASE pc[w] = "repl_open"
      BY <2>1, <2>3, <2>4, <2>5, Zenon DEF Reading, Offered
    <2>6. CASE pc[w] = "repl_read"
      BY <1>1, <2>1, <2>3, <2>6, Zenon DEF Reading
    <2> QED BY <1>1, <2>5, <2>6, Zenon
  <1>2. ServiceInv => TypeOK
    BY <1>1, Zenon DEF ServiceInv, TypeInv, TypeOK, Ends
  <1> QED BY <1>2, ServiceInvariant, PTL

\* No handler buffers more than max_chunk_bytes_ of its own node, although a
\* replication checks only the size that the source announced.
THEOREM BuffersBounded == Spec => []WithinLimit
  <1>1. ServiceInv => WithinLimit
    BY Zenon DEF ServiceInv
  <1> QED BY <1>1, ServiceInvariant, PTL

\* A replication never answers CHECKSUM_MISMATCH, whatever streams break and
\* whatever nodes die or shut down on the way.
THEOREM ReplicasWhole == Spec => []NoSpuriousMismatch
  <1>1. ServiceInv => NoSpuriousMismatch
    BY Zenon DEF ServiceInv, Answers, NoSpuriousMismatch
  <1> QED BY <1>1, ServiceInvariant, PTL

=============================================================================
