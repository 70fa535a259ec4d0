------------------------ MODULE ClientHandlerDataProofs ------------------------
(***************************************************************************)
(* What a route sees of its request, for every set of streams that frame   *)
(* their requests, however they are cut into chunks: the line, the headers *)
(* and the body are the request's own, and requests are taken up in order. *)
(* The invariant places what was read, the buffer, the chunks the Writable *)
(* holds and what the socket did not deliver in one stream.                *)
(***************************************************************************)
EXTENDS ClientHandlerProofs

LOCAL INSTANCE SequencesExt

(* Positions in a stream. *)
Cuts(cut) == \A k \in Nat : cut[k] \in Nat

(* Where the input is: a stream s of which the first cut[0] tokens were     *)
(* read, the buffer, the chunks of the Writable and the socket hold the     *)
(* rest, one after the other.  Nothing is lost, repeated or moved.          *)
Piece(b, s, c) == c + Len(b) <= Len(s) /\ \A k \in 1..Len(b) : b[k] = s[c + k]

Placed(s, cut) ==
  /\ Piece(buffer, s, cut[0]) /\ cut[1] = cut[0] + Len(buffer)
  /\ \A w \in 1..Len(writable) :
       Piece(writable[w], s, cut[w]) /\ cut[w + 1] = cut[w] + Len(writable[w])
  /\ Piece(net, s, cut[Len(writable) + 1])
  /\ Len(s) = cut[Len(writable) + 1] + Len(net)

(* The line of every request that was dispatched was read before c. *)
LineRead(s, r, c) == \E k \in 1..c : s[k].kind = "line" /\ s[k].req = r
ServedRead(s, c) == \A t \in 1..dispatched : LineRead(s, served[t], c)

(* The line is the one at i, the headers come from what follows, up to j. *)
HeadRead(s, i, j) ==
  /\ s[i].kind = "line" /\ s[i].req = line
  /\ \A h \in 1..Len(headers) : \E k \in (i + 1)..j : headers[h] = s[k]

(* In the middle of a head, which begins at i. *)
InHead(s, c) ==
  \E i \in 1..c :
    /\ HeadRead(s, i, c)
    /\ \A k \in (i + 1)..c : s[k].kind # "blank"
    /\ ServedRead(s, i - 1)

(* The head at i declares a length. *)
Declared(s, i, j, size) == \E k \in i..j : s[k].kind = "length" /\ s[k].n = size

(* After a head: what the body has so far, if it was asked for, is what     *)
(* followed the head, and its size is the declared one.                     *)
InBody(s, c) ==
  \E i, j \in 1..c :
    /\ HeadRead(s, i, j) /\ IsHead(s, i, j)
    /\ Piece(body.data, s, j) /\ c = j + Len(body.data)
    /\ body = NoBody \/ Declared(s, i, j, body.size)

(* What the parser has of what came before c, state by state. *)
ReadInv(s, c) ==
  /\ state \in {"REQUEST", "HEADERS"} => body = NoBody
  /\ state = "REQUEST" => headers = <<>>
  /\ state = "HEADERS" => InHead(s, c)
  /\ state \in {"BODY", "FINISHED"} => InBody(s, c)
  /\ state = "FINISHED" => Len(body.data) = body.size
  /\ state = "BODY" => body.size > 0
  /\ ServedRead(s, c)

(* What an activation that is being served knows of the request. *)
TaskData ==
  \A t \in Tasks :
    /\ pc[t] \in ServingPcs => line = served[t]
    /\ pc[t] = "chain" => state = "FINISHED" /\ body = NoBody
    /\ pc[t] \in {"handler", "status", "headers", "body"} => state = "FINISHED"

(* The input is one of the streams, cut somewhere, and what was read of it  *)
(* is what the parser has.                                                  *)
InputInv ==
  \E s \in Streams : \E cut : Cuts(cut) /\ Placed(s, cut) /\ ReadInv(s, cut[0])

(* The inductive invariant behind OwnData and DispatchInOrder. *)
DataInv == IInv /\ TaskData /\ DispatchInOrder /\ InputInv

--------------------------------------------------------------------------------
(* Pieces of a stream. *)

(* What is in a piece is a piece, further on. *)
LEMMA PieceOf ==
  ASSUME NEW s, NEW b, NEW l, NEW c \in Nat, NEW d \in Nat, NEW n \in Nat,
         Len(s) \in Nat, Len(b) \in Nat, d + n <= Len(b),
         Len(l) = n, \A k \in 1..n : l[k] = b[d + k], Piece(b, s, c)
  PROVE  Piece(l, s, c + d)
<1>1. c + Len(b) <= Len(s) /\ \A k \in 1..Len(b) : b[k] = s[c + k]
  BY DEF Piece
<1>2. (c + d) + Len(l) <= Len(s)
  BY <1>1
<1>3. \A k \in 1..n : d + k \in 1..Len(b) /\ c + (d + k) = (c + d) + k
  OBVIOUS
<1>4. \A k \in 1..n : l[k] = s[(c + d) + k]
  BY <1>1, <1>3
<1> QED
  BY <1>2, <1>4 DEF Piece

(* A piece cut in two is two pieces, the second behind the first. *)
LEMMA PieceCut ==
  ASSUME NEW s, Len(s) \in Nat, NEW b \in Seq(Token), NEW c \in Nat, Piece(b, s, c),
         NEW n \in 0..Len(b)
  PROVE  /\ SubSeq(b, 1, n) \in Seq(Token) /\ Len(SubSeq(b, 1, n)) = n
         /\ Piece(SubSeq(b, 1, n), s, c)
         /\ SubSeq(b, n + 1, Len(b)) \in Seq(Token)
         /\ Len(SubSeq(b, n + 1, Len(b))) = Len(b) - n
         /\ Piece(SubSeq(b, n + 1, Len(b)), s, c + n)
<1> DEFINE l == SubSeq(b, 1, n)
           r == SubSeq(b, n + 1, Len(b))
<1>1. Len(b) \in Nat /\ n \in Nat /\ n <= Len(b) /\ Len(b) - n \in Nat /\ 0 \in Nat
  OBVIOUS
<1>2. \A k \in 1..Len(b) : b[k] \in Token
  OBVIOUS
<1>3. l \in Seq(Token) /\ Len(l) = n /\ \A k \in 1..n : l[k] = b[k]
  BY <1>1, <1>2, SubSeqProperties
<1>4. r \in Seq(Token) /\ Len(r) = Len(b) - n /\ \A k \in 1..(Len(b) - n) : r[k] = b[n + k]
  BY <1>1, <1>2, SubSeqProperties
<1> HIDE DEF l, r
<1>5. Piece(l, s, c + 0)
  <2>1. \A k \in 1..n : l[k] = b[0 + k]
    BY <1>3
  <2>2. 0 + n <= Len(b)
    BY <1>1
  <2> QED
    BY <1>1, <1>3, <2>1, <2>2, PieceOf
<1>6. Piece(r, s, c + n)
  <2>1. n + (Len(b) - n) <= Len(b)
    BY <1>1
  <2> QED
    BY <1>1, <1>4, <2>1, PieceOf
<1>7. c + 0 = c
  OBVIOUS
<1> QED
  BY <1>3, <1>4, <1>5, <1>6, <1>7 DEF l, r

(* Two pieces, the second behind the first, are one, element by element. *)
LEMMA PieceBoth ==
  ASSUME NEW s, NEW a, NEW b, NEW ab, NEW c \in Nat, Len(s) \in Nat,
         NEW n \in Nat, NEW m \in Nat, Len(a) = n, Len(b) = m, Len(ab) = n + m,
         \A k \in 1..(n + m) : ab[k] = IF k <= n THEN a[k] ELSE b[k - n],
         Piece(a, s, c), Piece(b, s, c + n)
  PROVE  Piece(ab, s, c)
<1>1. /\ (c + n) + m <= Len(s)
      /\ \A k \in 1..n : a[k] = s[c + k]
      /\ \A k \in 1..m : b[k] = s[(c + n) + k]
  BY DEF Piece
<1>2. ASSUME NEW k \in 1..(n + m) PROVE ab[k] = s[c + k]
  <2>1. CASE k <= n
    BY <1>1, <2>1
  <2>2. CASE ~(k <= n)
    <3>1. k - n \in 1..m /\ (c + n) + (k - n) = c + k
      BY <2>2
    <3>2. b[k - n] = s[(c + n) + (k - n)]
      BY <1>1, <3>1
    <3> QED
      BY <2>2, <3>1, <3>2
  <2> QED
    BY <2>1, <2>2
<1>3. c + (n + m) <= Len(s)
  BY <1>1
<1> QED
  BY <1>2, <1>3 DEF Piece

(* Two pieces, the second behind the first, are one. *)
LEMMA PieceJoined ==
  ASSUME NEW s, Len(s) \in Nat, NEW a \in Seq(Token), NEW b \in Seq(Token), NEW c \in Nat,
         Piece(a, s, c), Piece(b, s, c + Len(a))
  PROVE  /\ a \o b \in Seq(Token) /\ Len(a \o b) = Len(a) + Len(b)
         /\ Piece(a \o b, s, c)
<1>1. /\ a \o b \in Seq(Token) /\ Len(a \o b) = Len(a) + Len(b)
      /\ \A k \in 1..(Len(a) + Len(b)) :
           (a \o b)[k] = IF k <= Len(a) THEN a[k] ELSE b[k - Len(a)]
  BY ConcatProperties
<1>2. Len(a) \in Nat /\ Len(b) \in Nat
  OBVIOUS
<1>3. Piece(a \o b, s, c)
  BY <1>1, <1>2, PieceBoth
<1> QED
  BY <1>1, <1>3

InputTypes == buffer \in Seq(Token) /\ writable \in Seq(Seq(Token)) /\ net \in Seq(Token)

(* n tokens are taken from the buffer, which began at c. *)
Takes(s, c, n) == Piece(buffer', s, c + n) /\ Len(buffer') = Len(buffer) - n

(* The cuts of the four moves of the input below. *)
LEMMA CutRead ==
  ASSUME NEW cut, NEW n \in Nat, Cuts(cut)
  PROVE  \E new : Cuts(new) /\ new[0] = cut[0] + n /\ \A k \in Nat : k # 0 => new[k] = cut[k]
<1> DEFINE f == [k \in Nat |-> IF k = 0 THEN cut[0] + n ELSE cut[k]]
<1>1. f[0] = cut[0] + n /\ \A k \in Nat : k # 0 => f[k] = cut[k]
  OBVIOUS
<1>2. Cuts(f)
  BY <1>1 DEF Cuts
<1> QED
  BY <1>1, <1>2

(* One cut can be moved. *)
LEMMA CutMoved ==
  ASSUME NEW cut, NEW l \in Nat \ {0}, NEW n \in Nat, Cuts(cut)
  PROVE  \E new : Cuts(new) /\ new[l] = n /\ \A k \in Nat : k # l => new[k] = cut[k]
<1> DEFINE f == [k \in Nat |-> IF k = l THEN n ELSE cut[k]]
<1>1. f[l] = n /\ \A k \in Nat : k # l => f[k] = cut[k]
  OBVIOUS
<1>2. Cuts(f)
  BY <1>1 DEF Cuts
<1> QED
  BY <1>1, <1>2

(* A cut can be added behind the last. *)
LEMMA CutAdded ==
  ASSUME NEW cut, NEW l \in Nat, NEW n \in Nat, Cuts(cut)
  PROVE  \E new : Cuts(new) /\ new[l + 2] = cut[l + 1] + n /\ \A k \in Nat : k # l + 2 => new[k] = cut[k]
<1> DEFINE f == [k \in Nat |-> IF k = l + 2 THEN cut[l + 1] + n ELSE cut[k]]
<1>1. f[l + 2] = cut[l + 1] + n /\ \A k \in Nat : k # l + 2 => f[k] = cut[k]
  OBVIOUS
<1>2. Cuts(f)
  BY <1>1 DEF Cuts
<1> QED
  BY <1>1, <1>2

(* The first cut can be dropped, and the others move up, but for where the  *)
(* buffer begins.                                                           *)
LEMMA CutDropped ==
  ASSUME NEW cut, Cuts(cut)
  PROVE  \E new : Cuts(new) /\ new[0] = cut[0] /\ \A k \in Nat : k # 0 => new[k] = cut[k + 1]
<1> DEFINE f == [k \in Nat |-> IF k = 0 THEN cut[0] ELSE cut[k + 1]]
<1>1. f[0] = cut[0] /\ \A k \in Nat : k # 0 => f[k] = cut[k + 1]
  OBVIOUS
<1>2. Cuts(f)
  BY <1>1 DEF Cuts
<1> QED
  BY <1>1, <1>2

(* The pieces after the parser read n tokens, after a chunk was handed on,  *)
(* after one was held back, and after the Writable went on to the next.     *)
LEMMA PlacedReads ==
  ASSUME NEW s, NEW cut, NEW n
  PROVE  Len(s) \in Nat /\ Cuts(cut) /\ n \in 0..Len(buffer) /\ InputTypes /\ Placed(s, cut)
           /\ Takes(s, cut[0], n) /\ UNCHANGED <<writable, net>>
         => \E new : Cuts(new) /\ Placed(s, new)' /\ new[0] = cut[0] + n
<1>1. ASSUME Len(s) \in Nat, Cuts(cut), n \in 0..Len(buffer), InputTypes, Placed(s, cut),
             Takes(s, cut[0], n), UNCHANGED <<writable, net>>
      PROVE  \E new : Cuts(new) /\ Placed(s, new)' /\ new[0] = cut[0] + n
  <2>1. buffer \in Seq(Token) /\ Len(buffer) \in Nat
    BY <1>1 DEF InputTypes
  <2>2. n \in Nat /\ cut[0] \in Nat /\ Len(s) \in Nat
    BY <1>1, <2>1 DEF Cuts
  <2>3. PICK new : Cuts(new) /\ new[0] = cut[0] + n /\ \A k \in Nat : k # 0 => new[k] = cut[k]
    BY <1>1, <2>2, CutRead
  <2>4. Piece(buffer, s, cut[0]) /\ cut[1] = cut[0] + Len(buffer)
    BY <1>1 DEF Placed
  <2>5. Piece(buffer', s, cut[0] + n) /\ Len(buffer') = Len(buffer) - n
    BY <1>1 DEF Takes
  <2>6. PICK l \in Nat : l = Len(writable)
    BY <1>1 DEF InputTypes
  <2>7. new[1] = cut[1] /\ new[l + 1] = cut[l + 1]
        /\ \A w \in 1..l : new[w] = cut[w] /\ new[w + 1] = cut[w + 1]
    BY <2>3, <2>6
  <2>8. new[1] = new[0] + Len(buffer')
    BY <2>1, <2>2, <2>3, <2>4, <2>5, <2>7
  <2>9. \A w \in 1..l : Piece(writable'[w], s, new[w]) /\ new[w + 1] = new[w] + Len(writable'[w])
    BY <1>1, <2>6, <2>7 DEF Placed
  <2>10. Piece(net', s, new[l + 1]) /\ Len(s) = new[l + 1] + Len(net')
    BY <1>1, <2>6, <2>7 DEF Placed
  <2>11. Placed(s, new)'
    BY <1>1, <2>3, <2>5, <2>6, <2>8, <2>9, <2>10 DEF Placed
  <2> QED
    BY <2>3, <2>11
<1> QED
  BY <1>1

(* A chunk that the Writable hands to the parser at once goes from the      *)
(* network to the end of the buffer.                                        *)
LEMMA PlacedHandsOn ==
  ASSUME NEW s, NEW cut, NEW n
  PROVE  Len(s) \in Nat /\ Cuts(cut) /\ n \in 1..Len(net) /\ InputTypes /\ Placed(s, cut) /\ writable = <<>>
           /\ buffer' = buffer \o SubSeq(net, 1, n)
           /\ net' = SubSeq(net, n + 1, Len(net)) /\ UNCHANGED writable
         => \E new : Cuts(new) /\ Placed(s, new)' /\ new[0] = cut[0]
<1>1. ASSUME Len(s) \in Nat, Cuts(cut), n \in 1..Len(net), InputTypes, Placed(s, cut),
             writable = <<>>,
             buffer' = buffer \o SubSeq(net, 1, n),
             net' = SubSeq(net, n + 1, Len(net)), UNCHANGED writable
      PROVE  \E new : Cuts(new) /\ Placed(s, new)' /\ new[0] = cut[0]
  <2>1. buffer \in Seq(Token) /\ net \in Seq(Token) /\ Len(buffer) \in Nat /\ Len(net) \in Nat
    BY <1>1 DEF InputTypes
  <2>2. n \in Nat /\ n \in 0..Len(net) /\ cut[0] \in Nat /\ cut[1] \in Nat /\ cut[1] + n \in Nat /\ 1 \in Nat \ {0}
        /\ Len(s) \in Nat
    BY <1>1, <2>1 DEF Cuts
  <2>3. PICK new : Cuts(new) /\ new[1] = cut[1] + n /\ \A k \in Nat : k # 1 => new[k] = cut[k]
    <3>1. Cuts(cut) /\ 1 \in Nat \ {0} /\ cut[1] + n \in Nat
      BY <1>1, <2>2
    <3> QED
      BY <3>1, CutMoved
  <2>4. Len(writable) = 0 /\ Len(writable') = 0
    BY <1>1
  <2>5. /\ Piece(buffer, s, cut[0]) /\ cut[1] = cut[0] + Len(buffer)
        /\ Piece(net, s, cut[0 + 1]) /\ Len(s) = cut[0 + 1] + Len(net)
    BY <1>1, <2>4 DEF Placed
  <2>6. Piece(net, s, cut[1]) /\ Len(s) = cut[1] + Len(net)
    BY <2>5
  <2>13. PICK chunk, rest : chunk = SubSeq(net, 1, n) /\ rest = SubSeq(net, n + 1, Len(net))
    OBVIOUS
  <2>14. /\ chunk \in Seq(Token) /\ Len(chunk) = n /\ Piece(chunk, s, cut[1])
        /\ Piece(rest, s, cut[1] + n) /\ Len(rest) = Len(net) - n
    BY <2>1, <2>2, <2>6, <2>13, PieceCut
  <2>15. buffer' = buffer \o chunk /\ net' = rest
    BY <1>1, <2>13
  <2>7. Piece(net', s, cut[1] + n) /\ Len(net') = Len(net) - n
    BY <2>14, <2>15
  <2>8. Piece(buffer', s, cut[0]) /\ Len(buffer') = Len(buffer) + n
    <3>1. PICK c \in Nat : c = cut[0]
      BY <2>2
    <3>2. Piece(chunk, s, c + Len(buffer)) /\ Piece(buffer, s, c)
      BY <2>5, <2>14, <3>1
    <3>3. Len(s) \in Nat /\ buffer \in Seq(Token) /\ chunk \in Seq(Token)
      BY <2>1, <2>2, <2>14
    <3>4. Piece(buffer \o chunk, s, c) /\ Len(buffer \o chunk) = Len(buffer) + Len(chunk)
      BY <3>2, <3>3, PieceJoined
    <3> QED
      BY <2>14, <2>15, <3>1, <3>4
  <2>9. new[0] = cut[0] /\ new[0 + 1] = cut[1] + n
    BY <2>3
  <2>10. new[1] = new[0] + Len(buffer')
    BY <2>1, <2>2, <2>5, <2>8, <2>9
  <2>11. Len(s) = new[0 + 1] + Len(net')
    BY <2>1, <2>2, <2>6, <2>7, <2>9
  <2>12. Placed(s, new)'
    BY <2>4, <2>7, <2>8, <2>9, <2>10, <2>11 DEF Placed
  <2> QED
    BY <2>3, <2>9, <2>12
<1> QED
  BY <1>1

(* A chunk that has to wait goes from the network to the end of what the    *)
(* Writable holds.                                                          *)
LEMMA PlacedHolds ==
  ASSUME NEW s, NEW cut, NEW n
  PROVE  Len(s) \in Nat /\ Cuts(cut) /\ n \in 1..Len(net) /\ InputTypes /\ Placed(s, cut) /\ writable' = Append(writable, SubSeq(net, 1, n))
           /\ net' = SubSeq(net, n + 1, Len(net)) /\ UNCHANGED buffer
         => \E new : Cuts(new) /\ Placed(s, new)' /\ new[0] = cut[0]
<1>1. ASSUME Len(s) \in Nat, Cuts(cut), n \in 1..Len(net), InputTypes, Placed(s, cut),
             writable' = Append(writable, SubSeq(net, 1, n)),
             net' = SubSeq(net, n + 1, Len(net)), UNCHANGED buffer
      PROVE  \E new : Cuts(new) /\ Placed(s, new)' /\ new[0] = cut[0]
  <2>1. writable \in Seq(Seq(Token)) /\ net \in Seq(Token) /\ Len(net) \in Nat
    BY <1>1 DEF InputTypes
  <2>2. PICK l \in Nat : l = Len(writable)
    BY <2>1
  <2>3. n \in Nat /\ n \in 0..Len(net) /\ cut[l + 1] + n \in Nat /\ l + 2 \in Nat \ {0}
        /\ cut[l + 1] \in Nat /\ Len(s) \in Nat
    BY <1>1, <2>1 DEF Cuts
  <2>4. PICK new : Cuts(new) /\ new[l + 2] = cut[l + 1] + n /\ \A k \in Nat : k # l + 2 => new[k] = cut[k]
    BY <1>1, <2>3, CutAdded
  <2>5. Piece(net, s, cut[l + 1]) /\ Len(s) = cut[l + 1] + Len(net)
    BY <1>1, <2>2 DEF Placed
  <2>6. /\ SubSeq(net, 1, n) \in Seq(Token) /\ Len(SubSeq(net, 1, n)) = n
        /\ Piece(SubSeq(net, 1, n), s, cut[l + 1])
        /\ Piece(net', s, cut[l + 1] + n) /\ Len(net') = Len(net) - n
    BY <1>1, <2>1, <2>3, <2>5, PieceCut
  <2>7. /\ Len(writable') = l + 1 /\ writable'[l + 1] = SubSeq(net, 1, n)
        /\ \A w \in 1..l : writable'[w] = writable[w]
    BY <1>1, <2>1, <2>2, <2>6, AppendProperties
  <2>8. /\ new[0] = cut[0] /\ new[1] = cut[1] /\ new[l + 1] = cut[l + 1]
        /\ new[(l + 1) + 1] = cut[l + 1] + n
        /\ \A w \in 1..l : new[w] = cut[w] /\ new[w + 1] = cut[w + 1]
    BY <2>4
  <2>9. Piece(buffer', s, new[0]) /\ new[1] = new[0] + Len(buffer')
    BY <1>1, <2>8 DEF Placed
  <2>10. ASSUME NEW w \in 1..(l + 1)
         PROVE  Piece(writable'[w], s, new[w]) /\ new[w + 1] = new[w] + Len(writable'[w])
    <3>1. CASE w = l + 1
      BY <2>6, <2>7, <2>8, <3>1
    <3>2. CASE w \in 1..l
      <4>1. Piece(writable[w], s, cut[w]) /\ cut[w + 1] = cut[w] + Len(writable[w])
        BY <1>1, <2>2, <3>2 DEF Placed
      <4> QED
        BY <2>7, <2>8, <3>2, <4>1
    <3>3. w = l + 1 \/ w \in 1..l
      OBVIOUS
    <3> QED
      BY <3>1, <3>2, <3>3
  <2>11. Piece(net', s, new[(l + 1) + 1]) /\ Len(s) = new[(l + 1) + 1] + Len(net')
    BY <2>1, <2>3, <2>5, <2>6, <2>8
  <2>12. Placed(s, new)'
    BY <2>7, <2>9, <2>10, <2>11 DEF Placed
  <2> QED
    BY <2>4, <2>8, <2>12
<1> QED
  BY <1>1

(* What has waited longest goes to the end of the buffer. *)
LEMMA PlacedDrains ==
  ASSUME NEW s, NEW cut
  PROVE  Len(s) \in Nat /\ Cuts(cut) /\ InputTypes /\ Placed(s, cut) /\ writable # <<>>
           /\ buffer' = buffer \o Head(writable) /\ writable' = Tail(writable)
           /\ UNCHANGED net
         => \E new : Cuts(new) /\ Placed(s, new)' /\ new[0] = cut[0]
<1>1. ASSUME Len(s) \in Nat, Cuts(cut), InputTypes, Placed(s, cut), writable # <<>>,
             buffer' = buffer \o Head(writable), writable' = Tail(writable), UNCHANGED net
      PROVE  \E new : Cuts(new) /\ Placed(s, new)' /\ new[0] = cut[0]
  <2>1. buffer \in Seq(Token) /\ Len(buffer) \in Nat /\ writable \in Seq(Seq(Token))
    BY <1>1 DEF InputTypes
  <2>2. /\ Len(writable) \in Nat \ {0}
        /\ Head(writable) = writable[1] /\ writable[1] \in Seq(Token)
        /\ Len(writable') = Len(writable) - 1
        /\ \A w \in 1..(Len(writable) - 1) : writable'[w] = writable[w + 1]
    BY <1>1, <2>1, HeadTailProperties, LenProperties
  <2>3. PICK l \in Nat : l = Len(writable) - 1
    BY <2>2
  <2>4. PICK new : Cuts(new) /\ new[0] = cut[0] /\ \A k \in Nat : k # 0 => new[k] = cut[k + 1]
    BY <1>1, CutDropped
  <2>5. /\ Piece(buffer, s, cut[0]) /\ cut[1] = cut[0] + Len(buffer)
        /\ \A w \in 1..(l + 1) :
             Piece(writable[w], s, cut[w]) /\ cut[w + 1] = cut[w] + Len(writable[w])
        /\ Piece(net, s, cut[(l + 1) + 1]) /\ Len(s) = cut[(l + 1) + 1] + Len(net)
    <3>1. Len(writable) = l + 1
      BY <2>2, <2>3
    <3> QED
      BY <1>1, <3>1 DEF Placed
  <2>6. Piece(writable[1], s, cut[1]) /\ cut[2] = cut[1] + Len(writable[1])
    BY <2>5
  <2>7. Len(writable[1]) \in Nat /\ cut[0] \in Nat /\ cut[1] \in Nat /\ new[1] = cut[2]
        /\ Len(s) \in Nat
    BY <1>1, <2>2, <2>4 DEF Cuts
  <2>8. Piece(buffer', s, cut[0]) /\ Len(buffer') = Len(buffer) + Len(writable[1])
    <3>1. Piece(writable[1], s, cut[0] + Len(buffer)) /\ Piece(buffer, s, cut[0])
      BY <2>5, <2>6
    <3>2. /\ Piece(buffer \o writable[1], s, cut[0])
          /\ Len(buffer \o writable[1]) = Len(buffer) + Len(writable[1])
      BY <2>1, <2>2, <2>7, <3>1, PieceJoined
    <3> QED
      BY <1>1, <2>2, <3>2
  <2>9. new[1] = new[0] + Len(buffer')
    <3>1. /\ new[0] = cut[0] /\ new[1] = cut[2] /\ cut[1] = cut[0] + Len(buffer)
          /\ cut[2] = cut[1] + Len(writable[1])
      BY <2>4, <2>5, <2>6, <2>7
    <3> QED
      BY <2>1, <2>7, <2>8, <3>1
  <2>10. ASSUME NEW w \in 1..l
         PROVE  Piece(writable'[w], s, new[w]) /\ new[w + 1] = new[w] + Len(writable'[w])
    <3>1. w + 1 \in 1..(l + 1) /\ w \in Nat \ {0} /\ w + 1 \in Nat \ {0}
      OBVIOUS
    <3>2. new[w] = cut[w + 1] /\ new[w + 1] = cut[(w + 1) + 1]
      BY <2>4, <3>1
    <3>3. writable'[w] = writable[w + 1]
      BY <2>2, <2>3
    <3> QED
      BY <2>5, <3>1, <3>2, <3>3
  <2>11. new[l + 1] = cut[(l + 1) + 1]
    BY <2>4
  <2>12. Placed(s, new)'
    BY <1>1, <2>2, <2>3, <2>4, <2>5, <2>8, <2>9, <2>10, <2>11 DEF Placed
  <2> QED
    BY <2>4, <2>12
<1> QED
  BY <1>1

--------------------------------------------------------------------------------
(* What is read. *)

(* A stream is a sequence of tokens that the assumption is about. *)
LEMMA StreamFacts ==
  ASSUME NEW s \in Streams
  PROVE  /\ s \in Seq(Token) /\ Len(s) \in Nat
         /\ \A k \in 1..Len(s) : s[k] \in Token
         /\ LinesInOrder(s) /\ Framed(s)
<1>1. s \in Seq(Token)
  BY StreamsAssumption
<1> QED
  BY <1>1, FramesAssumption

(* What was read before one position was read before every later one. *)
LEMMA ServedEarlier ==
  ASSUME NEW s, NEW c \in Nat, NEW d \in Nat, c <= d, ServedRead(s, c)
  PROVE  ServedRead(s, d)
<1>1. 1..c \subseteq 1..d
  OBVIOUS
<1> QED
  BY <1>1 DEF ServedRead, LineRead

(* A line: where it ends, and what it reads as. *)
LEMMA LineTaken ==
  ASSUME NEW s, NEW c \in Nat, Len(s) \in Nat, buffer \in Seq(Token), HasLine(buffer),
         Piece(buffer, s, c)
  PROVE  \E e \in 1..Len(buffer) :
           /\ e = LineEnd(buffer) /\ c + e <= Len(s) /\ buffer[e] = s[c + e]
           /\ AfterLine(buffer) \in Seq(Token) /\ Len(AfterLine(buffer)) = Len(buffer) - e
           /\ Piece(AfterLine(buffer), s, c + e)
           /\ \A k \in (c + 1)..(c + e - 1) : s[k].kind \notin Terminated
           /\ CurrentKind \in {s[c + e].kind, "garbage"}
           /\ (\A k \in (c + 1)..(c + e - 1) : s[k].kind # "data")
                => CurrentKind = s[c + e].kind
<1>1. /\ LineEnd(buffer) \in 1..Len(buffer)
      /\ \A k \in 1..(LineEnd(buffer) - 1) : buffer[k].kind \notin Terminated
  BY LineEndIsFirst
<1>2. PICK e \in 1..Len(buffer) : e = LineEnd(buffer)
  BY <1>1
<1>3. /\ Len(buffer) \in Nat /\ e \in Nat /\ 1 <= e /\ e <= Len(buffer)
      /\ \A k \in 1..Len(buffer) : buffer[k] \in Token
  OBVIOUS
<1>4. c + Len(buffer) <= Len(s) /\ \A k \in 1..Len(buffer) : buffer[k] = s[c + k]
  BY DEF Piece
<1>5. ASSUME NEW k \in (c + 1)..(c + e - 1)
      PROVE  /\ k - c \in 1..(e - 1) /\ k - c \in 1..Len(buffer)
             /\ s[k] = buffer[k - c] /\ s[k].kind \notin Terminated
  <2>1. k - c \in 1..(e - 1) /\ k - c \in 1..Len(buffer) /\ c + (k - c) = k
    BY <1>3
  <2>2. s[k] = buffer[k - c]
    BY <1>4, <2>1
  <2> QED
    BY <1>1, <1>2, <2>1, <2>2
<1>6. PICK l : l = LineOf(buffer)
  OBVIOUS
<1>7. Len(l) = e /\ \A k \in 1..e : l[k] = buffer[k]
  <2>1. l = SubSeq(buffer, 1, e)
    BY <1>2, <1>6 DEF LineOf
  <2> QED
    BY <1>3, <2>1, SubSeqProperties
<1>8. CurrentKind = IF \A k \in 1..(e - 1) : buffer[k].kind = "frag"
                    THEN buffer[e].kind ELSE "garbage"
  <2>1. CurrentKind = IF \A k \in 1..(Len(l) - 1) : l[k].kind = "frag"
                      THEN l[Len(l)].kind ELSE "garbage"
    BY <1>6 DEF CurrentKind, LineKind
  <2>2. \A k \in 1..(e - 1) : k \in 1..e
    BY <1>3
  <2>3. e \in 1..e
    BY <1>3
  <2> QED
    BY <1>7, <2>1, <2>2, <2>3
<1>9. buffer[e] = s[c + e]
  BY <1>4
<1>10. ASSUME \A k \in (c + 1)..(c + e - 1) : s[k].kind # "data"
       PROVE  CurrentKind = s[c + e].kind
  <2>1. ASSUME NEW k \in 1..(e - 1) PROVE buffer[k].kind = "frag"
    <3>1. c + k \in (c + 1)..(c + e - 1) /\ k \in 1..Len(buffer)
      BY <1>3
    <3>2. s[c + k] = buffer[k]
      BY <1>4, <3>1
    <3>3. buffer[k].kind # "data" /\ buffer[k].kind \notin Terminated /\ buffer[k].kind \in Kinds
      <4>1. buffer[k] \in Token
        BY <1>3, <3>1
      <4> QED
        BY <1>5, <1>10, <3>1, <3>2, <4>1 DEF Token
    <3> QED
      BY <3>3 DEF Kinds
  <2> QED
    BY <1>8, <1>9, <2>1
<1>11. /\ AfterLine(buffer) \in Seq(Token) /\ Len(AfterLine(buffer)) = Len(buffer) - e
       /\ Piece(AfterLine(buffer), s, c + e)
  <2>1. AfterLine(buffer) = SubSeq(buffer, e + 1, Len(buffer))
    BY <1>2 DEF AfterLine
  <2>2. e \in 0..Len(buffer)
    BY <1>3
  <2> QED
    BY <2>1, <2>2, PieceCut
<1>12. c + e <= Len(s)
  BY <1>3, <1>4
<1> QED
  BY <1>2, <1>5, <1>8, <1>9, <1>10, <1>11, <1>12

(* A body: it takes what follows, and no more than it lacks. *)
LEMMA FillReads ==
  ASSUME NEW s, NEW j \in Nat, NEW b \in Seq(Token), Len(s) \in Nat,
         NEW old \in [size : Nat, data : Seq(Token)], Len(old.data) <= old.size,
         Piece(old.data, s, j), Piece(b, s, j + Len(old.data)), Fill(old, b)
  PROVE  \E n \in 0..Len(b) :
           /\ Piece(buffer', s, (j + Len(old.data)) + n) /\ Len(buffer') = Len(b) - n
           /\ body'.size = old.size /\ Piece(body'.data, s, j)
           /\ Len(body'.data) = Len(old.data) + n
           /\ state' \in {"FINISHED", "BODY"}
           /\ state' = "FINISHED" <=> Len(body'.data) = body'.size
<1> DEFINE needed == old.size - Len(old.data)
           n == IF Len(b) < needed THEN Len(b) ELSE needed
           part == SubSeq(b, 1, n)
<1>1. /\ old.size \in Nat /\ old.data \in Seq(Token) /\ Len(b) \in Nat
      /\ Len(old.data) \in Nat
  OBVIOUS
<1>2. n \in 0..Len(b)
  BY <1>1
<1>3. /\ body' = [old EXCEPT !.data = @ \o part]
      /\ buffer' = SubSeq(b, n + 1, Len(b))
      /\ state' = IF Len(body'.data) = body'.size THEN "FINISHED" ELSE "BODY"
  BY DEF Fill
<1> HIDE DEF n
<1>4. j + Len(old.data) \in Nat
  BY <1>1
<1>5. /\ part \in Seq(Token) /\ Len(part) = n /\ Piece(part, s, j + Len(old.data))
      /\ Piece(buffer', s, (j + Len(old.data)) + n) /\ Len(buffer') = Len(b) - n
  <2>1. /\ part \in Seq(Token) /\ Len(part) = n /\ Piece(part, s, j + Len(old.data))
        /\ Piece(SubSeq(b, n + 1, Len(b)), s, (j + Len(old.data)) + n)
        /\ Len(SubSeq(b, n + 1, Len(b))) = Len(b) - n
    BY <1>2, <1>4, PieceCut
  <2>2. buffer' = SubSeq(b, n + 1, Len(b))
    BY <1>3
  <2> HIDE DEF part
  <2> QED
    BY <2>1, <2>2, Zenon
<1> HIDE DEF part
<1>6. /\ Piece(old.data \o part, s, j)
      /\ Len(old.data \o part) = Len(old.data) + Len(part)
  <2>1. part \in Seq(Token) /\ Piece(part, s, j + Len(old.data))
    BY <1>5
  <2> QED
    BY <1>1, <2>1, PieceJoined
<1>7. body'.size = old.size /\ body'.data = old.data \o part
  BY <1>3
<1> QED
  BY <1>2, <1>3, <1>5, <1>6, <1>7

(* What loadBufferBody is asked for is a declared length. *)
LEMMA LengthDeclared ==
  ASSUME NEW s, NEW i, NEW j, HeadRead(s, i, j), DeclaredLength > 0, i \in Nat
  PROVE  Declared(s, i, j, DeclaredLength)
<1>1. \E h \in 1..Len(headers) : headers[h].kind = "length"
  BY DEF DeclaredLength
<1>2. PICK h \in 1..Len(headers) : headers[h].kind = "length" /\ headers[h].n = DeclaredLength
  BY <1>1 DEF DeclaredLength
<1>3. PICK k \in (i + 1)..j : headers[h] = s[k]
  BY DEF HeadRead
<1>4. k \in i..j
  OBVIOUS
<1> QED
  BY <1>2, <1>3, <1>4 DEF Declared

--------------------------------------------------------------------------------
(* The steps of the parser: what they take from the buffer, and what is     *)
(* known of the request afterwards.                                         *)
ReadVars == <<state, line, headers, body, dispatched, served>>

(* Where a line ends is in the buffer and in the stream. *)
LEMMA Bounds ==
  ASSUME NEW c \in Nat, NEW e \in Nat, NEW l \in Nat, NEW m \in Nat, 1 <= e, e <= l, c + e <= m
  PROVE  e \in 0..l /\ c + e \in 1..m /\ c + e \in Nat
OBVIOUS

(* No dispatch, nothing new served. *)
LEMMA ServedSame ==
  ASSUME NEW s, NEW c, UNCHANGED <<dispatched, served>>
  PROVE  ServedRead(s, c)' <=> ServedRead(s, c)
BY DEF ServedRead

(* ReadInv is about the variables of the parser only. *)
LEMMA ReadKept ==
  ASSUME NEW s, NEW c, ReadInv(s, c), UNCHANGED ReadVars
  PROVE  ReadInv(s, c)'
<1>1. UNCHANGED <<state, line, headers, body>> /\ UNCHANGED <<dispatched, served>>
  BY DEF ReadVars
<1>2. ServedRead(s, c)' <=> ServedRead(s, c)
  BY <1>1, ServedSame
<1>3. InHead(s, c)' <=> InHead(s, c)
  BY <1>1 DEF InHead, HeadRead, ServedRead
<1>4. InBody(s, c)' <=> InBody(s, c)
  BY <1>1 DEF InBody, HeadRead
<1> QED
  BY <1>1, <1>2, <1>3, <1>4 DEF ReadInv

(* A request line is a piece of the buffer, and the head begins there. *)
LEMMA LineParsed ==
  ASSUME NEW s, NEW c \in Nat, Len(s) \in Nat, buffer \in Seq(Token), Piece(buffer, s, c),
         ReadInv(s, c), ParseRequestLine, UNCHANGED <<dispatched, served>>
  PROVE  \E n \in 0..Len(buffer) : Takes(s, c, n) /\ ReadInv(s, c + n)'
<1>1. /\ HasLine(buffer) /\ Fault(CurrentKind) = "none"
      /\ state = "REQUEST" /\ state' = "HEADERS" /\ buffer' = AfterLine(buffer)
      /\ line' = buffer[LineEnd(buffer)].req /\ headers' = headers /\ body' = body
  BY DEF ParseRequestLine
<1>2. PICK e \in 1..Len(buffer) :
        /\ e = LineEnd(buffer) /\ c + e <= Len(s) /\ buffer[e] = s[c + e]
        /\ Len(AfterLine(buffer)) = Len(buffer) - e /\ Piece(AfterLine(buffer), s, c + e)
        /\ CurrentKind \in {s[c + e].kind, "garbage"}
  BY <1>1, LineTaken
<1>3. CurrentKind = "line"
  BY <1>1 DEF Fault
<1>4. e \in Nat /\ 1 <= e /\ Len(buffer) \in Nat /\ e <= Len(buffer)
  OBVIOUS
<1>5. /\ s[c + e].kind = "line" /\ line' = s[c + e].req /\ Takes(s, c, e)
  BY <1>1, <1>2, <1>3 DEF Takes
<1>6. headers = <<>> /\ body = NoBody /\ ServedRead(s, c)
  BY <1>1 DEF ReadInv
<1>7. PICK i \in Nat : i = c + e /\ i \in 1..i /\ c <= i - 1 /\ i - 1 \in Nat
  BY <1>4
<1>8. ServedRead(s, i)' /\ ServedRead(s, i - 1)'
  <2>1. ServedRead(s, i) /\ ServedRead(s, i - 1)
    BY <1>4, <1>6, <1>7, ServedEarlier
  <2> QED
    BY <2>1, ServedSame
<1>9. HeadRead(s, i, i)'
  BY <1>1, <1>5, <1>6, <1>7 DEF HeadRead
<1>10. InHead(s, i)'
  BY <1>7, <1>8, <1>9 DEF InHead
<1>11. ReadInv(s, i)'
  BY <1>1, <1>6, <1>8, <1>10 DEF ReadInv
<1> QED
  BY <1>4, <1>5, <1>7, <1>11

(* A line of the head that is not its end. *)
LEMMA HeadGoesOn ==
  ASSUME NEW s, NEW c \in Nat, NEW e \in Nat, 1 <= e, InHead(s, c),
         \A k \in (c + 1)..(c + e) : s[k].kind # "blank",
         headers' = headers \/ headers' = Append(headers, s[c + e]),
         headers \in Seq(Token), s[c + e] \in Token,
         UNCHANGED <<line, dispatched, served>>
  PROVE  InHead(s, c + e)'
<1>1. PICK i \in 1..c :
        /\ HeadRead(s, i, c)
        /\ \A k \in (i + 1)..c : s[k].kind # "blank"
        /\ ServedRead(s, i - 1)
  BY DEF InHead
<1>2. i \in Nat /\ i \in 1..(c + e) /\ i <= c
  OBVIOUS
<1>3. \A k \in (i + 1)..(c + e) : s[k].kind # "blank"
  <2>1. \A k \in (i + 1)..(c + e) : k \in (i + 1)..c \/ k \in (c + 1)..(c + e)
    BY <1>2
  <2> QED
    BY <1>1, <2>1
<1>4. ServedRead(s, i - 1)'
  BY <1>1, ServedSame
<1>5. \A h \in 1..Len(headers') : \E k \in (i + 1)..(c + e) : headers'[h] = s[k]
  <2>1. \A h \in 1..Len(headers) : \E k \in (i + 1)..(c + e) : headers[h] = s[k]
    <3>1. (i + 1)..c \subseteq (i + 1)..(c + e)
      BY <1>2
    <3> QED
      BY <1>1, <3>1 DEF HeadRead
  <2>2. CASE headers' = headers
    BY <2>1, <2>2
  <2>3. CASE headers' = Append(headers, s[c + e])
    <3>1. /\ Len(headers') = Len(headers) + 1 /\ headers'[Len(headers) + 1] = s[c + e]
          /\ \A h \in 1..Len(headers) : headers'[h] = headers[h]
      BY <2>3, AppendProperties
    <3>2. \A h \in 1..(Len(headers) + 1) : h \in 1..Len(headers) \/ h = Len(headers) + 1
      BY LenProperties
    <3>3. c + e \in (i + 1)..(c + e)
      BY <1>2
    <3> QED
      BY <2>1, <3>1, <3>2, <3>3
  <2> QED
    BY <2>2, <2>3
<1>6. HeadRead(s, i, c + e)'
  BY <1>1, <1>5 DEF HeadRead
<1> QED
  BY <1>2, <1>3, <1>4, <1>6 DEF InHead

(* A header is a piece of the buffer, and of the head. *)
LEMMA HeaderParsed ==
  ASSUME NEW s, NEW c \in Nat, Len(s) \in Nat, \A k \in 1..Len(s) : s[k] \in Token,
         buffer \in Seq(Token), headers \in Seq(Token), Piece(buffer, s, c),
         ReadInv(s, c), ParseHeader, UNCHANGED <<dispatched, served>>
  PROVE  \E n \in 0..Len(buffer) : Takes(s, c, n) /\ ReadInv(s, c + n)'
<1>1. /\ HasLine(buffer) /\ CurrentKind \in {"header", "length"}
      /\ state = "HEADERS" /\ state' = "HEADERS" /\ buffer' = AfterLine(buffer)
      /\ headers' = Append(headers, buffer[LineEnd(buffer)])
      /\ line' = line /\ body' = body
  BY DEF ParseHeader
<1>2. PICK e \in 1..Len(buffer) :
        /\ e = LineEnd(buffer) /\ c + e <= Len(s) /\ buffer[e] = s[c + e]
        /\ Len(AfterLine(buffer)) = Len(buffer) - e /\ Piece(AfterLine(buffer), s, c + e)
        /\ \A k \in (c + 1)..(c + e - 1) : s[k].kind \notin Terminated
        /\ CurrentKind \in {s[c + e].kind, "garbage"}
  BY <1>1, LineTaken
<1>3. e \in Nat /\ 1 <= e /\ e \in 0..Len(buffer) /\ c + e \in 1..Len(s) /\ c + e \in Nat
  <2>1. e \in Nat /\ 1 <= e /\ Len(buffer) \in Nat /\ e <= Len(buffer)
    OBVIOUS
  <2>2. c + e <= Len(s)
    BY <1>2
  <2> QED
    BY <2>1, <2>2, Bounds
<1>4. s[c + e].kind # "blank"
  BY <1>1, <1>2
<1>5. \A k \in (c + 1)..(c + e) : s[k].kind # "blank"
  <2>1. \A k \in (c + 1)..(c + e) : k \in (c + 1)..(c + e - 1) \/ k = c + e
    BY <1>3
  <2> QED
    BY <1>2, <1>4, <2>1 DEF Terminated
<1>6. body = NoBody /\ InHead(s, c) /\ ServedRead(s, c)
  BY <1>1 DEF ReadInv
<1>7. InHead(s, c + e)'
  <2>1. s[c + e] \in Token /\ headers' = Append(headers, s[c + e])
    BY <1>1, <1>2, <1>3
  <2> QED
    BY <1>1, <1>3, <1>5, <1>6, <2>1, HeadGoesOn
<1>8. ServedRead(s, c + e)'
  <2>1. ServedRead(s, c + e)
    BY <1>3, <1>6, ServedEarlier
  <2> QED
    BY <2>1, ServedSame
<1>9. ReadInv(s, c + e)'
  BY <1>1, <1>6, <1>7, <1>8 DEF ReadInv
<1> QED
  BY <1>1, <1>2, <1>3, <1>9 DEF Takes

(* A line that is rejected inside a head is not its end: the line is read   *)
(* as what it is, since no data is among what came before.                  *)
LEMMA LineRejected ==
  ASSUME NEW s, NEW c \in Nat, Len(s) \in Nat, \A k \in 1..Len(s) : s[k] \in Token,
         Framed(s), buffer \in Seq(Token), headers \in Seq(Token), Piece(buffer, s, c),
         ReadInv(s, c), NEW error, RejectLine(error), UNCHANGED <<dispatched, served>>
  PROVE  \E n \in 0..Len(buffer) : Takes(s, c, n) /\ ReadInv(s, c + n)'
<1>1. /\ HasLine(buffer) /\ Fault(CurrentKind) # "none" /\ state \in {"REQUEST", "HEADERS"}
      /\ buffer' = AfterLine(buffer) /\ UNCHANGED <<state, line, headers, body>>
  BY DEF RejectLine
<1>2. PICK e \in 1..Len(buffer) :
        /\ e = LineEnd(buffer) /\ c + e <= Len(s) /\ buffer[e] = s[c + e]
        /\ Len(AfterLine(buffer)) = Len(buffer) - e /\ Piece(AfterLine(buffer), s, c + e)
        /\ \A k \in (c + 1)..(c + e - 1) : s[k].kind \notin Terminated
        /\ (\A k \in (c + 1)..(c + e - 1) : s[k].kind # "data")
             => CurrentKind = s[c + e].kind
  BY <1>1, LineTaken
<1>3. e \in Nat /\ 1 <= e /\ e \in 0..Len(buffer) /\ c + e \in 1..Len(s) /\ c + e \in Nat
  <2>1. e \in Nat /\ 1 <= e /\ Len(buffer) \in Nat /\ e <= Len(buffer)
    OBVIOUS
  <2>2. c + e <= Len(s)
    BY <1>2
  <2> QED
    BY <2>1, <2>2, Bounds
<1>4. body = NoBody /\ ServedRead(s, c)
  BY <1>1 DEF ReadInv
<1>5. ServedRead(s, c + e)'
  <2>1. ServedRead(s, c + e)
    BY <1>3, <1>4, ServedEarlier
  <2> QED
    BY <2>1, ServedSame
<1>6. ASSUME state = "HEADERS" PROVE InHead(s, c + e)'
  <2>1. InHead(s, c)
    BY <1>6 DEF ReadInv
  <2>2. PICK i \in 1..c :
          /\ HeadRead(s, i, c)
          /\ \A k \in (i + 1)..c : s[k].kind # "blank"
    BY <2>1 DEF InHead
  <2>3. s[c + e].kind # "blank"
    <3> SUFFICES ASSUME s[c + e].kind = "blank" PROVE FALSE
      OBVIOUS
    <3>1. i \in 1..Len(s) /\ i < c + e
      BY <1>3
    <3>2. \A k \in (i + 1)..(c + e - 1) : s[k].kind # "blank"
      <4>1. \A k \in (i + 1)..(c + e - 1) : k \in (i + 1)..c \/ k \in (c + 1)..(c + e - 1)
        BY <1>3
      <4> QED
        BY <1>2, <2>2, <4>1 DEF Terminated
    <3>3. IsHead(s, i, c + e)
      BY <2>2, <3>1, <3>2 DEF IsHead, HeadRead
    <3>4. \A k \in i..(c + e) : s[k].kind # "data"
      BY <1>3, <3>1, <3>3 DEF Framed
    <3>5. \A k \in (c + 1)..(c + e - 1) : k \in i..(c + e)
      BY <1>3
    <3>6. CurrentKind = "blank"
      BY <1>2, <3>4, <3>5
    <3> QED
      BY <1>1, <1>6, <3>6 DEF Fault
  <2>4. \A k \in (c + 1)..(c + e) : s[k].kind # "blank"
    <3>1. \A k \in (c + 1)..(c + e) : k \in (c + 1)..(c + e - 1) \/ k = c + e
      BY <1>3
    <3> QED
      BY <1>2, <2>3, <3>1 DEF Terminated
  <2> QED
    BY <1>1, <1>3, <2>1, <2>4, HeadGoesOn
<1>7. ReadInv(s, c + e)'
  <2>1. state' \notin {"BODY", "FINISHED"} /\ state' = state
    BY <1>1
  <2>2. state = "REQUEST" => headers' = <<>>
    BY <1>1 DEF ReadInv
  <2>3. body' = NoBody
    BY <1>1, <1>4
  <2> QED
    BY <1>5, <1>6, <2>1, <2>2, <2>3 DEF ReadInv
<1> QED
  BY <1>1, <1>2, <1>3, <1>7 DEF Takes

--------------------------------------------------------------------------------
(* The end of a head, and the dispatch. *)

(* The empty line ends the head that was being read. *)
LEMMA HeadEnds ==
  ASSUME NEW s, NEW c \in Nat, Len(s) \in Nat, buffer \in Seq(Token), Piece(buffer, s, c),
         ReadInv(s, c), EndOfHeaders
  PROVE  \E e \in 1..Len(buffer), i \in 1..c :
           /\ c + e <= Len(s)
           /\ AfterLine(buffer) \in Seq(Token) /\ Len(AfterLine(buffer)) = Len(buffer) - e
           /\ Piece(AfterLine(buffer), s, c + e)
           /\ HeadRead(s, i, c + e) /\ IsHead(s, i, c + e) /\ ServedRead(s, i - 1)
<1>1. HasLine(buffer) /\ CurrentKind = "blank" /\ state = "HEADERS"
  BY DEF EndOfHeaders
<1>2. PICK e \in 1..Len(buffer) :
        /\ c + e <= Len(s)
        /\ AfterLine(buffer) \in Seq(Token) /\ Len(AfterLine(buffer)) = Len(buffer) - e
        /\ Piece(AfterLine(buffer), s, c + e)
        /\ \A k \in (c + 1)..(c + e - 1) : s[k].kind \notin Terminated
        /\ CurrentKind \in {s[c + e].kind, "garbage"}
  BY <1>1, LineTaken
<1>3. InHead(s, c)
  BY <1>1 DEF ReadInv
<1>4. PICK i \in 1..c :
        /\ HeadRead(s, i, c)
        /\ \A k \in (i + 1)..c : s[k].kind # "blank"
        /\ ServedRead(s, i - 1)
  BY <1>3 DEF InHead
<1>5. e \in Nat /\ 1 <= e /\ i \in Nat /\ i <= c
  OBVIOUS
<1>6. s[c + e].kind = "blank"
  BY <1>1, <1>2
<1>7. \A k \in (i + 1)..(c + e - 1) : s[k].kind # "blank"
  <2>1. \A k \in (i + 1)..(c + e - 1) : k \in (i + 1)..c \/ k \in (c + 1)..(c + e - 1)
    BY <1>5
  <2> QED
    BY <1>2, <1>4, <2>1 DEF Terminated
<1>8. IsHead(s, i, c + e)
  <2>1. s[i].kind = "line" /\ i < c + e
    BY <1>4, <1>5 DEF HeadRead
  <2> QED
    BY <1>6, <1>7, <2>1 DEF IsHead
<1>9. HeadRead(s, i, c + e)
  <2>1. (i + 1)..c \subseteq (i + 1)..(c + e)
    BY <1>5
  <2> QED
    BY <1>4, <2>1 DEF HeadRead
<1> QED
  BY <1>2, <1>4, <1>8, <1>9

(* The request that is dispatched has the line that was read last, which    *)
(* comes after those of the requests before it.                             *)
LEMMA StartServes ==
  ASSUME NEW s, NEW i \in Nat, NEW d \in Nat, 1 <= i, i <= d, d <= Len(s), Len(s) \in Nat,
         LinesInOrder(s), s[i].kind = "line", s[i].req = line, ServedRead(s, i - 1),
         dispatched \in Nat, served \in [Tasks -> Nat], dispatched + 1 \in Tasks,
         dispatched' = dispatched + 1, served' = [served EXCEPT ![dispatched + 1] = line],
         DispatchInOrder, 1..dispatched \subseteq Tasks
  PROVE  ServedRead(s, d)' /\ DispatchInOrder'
<1> DEFINE n == dispatched + 1
<1>1. served'[n] = line /\ \A t \in 1..dispatched : served'[t] = served[t]
  <2>1. n \notin 1..dispatched
    OBVIOUS
  <2> QED
    BY <2>1
<1>2. \A t \in 1..n : t \in 1..dispatched \/ t = n
  OBVIOUS
<1>3. ASSUME NEW t \in 1..dispatched
      PROVE  LineRead(s, served[t], d) /\ served[t] < line
  <2>1. PICK k \in 1..(i - 1) : s[k].kind = "line" /\ s[k].req = served[t]
    BY DEF ServedRead, LineRead
  <2>2. k \in 1..d /\ k \in 1..Len(s) /\ i \in 1..Len(s) /\ k < i
    OBVIOUS
  <2>3. LineRead(s, served[t], d)
    BY <2>1, <2>2 DEF LineRead
  <2>4. s[k].req < s[i].req
    BY <2>1, <2>2 DEF LinesInOrder
  <2> QED
    BY <2>1, <2>3, <2>4
<1>4. LineRead(s, line, d)
  <2>1. i \in 1..d
    OBVIOUS
  <2> QED
    BY <2>1 DEF LineRead
<1>5. \A t \in 1..n : LineRead(s, served'[t], d)
  BY <1>1, <1>2, <1>3, <1>4
<1>6. \A t, u \in 1..n : t < u => served'[t] < served'[u]
  <2> SUFFICES ASSUME NEW t \in 1..n, NEW u \in 1..n, t < u
               PROVE  served'[t] < served'[u]
    OBVIOUS
  <2>1. t \in 1..dispatched
    OBVIOUS
  <2>2. CASE u = n
    BY <1>1, <1>3, <2>1, <2>2
  <2>3. CASE u \in 1..dispatched
    BY <1>1, <2>1, <2>3 DEF DispatchInOrder
  <2> QED
    BY <1>2, <2>2, <2>3
<1>7. n = dispatched'
  OBVIOUS
<1> QED
  BY <1>5, <1>6, <1>7 DEF ServedRead, DispatchInOrder

(* No body was asked for yet. *)
LEMMA HeadOnly ==
  ASSUME NEW s, NEW i \in Nat, NEW j \in Nat, 1 <= i, i <= j, j <= Len(s), Len(s) \in Nat,
         HeadRead(s, i, j), IsHead(s, i, j), body = NoBody,
         UNCHANGED <<line, headers, body>>
  PROVE  InBody(s, j)'
<1>1. HeadRead(s, i, j)'
  BY DEF HeadRead
<1>2. Piece(body'.data, s, j) /\ j = j + Len(body'.data) /\ body' = NoBody
  BY DEF NoBody, Piece
<1>3. i \in 1..j /\ j \in 1..j
  OBVIOUS
<1> QED
  BY <1>1, <1>2, <1>3 DEF InBody

(* What a body has so far is what follows the head, up to c. *)
Follows(old, s, j, c) ==
  /\ old \in [size : Nat, data : Seq(Token)] /\ Len(old.data) <= old.size
  /\ Piece(old.data, s, j) /\ c = j + Len(old.data)

(* The body that is loaded is the one that follows the head. *)
LEMMA BodyFilled ==
  ASSUME NEW s, NEW i \in Nat, NEW j \in Nat, NEW c \in Nat, 1 <= i, i <= j, Len(s) \in Nat,
         HeadRead(s, i, j), IsHead(s, i, j), UNCHANGED <<line, headers>>,
         NEW b \in Seq(Token), NEW old, Follows(old, s, j, c), Piece(b, s, c),
         Declared(s, i, j, old.size), Fill(old, b)
  PROVE  \E n \in 0..Len(b) :
           /\ Piece(buffer', s, c + n) /\ Len(buffer') = Len(b) - n
           /\ InBody(s, c + n)' /\ body'.size = old.size
           /\ state' \in {"FINISHED", "BODY"}
           /\ state' = "FINISHED" => Len(body'.data) = body'.size
<1>0. /\ old \in [size : Nat, data : Seq(Token)] /\ Len(old.data) <= old.size
      /\ Piece(old.data, s, j) /\ c = j + Len(old.data) /\ Piece(b, s, j + Len(old.data))
  BY DEF Follows
<1>1. PICK n \in 0..Len(b) :
        /\ Piece(buffer', s, (j + Len(old.data)) + n) /\ Len(buffer') = Len(b) - n
        /\ body'.size = old.size /\ Piece(body'.data, s, j)
        /\ Len(body'.data) = Len(old.data) + n
        /\ state' \in {"FINISHED", "BODY"}
        /\ state' = "FINISHED" <=> Len(body'.data) = body'.size
  BY <1>0, FillReads
<1>2. HeadRead(s, i, j)'
  BY DEF HeadRead
<1>3. n \in Nat /\ Len(old.data) \in Nat
  BY <1>0
<1>4. PICK d \in Nat : d = c + n
  BY <1>3
<1>5. i \in 1..d /\ j \in 1..d /\ d = j + Len(body'.data)
  BY <1>0, <1>1, <1>3, <1>4
<1>6. Declared(s, i, j, body'.size)
  BY <1>1
<1>7. InBody(s, d)'
  BY <1>1, <1>2, <1>5, <1>6 DEF InBody
<1>8. Piece(buffer', s, d)
  BY <1>0, <1>1, <1>4
<1> QED
  BY <1>1, <1>4, <1>7, <1>8

(* A step of the parser that reads nothing takes nothing. *)
LEMMA TakesNone ==
  ASSUME NEW s, NEW c \in Nat, Len(buffer) \in Nat, Piece(buffer, s, c), ReadInv(s, c),
         UNCHANGED ReadVars, buffer' = buffer
  PROVE  \E n \in 0..Len(buffer) : Takes(s, c, n) /\ ReadInv(s, c + n)'
<1>1. ReadInv(s, c)'
  BY ReadKept
<1>2. c + 0 = c /\ Len(buffer) - 0 = Len(buffer) /\ 0 \in 0..Len(buffer)
  OBVIOUS
<1>3. Takes(s, c, 0)
  BY <1>2 DEF Takes
<1>4. ReadInv(s, c + 0)'
  BY <1>1, <1>2
<1> QED
  BY <1>2, <1>3, <1>4

(* A body takes from the buffer what it lacks, or all there is. *)
LEMMA BodyRead ==
  ASSUME NEW s, NEW c \in Nat, Len(s) \in Nat, RequestTypeOK, Piece(buffer, s, c),
         ReadInv(s, c), UpdateBody, UNCHANGED <<dispatched, served>>
  PROVE  \E n \in 0..Len(buffer) : Takes(s, c, n) /\ ReadInv(s, c + n)'
<1>1. /\ state = "BODY" /\ Fill(body, buffer) /\ UNCHANGED <<line, headers>>
      /\ buffer \in Seq(Token) /\ body \in [size : Nat, data : Seq(Token)]
      /\ Len(body.data) <= body.size
  BY DEF UpdateBody, RequestTypeOK
<1>2. InBody(s, c) /\ body.size > 0 /\ ServedRead(s, c)
  BY <1>1 DEF ReadInv
<1>3. PICK i, j \in 1..c :
        /\ HeadRead(s, i, j) /\ IsHead(s, i, j)
        /\ Piece(body.data, s, j) /\ c = j + Len(body.data)
        /\ body = NoBody \/ Declared(s, i, j, body.size)
  BY <1>2 DEF InBody
<1>4. i \in Nat /\ j \in Nat /\ 1 <= i /\ i <= j
  BY <1>3 DEF IsHead
<1>5. Declared(s, i, j, body.size)
  BY <1>2, <1>3 DEF NoBody
<1>6. PICK old : old = body
  OBVIOUS
<1>7. Follows(old, s, j, c) /\ buffer \in Seq(Token)
  BY <1>1, <1>3, <1>6 DEF Follows
<1>8. Fill(old, buffer) /\ Declared(s, i, j, old.size)
  BY <1>1, <1>5, <1>6
<1>9. HeadRead(s, i, j) /\ IsHead(s, i, j) /\ UNCHANGED <<line, headers>>
  BY <1>1, <1>3
<1>10. PICK n \in 0..Len(buffer) :
         /\ Piece(buffer', s, c + n) /\ Len(buffer') = Len(buffer) - n
         /\ InBody(s, c + n)' /\ body'.size = old.size
         /\ state' \in {"FINISHED", "BODY"}
         /\ state' = "FINISHED" => Len(body'.data) = body'.size
  BY <1>4, <1>7, <1>8, <1>9, BodyFilled
<1>11. n \in Nat /\ c + n \in Nat /\ c <= c + n
  OBVIOUS
<1>12. ServedRead(s, c + n)'
  <2>1. ServedRead(s, c + n)
    BY <1>2, <1>11, ServedEarlier
  <2> QED
    BY <2>1, ServedSame
<1>13. ReadInv(s, c + n)'
  BY <1>2, <1>6, <1>10, <1>12 DEF ReadInv
<1> QED
  BY <1>10, <1>13 DEF Takes

(* The body reader after an asynchronous callback. *)
LEMMA BodyAsked ==
  ASSUME NEW s, NEW c \in Nat, Len(s) \in Nat, RequestTypeOK, Piece(buffer, s, c),
         ReadInv(s, c), state = "FINISHED", DeclaredLength > 0,
         LoadBufferBody(DeclaredLength), UNCHANGED <<dispatched, served>>
  PROVE  \E n \in 0..Len(buffer) : Takes(s, c, n) /\ ReadInv(s, c + n)'
<1>1. /\ body = NoBody /\ Fill(NewBody(DeclaredLength), buffer) /\ UNCHANGED <<line, headers>>
      /\ buffer \in Seq(Token) /\ DeclaredLength \in Nat
  BY DeclaredLengthType DEF LoadBufferBody, RequestTypeOK
<1>2. InBody(s, c) /\ ServedRead(s, c)
  BY DEF ReadInv
<1>3. PICK i, j \in 1..c :
        /\ HeadRead(s, i, j) /\ IsHead(s, i, j)
        /\ Piece(body.data, s, j) /\ c = j + Len(body.data)
  BY <1>2 DEF InBody
<1>4. i \in Nat /\ j \in Nat /\ 1 <= i /\ i <= j
  BY <1>3 DEF IsHead
<1>5. Declared(s, i, j, DeclaredLength)
  BY <1>3, <1>4, LengthDeclared
<1>6. PICK old : old = NewBody(DeclaredLength)
  OBVIOUS
<1>7. /\ old \in [size : Nat, data : Seq(Token)] /\ Len(old.data) <= old.size
      /\ old.size = DeclaredLength /\ old.data = <<>>
  BY <1>1, <1>6, NewBodyType DEF NewBody
<1>8. Follows(old, s, j, c)
  BY <1>1, <1>3, <1>7 DEF NoBody, Follows
<1>9. Fill(old, buffer) /\ Declared(s, i, j, old.size)
  BY <1>1, <1>5, <1>6, <1>7
<1>10. PICK n \in 0..Len(buffer) :
         /\ Piece(buffer', s, c + n) /\ Len(buffer') = Len(buffer) - n
         /\ InBody(s, c + n)' /\ body'.size = old.size
         /\ state' \in {"FINISHED", "BODY"}
         /\ state' = "FINISHED" => Len(body'.data) = body'.size
  <2>1. /\ buffer \in Seq(Token) /\ UNCHANGED <<line, headers>>
        /\ HeadRead(s, i, j) /\ IsHead(s, i, j)
    BY <1>1, <1>3
  <2> QED
    BY <1>4, <1>8, <1>9, <2>1, BodyFilled
<1>11. n \in Nat /\ c + n \in Nat /\ c <= c + n
  OBVIOUS
<1>12. ServedRead(s, c + n)'
  <2>1. ServedRead(s, c + n)
    BY <1>2, <1>11, ServedEarlier
  <2> QED
    BY <2>1, ServedSame
<1>13. ReadInv(s, c + n)'
  BY <1>7, <1>10, <1>12 DEF ReadInv
<1> QED
  BY <1>10, <1>13 DEF Takes

--------------------------------------------------------------------------------
(* The steps of the parser, together. *)
LEMMA Dispatched ==
  ASSUME NEW s \in Streams, NEW i \in Nat, NEW d \in Nat, 1 <= i, i <= d, d <= Len(s),
         IInv, HeadRead(s, i, d), ServedRead(s, i - 1), DispatchInOrder, NEW where, Start(where)
  PROVE  ServedRead(s, d)' /\ DispatchInOrder'
<1>1. Len(s) \in Nat /\ LinesInOrder(s)
  BY StreamFacts
<1>2. s[i].kind = "line" /\ s[i].req = line
  BY DEF HeadRead
<1>3. dispatched \in 0..MaxRequests /\ served \in [Tasks -> Nat]
  BY DEF IInv, TypeOK
<1>4. /\ dispatched < MaxRequests /\ dispatched' = dispatched + 1
      /\ served' = [served EXCEPT ![dispatched + 1] = line]
  BY DEF Start
<1>5. dispatched \in Nat /\ dispatched + 1 \in Tasks /\ 1..dispatched \subseteq Tasks
  BY <1>3, <1>4, MaxRequestsAssumption DEF Tasks
<1> QED
  BY <1>1, <1>2, <1>3, <1>4, <1>5, StartServes

(* A dispatch takes the empty line, and its request is later than those     *)
(* before (request.ts:291-304).                                             *)
LEMMA HeadDispatched ==
  ASSUME NEW s \in Streams, NEW c \in Nat, IInv, Piece(buffer, s, c), ReadInv(s, c),
         DispatchInOrder, Dispatch
  PROVE  (\E n \in 0..Len(buffer) : Takes(s, c, n) /\ ReadInv(s, c + n)') /\ DispatchInOrder'
<1>1. /\ EndOfHeaders /\ state' = "FINISHED" /\ state = "HEADERS" /\ buffer' = AfterLine(buffer)
      /\ UNCHANGED <<line, headers, body>> /\ \E where \in {"handler", "chain"} : Start(where)
  BY DEF Dispatch, EndHeaders, EndOfHeaders
<1>2. Len(s) \in Nat /\ buffer \in Seq(Token)
  BY StreamFacts DEF IInv, TypeOK, RequestTypeOK
<1>3. PICK e \in 1..Len(buffer), i \in 1..c :
        /\ c + e <= Len(s) /\ Len(AfterLine(buffer)) = Len(buffer) - e
        /\ Piece(AfterLine(buffer), s, c + e)
        /\ HeadRead(s, i, c + e) /\ IsHead(s, i, c + e) /\ ServedRead(s, i - 1)
  BY <1>1, <1>2, HeadEnds
<1>4. PICK j \in Nat : j = c + e /\ i <= j /\ 1 <= i /\ i \in Nat /\ e \in 0..Len(buffer)
  OBVIOUS
<1>5. body = NoBody
  BY <1>1 DEF ReadInv
<1>6. /\ j <= Len(s) /\ HeadRead(s, i, j) /\ IsHead(s, i, j) /\ ServedRead(s, i - 1)
      /\ Piece(buffer', s, j) /\ Len(buffer') = Len(buffer) - e
  BY <1>1, <1>3, <1>4
<1>7. InBody(s, j)'
  BY <1>1, <1>2, <1>4, <1>5, <1>6, HeadOnly
<1>8. ServedRead(s, j)' /\ DispatchInOrder'
  BY <1>1, <1>4, <1>6, Dispatched
<1>9. Len(body'.data) = body'.size
  BY <1>1, <1>5 DEF NoBody
<1>10. ReadInv(s, j)'
  BY <1>1, <1>7, <1>8, <1>9 DEF ReadInv
<1>11. Takes(s, c, e) /\ ReadInv(s, c + e)'
  BY <1>4, <1>6, <1>10 DEF Takes
<1> QED
  BY <1>4, <1>8, <1>11

(* So does a dispatch with the reader inside the event, which takes the     *)
(* body too if there is none to wait for.                                   *)
LEMMA HeadDispatchedLoading ==
  ASSUME NEW s \in Streams, NEW c \in Nat, IInv, Piece(buffer, s, c), ReadInv(s, c),
         DispatchInOrder, DispatchLoading
  PROVE  (\E n \in 0..Len(buffer) : Takes(s, c, n) /\ ReadInv(s, c + n)') /\ DispatchInOrder'
<1>1. /\ EndOfHeaders /\ state = "HEADERS" /\ DeclaredLength > 0
      /\ Fill(NewBody(DeclaredLength), AfterLine(buffer))
      /\ UNCHANGED <<line, headers>> /\ \E where : Start(where)
  BY DEF DispatchLoading, EndHeadersLoading, EndOfHeaders
<1>2. Len(s) \in Nat /\ buffer \in Seq(Token) /\ DeclaredLength \in Nat
  BY StreamFacts, DeclaredLengthType DEF IInv, TypeOK, RequestTypeOK
<1>3. PICK e \in 1..Len(buffer), i \in 1..c :
        /\ c + e <= Len(s)
        /\ AfterLine(buffer) \in Seq(Token) /\ Len(AfterLine(buffer)) = Len(buffer) - e
        /\ Piece(AfterLine(buffer), s, c + e)
        /\ HeadRead(s, i, c + e) /\ IsHead(s, i, c + e) /\ ServedRead(s, i - 1)
  BY <1>1, <1>2, HeadEnds
<1>4. PICK j \in Nat : j = c + e /\ i <= j /\ 1 <= i /\ i \in Nat /\ e \in 0..Len(buffer)
  OBVIOUS
<1>5. PICK b : b = AfterLine(buffer)
  OBVIOUS
<1>6. PICK old : old = NewBody(DeclaredLength)
  OBVIOUS
<1>7. /\ j <= Len(s) /\ HeadRead(s, i, j) /\ IsHead(s, i, j) /\ ServedRead(s, i - 1)
      /\ b \in Seq(Token) /\ Len(b) = Len(buffer) - e /\ Piece(b, s, j)
  BY <1>3, <1>4, <1>5
<1>8. Declared(s, i, j, DeclaredLength)
  BY <1>1, <1>4, <1>7, LengthDeclared
<1>9. /\ old \in [size : Nat, data : Seq(Token)] /\ old.size = DeclaredLength
      /\ old.data = <<>> /\ Len(old.data) <= old.size
  BY <1>2, <1>6, NewBodyType DEF NewBody
<1>10. Follows(old, s, j, j)
  <2>1. Len(old.data) = 0 /\ j = j + 0
    BY <1>9
  <2>2. Piece(old.data, s, j)
    BY <1>7, <2>1 DEF Piece
  <2> QED
    BY <1>9, <2>1, <2>2 DEF Follows
<1>11. Fill(old, b) /\ Declared(s, i, j, old.size) /\ UNCHANGED <<line, headers>>
  BY <1>1, <1>5, <1>6, <1>8, <1>9
<1>12. PICK m \in 0..Len(b) :
         /\ Piece(buffer', s, j + m) /\ Len(buffer') = Len(b) - m
         /\ InBody(s, j + m)' /\ body'.size = old.size
         /\ state' \in {"FINISHED", "BODY"}
         /\ state' = "FINISHED" => Len(body'.data) = body'.size
  <2>1. j \in Nat /\ i \in Nat /\ 1 <= i /\ i <= j /\ Len(s) \in Nat
    BY <1>2, <1>4
  <2>2. HeadRead(s, i, j) /\ IsHead(s, i, j) /\ b \in Seq(Token) /\ Piece(b, s, j)
    BY <1>7
  <2> QED
    BY <1>10, <1>11, <2>1, <2>2, BodyFilled
<1>13. PICK n \in 0..Len(buffer), d \in Nat :
         n = e + m /\ d = j + m /\ d = c + n /\ j <= d /\ Len(buffer') = Len(buffer) - n
  <2>1. Len(buffer) \in Nat /\ Len(b) \in Nat /\ m \in Nat /\ e \in Nat
    BY <1>2, <1>7
  <2>2. e + m \in 0..Len(buffer) /\ j + m \in Nat /\ j + m = c + (e + m) /\ j <= j + m
        /\ Len(buffer') = Len(buffer) - (e + m)
    BY <1>4, <1>7, <1>12, <2>1
  <2> QED
    BY <2>2
<1>14. Piece(buffer', s, d) /\ InBody(s, d)'
  BY <1>12, <1>13
<1>15. ServedRead(s, j)' /\ DispatchInOrder'
  BY <1>1, <1>4, <1>7, Dispatched
<1>16. ServedRead(s, d)'
  BY <1>13, <1>15 DEF ServedRead, LineRead
<1>17. ReadInv(s, d)'
  BY <1>1, <1>9, <1>12, <1>14, <1>16 DEF ReadInv
<1>18. Takes(s, c, n) /\ ReadInv(s, c + n)'
  BY <1>13, <1>14, <1>17 DEF Takes
<1> QED
  BY <1>15, <1>18

(* Every turn of the loop takes a piece from the front of the buffer and    *)
(* reads it right, and requests are dispatched in order.                    *)
LEMMA InputParser ==
  ASSUME NEW s \in Streams, NEW c \in Nat, IInv, Piece(buffer, s, c), ReadInv(s, c),
         DispatchInOrder, ParserStep
  PROVE  /\ \E n \in 0..Len(buffer) : Takes(s, c, n) /\ ReadInv(s, c + n)'
         /\ DispatchInOrder' /\ UNCHANGED <<writable, net>>
<1>1. /\ RequestTypeOK /\ buffer \in Seq(Token) /\ headers \in Seq(Token)
      /\ Len(buffer) \in Nat
  BY DEF IInv, TypeOK, RequestTypeOK
<1>2. /\ Len(s) \in Nat /\ Framed(s) /\ \A k \in 1..Len(s) : s[k] \in Token
  BY StreamFacts
<1>3. UNCHANGED <<writable, net>>
  BY DEF ParserStep, Parse, ParseReturns, ParseFails, BodyChunk, BodyChunkFails, Dispatch,
         DispatchLoading, Start, connectionVars
<1>4. ASSUME UNCHANGED <<dispatched, served>> PROVE DispatchInOrder'
  BY <1>4 DEF DispatchInOrder
<1>5. CASE Parse
  <2>1. UNCHANGED <<dispatched, served>> /\ (ParseRequestLine \/ ParseHeader)
    BY <1>5 DEF Parse, connectionVars
  <2>2. \E n \in 0..Len(buffer) : Takes(s, c, n) /\ ReadInv(s, c + n)'
    BY <1>1, <1>2, <2>1, LineParsed, HeaderParsed
  <2> QED
    BY <1>3, <1>4, <2>1, <2>2
<1>6. CASE ParseReturns \/ BodyChunkFails
  <2>1. UNCHANGED ReadVars /\ buffer' = buffer /\ UNCHANGED <<dispatched, served>>
    BY <1>6 DEF ParseReturns, AwaitLine, LeaveLoop, BodyChunkFails, UpdateBodyThrows, ReadVars
  <2>2. \E n \in 0..Len(buffer) : Takes(s, c, n) /\ ReadInv(s, c + n)'
    BY <1>1, <2>1, TakesNone
  <2> QED
    BY <1>3, <1>4, <2>1, <2>2
<1>7. CASE ParseFails
  <2>1. UNCHANGED <<dispatched, served>> /\ \E error : RejectLine(error)
    BY <1>7 DEF ParseFails
  <2>2. \E n \in 0..Len(buffer) : Takes(s, c, n) /\ ReadInv(s, c + n)'
    BY <1>1, <1>2, <2>1, LineRejected
  <2> QED
    BY <1>3, <1>4, <2>1, <2>2
<1>8. CASE BodyChunk
  <2>1. UNCHANGED <<dispatched, served>> /\ UpdateBody
    BY <1>8 DEF BodyChunk
  <2>2. \E n \in 0..Len(buffer) : Takes(s, c, n) /\ ReadInv(s, c + n)'
    BY <1>1, <1>2, <2>1, BodyRead
  <2> QED
    BY <1>3, <1>4, <2>1, <2>2
<1>9. CASE Dispatch
  BY <1>3, <1>9, HeadDispatched
<1>10. CASE DispatchLoading
  BY <1>3, <1>10, HeadDispatchedLoading
<1> QED
  BY <1>5, <1>6, <1>7, <1>8, <1>9, <1>10 DEF ParserStep

(* An activation at an await: the body reader takes from the buffer, and    *)
(* next() forgets the request; the others read nothing.                     *)
LEMMA InputTask ==
  ASSUME NEW s \in Streams, NEW c \in Nat, IInv, TaskData, Piece(buffer, s, c), ReadInv(s, c),
         DispatchInOrder, NEW t \in Tasks, TaskStep(t)
  PROVE  /\ \E n \in 0..Len(buffer) : Takes(s, c, n) /\ ReadInv(s, c + n)'
         /\ DispatchInOrder' /\ UNCHANGED <<writable, net>>
<1>1. /\ RequestTypeOK /\ Len(buffer) \in Nat
  BY DEF IInv, TypeOK, RequestTypeOK
<1>2. Len(s) \in Nat
  BY StreamFacts
<1>3. UNCHANGED <<dispatched, served>> /\ UNCHANGED <<writable, net>>
  BY TaskMoves DEF Moves
<1>4. DispatchInOrder'
  BY <1>3 DEF DispatchInOrder
<1>5. CASE UNCHANGED requestVars
  <2>1. UNCHANGED ReadVars /\ buffer' = buffer
    BY <1>3, <1>5 DEF ReadVars, requestVars
  <2> QED
    BY <1>1, <1>3, <1>4, <2>1, TakesNone
<1>6. CASE RunNext(t)
  <2>1. /\ state' = "REQUEST" /\ headers' = <<>> /\ body' = NoBody /\ buffer' = buffer
    BY <1>6 DEF RunNext, NextRequest
  <2>2. ServedRead(s, c)'
    BY <1>3, ServedSame DEF ReadInv
  <2>3. ReadInv(s, c)'
    BY <2>1, <2>2 DEF ReadInv
  <2>4. c + 0 = c /\ Len(buffer) - 0 = Len(buffer) /\ 0 \in 0..Len(buffer)
    BY <1>1
  <2>5. Takes(s, c, 0)
    BY <2>1, <2>4 DEF Takes
  <2>6. ReadInv(s, c + 0)'
    BY <2>3, <2>4
  <2> QED
    BY <1>3, <1>4, <2>4, <2>5, <2>6
<1>7. CASE ReadBody(t) /\ ~UNCHANGED requestVars
  <2>1. pc[t] = "chain" /\ DeclaredLength > 0 /\ LoadBufferBody(DeclaredLength)
    BY <1>7 DEF ReadBody
  <2>2. state = "FINISHED"
    BY <2>1 DEF TaskData
  <2> QED
    BY <1>1, <1>2, <1>3, <1>4, <2>1, <2>2, BodyAsked
<1>8. ReadBody(t) \/ RunNext(t) \/ UNCHANGED requestVars
  BY DEF TaskStep, ReadFails, Throw, WriteFails, Fails, Respond, StatusWritten,
        HeadersWritten, Pass, BodyClosed, BodyHangs
<1> QED
  BY <1>5, <1>6, <1>7, <1>8

--------------------------------------------------------------------------------
(* The input, whatever moves it. *)
LEMMA PlacedInit ==
  ASSUME Init
  PROVE  \E s \in Streams : \E cut : Cuts(cut) /\ Placed(s, cut) /\ cut[0] = 0
<1>1. net \in Streams /\ buffer = <<>> /\ writable = <<>>
  BY DEF Init, RequestInit
<1>2. PICK s \in Streams : s = net
  BY <1>1
<1>3. Len(s) \in Nat
  BY StreamFacts
<1>4. PICK cut : \A k \in Nat : cut[k] = 0
  <2>1. \A k \in Nat : [n \in Nat |-> 0][k] = 0
    OBVIOUS
  <2> QED
    BY <2>1
<1>5. Cuts(cut) /\ cut[0] = 0 /\ cut[1] = 0 /\ cut[0 + 1] = 0
  BY <1>4 DEF Cuts
<1>6. Len(buffer) = 0 /\ Len(writable) = 0
  BY <1>1
<1>7. Placed(s, cut)
  BY <1>2, <1>3, <1>5, <1>6 DEF Placed, Piece
<1> QED
  BY <1>5, <1>7

(* At first all of the stream is in the network. *)
LEMMA InputInit == Init => InputInv
<1> SUFFICES ASSUME Init PROVE InputInv
  OBVIOUS
<1>1. PICK s \in Streams : \E cut : Cuts(cut) /\ Placed(s, cut) /\ cut[0] = 0
  BY PlacedInit
<1>2. ReadInv(s, 0)
  BY DEF ReadInv, ServedRead, Init, RequestInit
<1> QED
  BY <1>1, <1>2 DEF InputInv

(* The types of what holds input. *)
LEMMA InputTypesHold == IInv => InputTypes
BY DEF IInv, TypeOK, RequestTypeOK, InputTypes

(* A step that reads. *)
LEMMA InputReads ==
  ASSUME NEW s \in Streams, NEW cut, Cuts(cut), IInv, Placed(s, cut),
         NEW n \in 0..Len(buffer), Takes(s, cut[0], n), ReadInv(s, cut[0] + n)',
         UNCHANGED <<writable, net>>
  PROVE  InputInv'
<1>1. PICK new : Cuts(new) /\ Placed(s, new)' /\ new[0] = cut[0] + n
  <2>1. Len(s) \in Nat /\ InputTypes
    BY StreamFacts, InputTypesHold
  <2> QED
    BY <2>1, PlacedReads, Zenon
<1>2. PICK m : m = cut[0] + n
  OBVIOUS
<1>3. ReadInv(s, m)' /\ new[0] = m
  BY <1>1, <1>2
<1>4. ReadInv(s, new[0])'
  BY <1>3
<1> QED
  BY <1>1, <1>4 DEF InputInv

(* A step of the network or the Writable. *)
LEMMA PlacedMoves ==
  ASSUME NEW s, NEW cut
  PROVE  Len(s) \in Nat /\ Cuts(cut) /\ InputTypes /\ Placed(s, cut)
           /\ ((\E k \in 1..Len(net) : Deliver(k)) \/ Drain)
         => \E new : Cuts(new) /\ Placed(s, new)' /\ new[0] = cut[0]
<1> SUFFICES ASSUME Len(s) \in Nat, Cuts(cut), InputTypes, Placed(s, cut),
                    (\E k \in 1..Len(net) : Deliver(k)) \/ Drain
             PROVE  \E new : Cuts(new) /\ Placed(s, new)' /\ new[0] = cut[0]
  OBVIOUS
<1>1. ASSUME NEW k \in 1..Len(net), Deliver(k)
      PROVE  \E new : Cuts(new) /\ Placed(s, new)' /\ new[0] = cut[0]
  <2>1. net' = SubSeq(net, k + 1, Len(net))
    BY <1>1 DEF Deliver
  <2>2. \/ /\ writable = <<>> /\ buffer' = buffer \o SubSeq(net, 1, k) /\ UNCHANGED writable
        \/ /\ writable' = Append(writable, SubSeq(net, 1, k)) /\ UNCHANGED buffer
    BY <1>1 DEF Deliver, Write, requestVars
  <2> QED
    BY <2>1, <2>2, PlacedHandsOn, PlacedHolds
<1>2. ASSUME Drain
      PROVE  \E new : Cuts(new) /\ Placed(s, new)' /\ new[0] = cut[0]
  <2>1. /\ writable # <<>> /\ buffer' = buffer \o Head(writable)
        /\ writable' = Tail(writable) /\ UNCHANGED net
    BY <1>2 DEF Drain, Write
  <2> QED
    BY <2>1, PlacedDrains
<1> QED
  BY <1>1, <1>2

(* Delivery and draining move the cuts, and read nothing. *)
LEMMA InputMoves ==
  ASSUME NEW s \in Streams, NEW cut, Cuts(cut), IInv, Placed(s, cut), ReadInv(s, cut[0]),
         (\E k \in 1..Len(net) : Deliver(k)) \/ Drain
  PROVE  InputInv'
<1>1. Len(s) \in Nat /\ InputTypes
  BY StreamFacts, InputTypesHold
<1>2. UNCHANGED ReadVars
  BY DEF Deliver, Drain, Write, ReadVars, requestVars
<1>3. \E new : Cuts(new) /\ Placed(s, new)' /\ new[0] = cut[0]
  BY <1>1, PlacedMoves
<1>4. PICK new : Cuts(new) /\ Placed(s, new)' /\ new[0] = cut[0]
  BY <1>3
<1>5. PICK m : m = cut[0]
  OBVIOUS
<1>6. ReadInv(s, m)
  BY <1>5
<1>7. ReadInv(s, m)'
  BY <1>2, <1>6, ReadKept
<1>8. ReadInv(s, new[0])'
  BY <1>4, <1>5, <1>7
<1> QED
  BY <1>4, <1>8 DEF InputInv

(* A step that leaves the input and the request alone. *)
LEMMA InputKept ==
  ASSUME InputInv, UNCHANGED ReadVars, UNCHANGED <<buffer, writable, net>>
  PROVE  InputInv'
<1>1. PICK s \in Streams : \E cut : Cuts(cut) /\ Placed(s, cut) /\ ReadInv(s, cut[0])
  BY DEF InputInv
<1>2. PICK cut : Cuts(cut) /\ Placed(s, cut) /\ ReadInv(s, cut[0])
  BY <1>1
<1>3. Placed(s, cut)'
  BY <1>2 DEF Placed
<1>4. ReadInv(s, cut[0])'
  BY <1>2, ReadKept
<1> QED
  BY <1>2, <1>3, <1>4 DEF InputInv

(* InputInv and DispatchInOrder are inductive, together. *)
LEMMA InputStep ==
  ASSUME DataInv, [Next]_vars
  PROVE  InputInv' /\ DispatchInOrder'
<1>1. IInv /\ TaskData /\ DispatchInOrder /\ InputInv
  BY DEF DataInv
<1>2. PICK s \in Streams : \E cut : Cuts(cut) /\ Placed(s, cut) /\ ReadInv(s, cut[0])
  BY <1>1 DEF InputInv
<1>3. PICK cut : Cuts(cut) /\ Placed(s, cut) /\ ReadInv(s, cut[0])
  BY <1>2
<1>4. PICK c \in Nat : c = cut[0]
  BY <1>3 DEF Cuts
<1>5. Piece(buffer, s, c) /\ ReadInv(s, c)
  BY <1>3, <1>4 DEF Placed
<1>6. ASSUME UNCHANGED <<dispatched, served>> PROVE DispatchInOrder'
  BY <1>1, <1>6 DEF DispatchInOrder
<1>7. ASSUME NEW n \in 0..Len(buffer), Takes(s, c, n), ReadInv(s, c + n)',
             UNCHANGED <<writable, net>>
      PROVE  InputInv'
  BY <1>1, <1>3, <1>4, <1>7, InputReads
<1>8. CASE (\E k \in 1..Len(net) : Deliver(k)) \/ Drain
  <2>1. UNCHANGED <<dispatched, served>>
    BY <1>8 DEF Deliver, Drain
  <2> QED
    BY <1>1, <1>3, <1>6, <1>8, <2>1, InputMoves
<1>9. CASE ParserStep
  BY <1>1, <1>5, <1>7, <1>9, InputParser
<1>10. CASE \E t \in Tasks : TaskStep(t)
  BY <1>1, <1>5, <1>7, <1>10, InputTask
<1>11. CASE (\E t \in Threads : ErrorStep(t)) \/ PeerCloses \/ UNCHANGED vars
  <2>1. UNCHANGED ReadVars /\ UNCHANGED <<buffer, writable, net>> /\ UNCHANGED <<dispatched, served>>
    BY <1>11 DEF ErrorStep, ErrorPageStatus, ErrorPageHeaders, ErrorPageDone, ErrorPageFails,
       ErrorPageHangs, PeerCloses, vars, requestVars, connectionVars, ReadVars
  <2> QED
    BY <1>1, <1>6, <2>1, InputKept
<1> QED
  BY <1>8, <1>9, <1>10, <1>11 DEF Next, Step

--------------------------------------------------------------------------------
(* What an activation knows. *)
LEMMA TaskKept ==
  ASSUME TaskData, UNCHANGED <<state, line, body, served>>,
         \A t \in Tasks : pc'[t] = pc[t] \/ pc'[t] \notin ServingPcs
  PROVE  TaskData'
BY DEF TaskData, ServingPcs

(* A thread goes where it is not served, whatever it does. *)
LEMMA TaskGoes ==
  ASSUME IInv, TaskData, UNCHANGED <<state, line, body, served>>, NEW t \in Threads,
         NEW where, where \notin ServingPcs, Goto(t, where)
  PROVE  TaskData'
<1>1. pc \in [Threads -> AllPcs] /\ Tasks \subseteq Threads
  BY ThreadsAre DEF IInv, TypeOK, AllPcs
<1>2. \A u \in Tasks : pc'[u] = pc[u] \/ pc'[u] \notin ServingPcs
  BY <1>1 DEF Goto
<1> QED
  BY <1>2, TaskKept

(* The active thread moves, and no other is served. *)
LEMMA TaskAlone ==
  ASSUME IInv, NEW t \in Tasks, pc[t] \in ActivePcs, NEW where, Goto(t, where),
         where \in ServingPcs => served'[t] = line',
         where = "chain" => state' = "FINISHED" /\ body' = NoBody,
         where \in {"handler", "status", "headers", "body"} => state' = "FINISHED"
  PROVE  TaskData'
<1>1. pc \in [Threads -> AllPcs] /\ Tasks \subseteq Threads
  BY ThreadsAre DEF IInv, TypeOK, AllPcs
<1>2. pc'[t] = where /\ \A u \in Tasks : u # t => pc'[u] = pc[u]
  BY <1>1 DEF Goto
<1>3. \A u \in Tasks : u # t => pc[u] \notin ActivePcs
  BY DEF IInv, OneActive
<1>4. \A u \in Tasks : u # t => pc'[u] \notin ServingPcs
  BY <1>2, <1>3 DEF ActivePcs
<1> QED
  BY <1>2, <1>4 DEF TaskData, ServingPcs

(* No activation is served while a head is parsed. *)
LEMMA NoneServed ==
  ASSUME IInv, state \in {"REQUEST", "HEADERS"}
  PROVE  \A u \in Tasks : pc[u] \notin ServingPcs
BY DEF IInv, OneActive, ActivePcs

(* A request is dispatched. *)
LEMMA TaskStarts ==
  ASSUME IInv, state = "HEADERS", NEW where, Start(where), line' = line,
         where = "chain" => state' = "FINISHED" /\ body' = NoBody,
         where \in {"handler", "status", "headers", "body"} => state' = "FINISHED"
  PROVE  TaskData'
<1>1. pc \in [Threads -> AllPcs] /\ Tasks \subseteq Threads /\ served \in [Tasks -> Nat]
  BY ThreadsAre DEF IInv, TypeOK, AllPcs
<1>2. PICK new : new = dispatched + 1
  OBVIOUS
<1>3. pc' = [pc EXCEPT ![new] = where] /\ served' = [served EXCEPT ![new] = line]
  BY <1>2 DEF Start, Goto
<1>4. \A u \in Tasks : u # new => pc'[u] \notin ServingPcs
  BY <1>1, <1>3, NoneServed
<1>5. new \in Tasks => pc'[new] = where /\ served'[new] = line
  BY <1>1, <1>3
<1> QED
  BY <1>4, <1>5 DEF TaskData, ServingPcs

(* The network and the Writable leave the activations alone. *)
LEMMA TaskNetwork ==
  ASSUME IInv, TaskData, (\E k \in 1..Len(net) : Deliver(k)) \/ Drain \/ PeerCloses
  PROVE  TaskData'
<1>1. UNCHANGED <<state, line, body, served>>
  BY DEF Deliver, Drain, PeerCloses, Write, requestVars
<1>2. pc' = pc \/ Goto(0, "parsing")
  BY DEF Deliver, Drain, PeerCloses
<1>3. "parsing" \notin ServingPcs /\ 0 \in Threads
  BY ThreadsAre DEF ServingPcs
<1> QED
  BY <1>1, <1>2, <1>3, TaskKept, TaskGoes

(* An error page leaves an activation that is served alone. *)
LEMMA TaskError ==
  ASSUME IInv, TaskData, NEW t \in Threads, ErrorStep(t)
  PROVE  TaskData'
<1>1. UNCHANGED <<state, line, body, served>>
  BY DEF ErrorStep, ErrorPageStatus, ErrorPageHeaders, ErrorPageDone,
         ErrorPageFails, ErrorPageHangs, requestVars
<1>2. PICK where \in {"errHeaders", "errBody", Handled(t), "rejected", "errHung"} :
        Goto(t, where)
  BY DEF ErrorStep, ErrorPageStatus, ErrorPageHeaders, ErrorPageDone,
         ErrorPageFails, ErrorPageHangs
<1>3. where \notin ServingPcs
  BY DEF ServingPcs, Handled
<1> QED
  BY <1>1, <1>2, <1>3, TaskGoes

(* _handleError moves the thread that waits for the loop. *)
LEMMA TaskHandlesError ==
  ASSUME IInv, TaskData, parsing, NEW error, HandleError(caller, error),
         UNCHANGED <<state, line, body, served>>
  PROVE  TaskData'
<1>1. PICK where \in {"errStatus", Handled(caller)} : Goto(caller, where)
  BY DEF HandleError
<1>2. where \notin ServingPcs
  BY DEF Handled, ServingPcs
<1> QED
  BY <1>1, <1>2, CallerWaits, TaskGoes

(* While a route is active the parser begins no other head. *)
LEMMA TaskParser ==
  ASSUME IInv, TaskData, ParserStep, state = "HEADERS" => body = NoBody
  PROVE  TaskData'
<1>0. pc \in [Threads -> AllPcs] /\ Tasks \subseteq Threads
  BY ThreadsAre DEF IInv, TypeOK, AllPcs
<1>1. CASE Parse
  <2>1. pc' = pc /\ state \in {"REQUEST", "HEADERS"}
    BY <1>1 DEF Parse, ParseRequestLine, ParseHeader, connectionVars
  <2>2. \A u \in Tasks : pc'[u] \notin ServingPcs
    BY <2>1, NoneServed
  <2> QED
    BY <2>2 DEF TaskData, ServingPcs
<1>2. CASE ParseReturns
  <2>1. /\ parsing /\ UNCHANGED <<state, line, body, served>>
        /\ Goto(caller, Returned(caller))
    BY <1>2 DEF ParseReturns, AwaitLine, LeaveLoop
  <2>2. Returned(caller) \notin ServingPcs
    BY DEF Returned, ServingPcs
  <2> QED
    BY <2>1, <2>2, CallerWaits, TaskGoes
<1>3. CASE ParseFails
  BY <1>3, TaskHandlesError DEF ParseFails, RejectLine
<1>4. CASE BodyChunk
  <2>1. parsing /\ state = "BODY" /\ UNCHANGED <<line, served>>
    BY <1>4 DEF BodyChunk, UpdateBody
  <2>2. \A u \in Tasks :
           \/ pc'[u] = pc[u]
           \/ pc'[u] = "done"
           \/ pc[u] = "reading" /\ pc'[u] = "handler" /\ state' = "FINISHED"
    BY <1>0, <1>4, ThreadsAre, CallerWaits, <2>1 DEF BodyChunk, Returned
  <2>3. ASSUME NEW u \in Tasks
        PROVE  /\ pc'[u] \in ServingPcs => line' = served'[u]
               /\ pc'[u] = "chain" => state' = "FINISHED" /\ body' = NoBody
               /\ pc'[u] \in {"handler", "status", "headers", "body"} => state' = "FINISHED"
    BY <2>1, <2>2 DEF TaskData, ServingPcs
  <2> QED
    BY <2>3 DEF TaskData
<1>5. CASE BodyChunkFails
  BY <1>5, TaskHandlesError DEF BodyChunkFails, UpdateBodyThrows
<1>6. CASE Dispatch
  <2>1. /\ state = "HEADERS" /\ state' = "FINISHED" /\ line' = line /\ body' = body
        /\ \E where : Start(where)
    BY <1>6 DEF Dispatch, EndHeaders, EndOfHeaders
  <2> QED
    BY <2>1, TaskStarts
<1>7. CASE DispatchLoading
  <2>1. PICK where : where = (CASE state' = "FINISHED"      -> "handler"
                             [] AfterLine(buffer) = <<>> -> "readFailed"
                             [] OTHER                    -> "reading")
    OBVIOUS
  <2>2. state = "HEADERS" /\ line' = line /\ Start(where)
    BY <1>7, <2>1 DEF DispatchLoading, EndHeadersLoading, EndOfHeaders
  <2>3. (where = "handler" /\ state' = "FINISHED") \/ where \in {"readFailed", "reading"}
    BY <2>1
  <2> QED
    BY <2>2, <2>3, TaskStarts
<1> QED
  BY <1>1, <1>2, <1>3, <1>4, <1>5, <1>6, <1>7 DEF ParserStep

(* An activation goes from await to await with its own request. *)
LEMMA TaskAwaits ==
  ASSUME IInv, TaskData, NEW t \in Tasks, TaskStep(t)
  PROVE  TaskData'
<1>0. t \in Threads
  BY ThreadsAre
<1>1. CASE ReadBody(t)
  <2>1. /\ pc[t] = "chain" /\ pc[t] \in ActivePcs /\ served'[t] = line'
        /\ state = "FINISHED"
    BY <1>1
    DEF ReadBody, LoadBufferBody, requestVars, ActivePcs, ServingPcs, TaskData
  <2>2. CASE DeclaredLength = 0 /\ Goto(t, "handler") /\ UNCHANGED requestVars
    BY <2>1, <2>2, TaskAlone DEF requestVars
  <2>3. CASE DeclaredLength > 0 /\ LoadBufferBody(DeclaredLength)
    <3>1. PICK where : where = (CASE state' = "FINISHED" -> "handler"
                               [] buffer = <<>>       -> "readFailed"
                               [] OTHER               -> "reading")
      OBVIOUS
    <3>2. Goto(t, where)
      BY <1>1, <2>3, <3>1 DEF ReadBody
    <3>3. (where = "handler" /\ state' = "FINISHED") \/ where \in {"readFailed", "reading"}
      BY <3>1
    <3> QED
      BY <2>1, <3>2, <3>3, TaskAlone
  <2> QED
    BY <1>1, <2>2, <2>3 DEF ReadBody
<1>2. CASE ReadFails(t) \/ Throw(t) \/ WriteFails(t) \/ Pass(t) \/ BodyClosed(t) \/ BodyHangs(t)
  <2>1. /\ UNCHANGED <<state, line, body, served>>
        /\ \E where \in {"failed", "next", "hung"} : Goto(t, where)
    BY <1>2 DEF ReadFails, Throw, WriteFails, Fails, Pass, BodyClosed, BodyHangs, requestVars
  <2>2. \A where \in {"failed", "next", "hung"} : where \notin ServingPcs
    BY DEF ServingPcs
  <2> QED
    BY <1>0, <2>1, <2>2, TaskGoes
<1>3. CASE Respond(t) \/ StatusWritten(t) \/ HeadersWritten(t)
  <2>1. /\ UNCHANGED <<state, line, body, served>>
        /\ pc[t] \in {"handler", "status", "headers"}
        /\ \E where \in {"status", "headers", "body"} : Goto(t, where)
    BY <1>3 DEF Respond, StatusWritten, HeadersWritten, requestVars
  <2>2. pc[t] \in ActivePcs /\ pc[t] \in ServingPcs
    BY <2>1 DEF ActivePcs, ServingPcs
  <2>3. state' = "FINISHED" /\ served'[t] = line'
    BY <2>1, <2>2 DEF TaskData
  <2> QED
    BY <2>1, <2>2, <2>3, TaskAlone
<1>4. CASE RunNext(t)
  <2>1. pc[t] \in ActivePcs /\ Goto(t, "parsing")
    BY <1>4 DEF RunNext, ActivePcs
  <2>2. "parsing" \notin ServingPcs
    BY DEF ServingPcs
  <2> QED
    BY <2>1, <2>2, TaskAlone
<1> QED
  BY <1>1, <1>2, <1>3, <1>4 DEF TaskStep

--------------------------------------------------------------------------------
(* The invariant. *)
LEMMA DataInit == Init => DataInv
<1> SUFFICES ASSUME Init PROVE DataInv
  OBVIOUS
<1>1. IInv /\ InputInv
  BY InvInit, InputInit
<1>2. \A t \in Tasks : pc[t] = "unused"
  BY ThreadsAre DEF Init
<1>3. TaskData
  BY <1>2 DEF TaskData, ServingPcs
<1>4. DispatchInOrder
  BY DEF Init, DispatchInOrder
<1> QED
  BY <1>1, <1>3, <1>4 DEF DataInv

(* DataInv is inductive. *)
LEMMA DataStep == DataInv /\ [Next]_vars => DataInv'
<1> SUFFICES ASSUME DataInv, [Next]_vars PROVE DataInv'
  OBVIOUS
<1>1. IInv /\ TaskData /\ InputInv
  BY DEF DataInv
<1>2. IInv'
  BY <1>1, InvStep
<1>3. InputInv' /\ DispatchInOrder'
  BY InputStep
<1>4. state = "HEADERS" => body = NoBody
  BY <1>1 DEF InputInv, ReadInv
<1>5. TaskData'
  <2>1. CASE (\E k \in 1..Len(net) : Deliver(k)) \/ Drain \/ PeerCloses
    BY <1>1, <2>1, TaskNetwork
  <2>2. CASE ParserStep
    BY <1>1, <1>4, <2>2, TaskParser
  <2>3. CASE \E t \in Threads : ErrorStep(t)
    BY <1>1, <2>3, TaskError
  <2>4. CASE \E t \in Tasks : TaskStep(t)
    BY <1>1, <2>4, TaskAwaits
  <2>5. CASE UNCHANGED vars
    <3>1. UNCHANGED <<state, line, body, served>> /\ pc' = pc
      BY <2>5 DEF vars, requestVars, connectionVars
    <3> QED
      BY <1>1, <3>1, TaskKept
  <2> QED
    BY <2>1, <2>2, <2>3, <2>4, <2>5 DEF Next, Step
<1> QED
  BY <1>2, <1>3, <1>5 DEF DataInv

(* A head and the body after it are the request's own. *)
LEMMA FramedBody ==
  ASSUME NEW s \in Streams, NEW c \in Nat, c <= Len(s), InBody(s, c),
         body \in [size : Nat, data : Seq(Token)]
  PROVE  /\ \A h \in 1..Len(headers) : headers[h].req = line
         /\ Len(body.data) = body.size =>
              \A m \in 1..body.size :
                body.data[m] = [kind |-> "data", req |-> line, n |-> m]
<1>1. Len(s) \in Nat /\ Framed(s)
  BY StreamFacts
<1>2. PICK i, j \in 1..c :
        /\ HeadRead(s, i, j) /\ IsHead(s, i, j)
        /\ Piece(body.data, s, j) /\ c = j + Len(body.data)
        /\ body = NoBody \/ Declared(s, i, j, body.size)
  BY DEF InBody
<1>3. i \in 1..Len(s) /\ j \in 1..Len(s) /\ i \in Nat /\ j \in Nat
  BY <1>1
<1>4. s[i].req = line
  BY <1>2 DEF HeadRead
<1>5. \A k \in i..j :
        /\ s[k].req = line
        /\ s[k].kind = "length" =>
             \A m \in 1..s[k].n :
               j + m <= Len(s) => s[j + m] = [kind |-> "data", req |-> line, n |-> m]
  BY <1>1, <1>2, <1>3, <1>4 DEF Framed
<1>6. ASSUME NEW h \in 1..Len(headers) PROVE headers[h].req = line
  <2>1. PICK k \in (i + 1)..j : headers[h] = s[k]
    BY <1>2 DEF HeadRead
  <2>2. k \in i..j
    BY <1>3
  <2> QED
    BY <1>5, <2>1, <2>2
<1>7. ASSUME Len(body.data) = body.size, NEW m \in 1..body.size
      PROVE  body.data[m] = [kind |-> "data", req |-> line, n |-> m]
  <2>1. body.size \in Nat /\ body # NoBody
    BY DEF NoBody
  <2>2. PICK k \in i..j : s[k].kind = "length" /\ s[k].n = body.size
    BY <1>2, <2>1 DEF Declared
  <2>3. j + body.size <= Len(s) /\ body.data[m] = s[j + m]
    BY <1>2, <1>7 DEF Piece
  <2>4. j + m <= Len(s) /\ m \in 1..s[k].n
    BY <1>1, <1>3, <2>1, <2>2, <2>3
  <2>5. s[j + m] = [kind |-> "data", req |-> line, n |-> m]
    BY <1>5, <2>2, <2>4
  <2> QED
    BY <2>3, <2>5
<1> QED
  BY <1>6, <1>7

(* What follows the head of the active request is its own body. *)
LEMMA OwnDataHolds == DataInv => OwnData
<1> SUFFICES ASSUME DataInv, NEW t \in Tasks, pc[t] \in ServingPcs
             PROVE  /\ line = served[t]
                    /\ \A i \in 1..Len(headers) : headers[i].req = served[t]
                    /\ pc[t] \in {"handler", "status", "headers", "body"} =>
                         /\ Len(body.data) = body.size
                         /\ \A i \in 1..body.size :
                              body.data[i] = [kind |-> "data", req |-> served[t], n |-> i]
  BY DEF OwnData
<1>1. IInv /\ TaskData /\ InputInv
  BY DEF DataInv
<1>2. state \in {"FINISHED", "BODY"}
  BY <1>1 DEF IInv, OneActive, ActivePcs
<1>3. /\ line = served[t]
      /\ pc[t] \in {"handler", "status", "headers", "body"} => state = "FINISHED"
  BY <1>1 DEF TaskData
<1>4. PICK s \in Streams : \E cut : Cuts(cut) /\ Placed(s, cut) /\ ReadInv(s, cut[0])
  BY <1>1 DEF InputInv
<1>5. PICK cut : Cuts(cut) /\ Placed(s, cut) /\ ReadInv(s, cut[0])
  BY <1>4
<1>6. PICK c \in Nat : c = cut[0]
  BY <1>5 DEF Cuts
<1>7. /\ buffer \in Seq(Token) /\ Len(buffer) \in Nat
      /\ body \in [size : Nat, data : Seq(Token)]
  BY <1>1 DEF IInv, TypeOK, RequestTypeOK
<1>8. c <= Len(s)
  <2>1. c + Len(buffer) <= Len(s)
    BY <1>5, <1>6 DEF Placed, Piece
  <2>2. Len(s) \in Nat
    BY StreamFacts
  <2> QED
    BY <1>7, <2>1, <2>2
<1>9. InBody(s, c) /\ (state = "FINISHED" => Len(body.data) = body.size)
  BY <1>2, <1>5, <1>6 DEF ReadInv
<1>10. /\ \A h \in 1..Len(headers) : headers[h].req = line
       /\ Len(body.data) = body.size =>
            \A m \in 1..body.size :
              body.data[m] = [kind |-> "data", req |-> line, n |-> m]
  BY <1>7, <1>8, <1>9, FramedBody
<1> QED
  BY <1>3, <1>9, <1>10

(* What an active request's callbacks see is its own, for every stream that *)
(* frames its requests: the line, the headers and, once the body reader is  *)
(* passed, the whole of the body in order (request.ts:137-150, 318-348,     *)
(* 401-420), however the chunks are cut and held back.                      *)
THEOREM OwnDataCorrect == Spec => []OwnData
<1>1. Init => DataInv
  BY DataInit
<1>2. DataInv /\ [Next]_vars => DataInv'
  BY DataStep
<1>3. DataInv => OwnData
  BY OwnDataHolds
<1> QED
  BY <1>1, <1>2, <1>3, PTL DEF Spec

(* Requests are taken up in the order they were sent, none of them twice    *)
(* (client-handler.ts:193-222, request.ts:199-215).                         *)
THEOREM DispatchInOrderCorrect == Spec => []DispatchInOrder
<1>1. Init => DataInv
  BY DataInit
<1>2. DataInv /\ [Next]_vars => DataInv'
  BY DataStep
<1>3. DataInv => DispatchInOrder
  BY DEF DataInv
<1> QED
  BY <1>1, <1>2, <1>3, PTL DEF Spec

(* The parser reads one stream from its beginning: what it has not read yet *)
(* is, without a gap, in the buffer, the chunks that the Writable holds and *)
(* the socket, in the order it was sent (client-handler.ts:53-67,           *)
(* request.ts:199-215, 329-334, 390-391).                                   *)
THEOREM InputPlaced == Spec => []InputInv
<1>1. Init => DataInv
  BY DataInit
<1>2. DataInv /\ [Next]_vars => DataInv'
  BY DataStep
<1>3. DataInv => InputInv
  BY DEF DataInv
<1> QED
  BY <1>1, <1>2, <1>3, PTL DEF Spec
--------------------------------------------------------------------------------
(* A well-formed connection.  The parser is between two lines, what it      *)
(* waits for is what comes next, and no thread is where an error leads.     *)
SmoothPcs ==
  {"unused", "next", "parsing", "done", "chain", "handler", "status", "headers", "body"}

Smooth ==
  /\ Open /\ state # "BODY"
  /\ pc[0] \in {"idle", "parsing"}
  /\ \A t \in Tasks : pc[t] \in SmoothPcs
  /\ \A h \in 1..Len(headers) : headers[h].kind # "length"

(* What was read ends with a line, and the parser expects what follows it. *)
AtLine(s, c) ==
  /\ c > 0 => s[c].kind # "frag"
  /\ state = "HEADERS" <=> ~(c = 0 \/ s[c].kind = "blank")

(* The input is a stream, read as far as the end of a line. *)
LineInv == \E s \in Streams : \E cut : Cuts(cut) /\ Placed(s, cut) /\ AtLine(s, cut[0])

(* The inductive invariant behind WellFormedSurvives. *)
SurviveInv == IInv /\ Smooth /\ LineInv

(* The line that is ready is the one the parser expects. *)
LEMMA ExpectedLine ==
  ASSUME NEW s \in Streams, NEW c \in Nat, WellFormed(s), buffer \in Seq(Token),
         HasLine(buffer), Piece(buffer, s, c), AtLine(s, c), state \in {"REQUEST", "HEADERS"}
  PROVE  \E e \in 1..Len(buffer) :
           /\ e = LineEnd(buffer) /\ buffer[e] = s[c + e]
           /\ Piece(AfterLine(buffer), s, c + e) /\ Len(AfterLine(buffer)) = Len(buffer) - e
           /\ CurrentKind = s[c + e].kind /\ c + e \in Nat \ {0}
           /\ CurrentKind \in {"line", "header", "blank"}
           /\ CurrentKind = "line" <=> state = "REQUEST"
<1>1. Len(s) \in Nat
  BY StreamFacts
<1>2. PICK e \in 1..Len(buffer) :
        /\ e = LineEnd(buffer) /\ c + e <= Len(s) /\ buffer[e] = s[c + e]
        /\ Len(AfterLine(buffer)) = Len(buffer) - e /\ Piece(AfterLine(buffer), s, c + e)
        /\ \A k \in (c + 1)..(c + e - 1) : s[k].kind \notin Terminated
        /\ (\A k \in (c + 1)..(c + e - 1) : s[k].kind # "data")
             => CurrentKind = s[c + e].kind
  BY <1>1, LineTaken
<1>3. /\ buffer[e].kind \in Terminated
      /\ LineEnd(buffer) \in 1..Len(buffer)
  BY <1>2, LineEndIsFirst
<1>4. e \in Nat /\ 1 <= e /\ c <= Len(s) /\ c + e \in 1..Len(s) /\ c \in 0..Len(s)
  <2>1. e \in Nat /\ 1 <= e /\ c + e <= Len(s)
    BY <1>2
  <2> QED
    BY <1>1, <2>1
<1>5. \A i \in 1..Len(s) : s[i].kind \in {"line", "header", "blank", "frag"}
  BY DEF WellFormed
<1>6. \A k \in (c + 1)..(c + e - 1) : s[k].kind = "frag"
  <2>1. \A k \in (c + 1)..(c + e - 1) : k \in 1..Len(s)
    BY <1>1, <1>4
  <2> QED
    BY <1>2, <1>5, <2>1 DEF Terminated
<1>7. CurrentKind = s[c + e].kind
  BY <1>2, <1>6
<1>8. s[c + e].kind \in {"line", "header", "blank"}
  BY <1>2, <1>3, <1>4, <1>5 DEF Terminated
<1>9. EndsNextLine(s, c, c + e)
  BY <1>4, <1>6, <1>8 DEF EndsNextLine, AtLine
<1>10. s[c + e].kind = "line" <=> (c = 0 \/ s[c].kind = "blank")
  <2>1. \A i \in 0..Len(s), j \in 1..Len(s) :
          EndsNextLine(s, i, j) => (s[j].kind = "line" <=> (i = 0 \/ s[i].kind = "blank"))
    BY DEF WellFormed
  <2> QED
    BY <1>4, <1>9, <2>1
<1>11. s[c + e].kind = "line" <=> state = "REQUEST"
  BY <1>10 DEF AtLine
<1>12. /\ CurrentKind \in {"line", "header", "blank"}
       /\ CurrentKind = "line" <=> state = "REQUEST"
  BY <1>7, <1>8, <1>11
<1>13. c + e \in Nat \ {0}
  BY <1>4
<1> WITNESS e \in 1..Len(buffer)
<1> QED
  BY <1>2, <1>7, <1>12, <1>13

(* No header declares a length, so there is no body. *)
LEMMA NothingDeclared == Smooth => DeclaredLength = 0
BY DEF Smooth, DeclaredLength

(* A thread goes on. *)
LEMMA SmoothMove ==
  ASSUME IInv, Smooth, NEW t \in Threads, NEW where, Goto(t, where),
         t = 0 => where \in {"idle", "parsing"}, t # 0 => where \in SmoothPcs,
         socket' = socket, state' # "BODY", headers' \in {headers, <<>>}
  PROVE  Smooth'
<1>1. pc \in [Threads -> AllPcs] /\ Tasks = Threads \ {0} /\ 0 \in Threads
  BY ThreadsAre DEF IInv, TypeOK, AllPcs
<1>2. pc' = [pc EXCEPT ![t] = where]
  BY DEF Goto
<1>3. pc'[0] \in {"idle", "parsing"}
  BY <1>1, <1>2 DEF Smooth
<1>4. \A u \in Tasks : pc'[u] \in SmoothPcs
  BY <1>1, <1>2 DEF Smooth
<1>5. \A h \in 1..Len(headers') : headers'[h].kind # "length"
  <2>1. CASE headers' = headers
    BY <2>1 DEF Smooth
  <2>2. CASE headers' = <<>>
    <3>1. Len(headers') = 0
      BY <2>2
    <3> QED
      BY <3>1
  <2> QED
    BY <2>1, <2>2
<1>6. Open'
  BY DEF Smooth, Open
<1> QED
  BY <1>3, <1>4, <1>5, <1>6 DEF Smooth

(* A step that leaves the input and the parser alone. *)
LEMMA AtLineKept ==
  ASSUME NEW s, NEW c \in Nat, Len(buffer) \in Nat, Piece(buffer, s, c), AtLine(s, c),
         state' = state, buffer' = buffer
  PROVE  \E n \in 0..Len(buffer) : Takes(s, c, n) /\ AtLine(s, c + n)'
<1>1. c + 0 = c /\ Len(buffer) - 0 = Len(buffer) /\ 0 \in 0..Len(buffer)
  OBVIOUS
<1>2. Takes(s, c, 0)
  BY <1>1 DEF Takes
<1>3. AtLine(s, c)'
  BY DEF AtLine
<1>4. AtLine(s, c + 0)'
  BY <1>1, <1>3
<1> QED
  BY <1>1, <1>2, <1>4

(* Every line is accepted. *)
LEMMA ParserSurvives ==
  ASSUME NEW s \in Streams, NEW c \in Nat, WellFormed(s), IInv, Smooth,
         Piece(buffer, s, c), AtLine(s, c), ParserStep
  PROVE  /\ Smooth' /\ UNCHANGED <<writable, net>>
         /\ \E n \in 0..Len(buffer) : Takes(s, c, n) /\ AtLine(s, c + n)'
<1>1. /\ buffer \in Seq(Token) /\ headers \in Seq(Token) /\ Len(buffer) \in Nat
      /\ state # "BODY"
  BY DEF IInv, TypeOK, RequestTypeOK, Smooth
<1>2. UNCHANGED <<writable, net>>
  BY DEF ParserStep, Parse, ParseReturns, ParseFails, BodyChunk, BodyChunkFails, Dispatch,
         DispatchLoading, Start, connectionVars
<1>3. ASSUME HasLine(buffer), state \in {"REQUEST", "HEADERS"}
      PROVE  \E e \in 0..Len(buffer) :
               /\ buffer[LineEnd(buffer)].kind = CurrentKind
               /\ buffer' = AfterLine(buffer) => Takes(s, c, e)
               /\ (state' = "HEADERS" <=> CurrentKind # "blank") => AtLine(s, c + e)'
               /\ CurrentKind \in {"line", "header", "blank"}
               /\ CurrentKind = "line" <=> state = "REQUEST"
  <2>1. PICK e \in 1..Len(buffer) :
           /\ e = LineEnd(buffer) /\ buffer[e] = s[c + e]
           /\ Piece(AfterLine(buffer), s, c + e) /\ Len(AfterLine(buffer)) = Len(buffer) - e
           /\ CurrentKind = s[c + e].kind /\ c + e \in Nat \ {0}
           /\ CurrentKind \in {"line", "header", "blank"}
           /\ CurrentKind = "line" <=> state = "REQUEST"
    BY <1>1, <1>3, ExpectedLine
  <2>2. PICK d \in Nat \ {0} : d = c + e
    BY <2>1
  <2>3. CurrentKind = s[d].kind
    BY <2>1, <2>2
  <2>4. (state' = "HEADERS" <=> CurrentKind # "blank") => AtLine(s, d)'
    BY <2>1, <2>2, <2>3 DEF AtLine
  <2>5. e \in 0..Len(buffer) /\ buffer[LineEnd(buffer)].kind = CurrentKind
    BY <2>1
  <2>6. buffer' = AfterLine(buffer) => Takes(s, c, e)
    BY <2>1 DEF Takes
  <2>7. (state' = "HEADERS" <=> CurrentKind # "blank") => AtLine(s, c + e)'
    <3> SUFFICES ASSUME state' = "HEADERS" <=> CurrentKind # "blank" PROVE AtLine(s, c + e)'
      OBVIOUS
    <3>1. AtLine(s, d)'
      BY <2>4
    <3> QED
      BY <2>2, <3>1
  <2> QED
    BY <2>1, <2>5, <2>6, <2>7
<1>4. CASE Parse
  <2>1. /\ HasLine(buffer) /\ state \in {"REQUEST", "HEADERS"} /\ state' = "HEADERS"
        /\ buffer' = AfterLine(buffer) /\ UNCHANGED <<pc, socket>>
        /\ \/ headers' = headers /\ Fault(CurrentKind) = "none" /\ state = "REQUEST"
           \/ CurrentKind \in {"header", "length"}
                /\ headers' = Append(headers, buffer[LineEnd(buffer)])
    BY <1>4 DEF Parse, ParseRequestLine, ParseHeader, connectionVars
  <2>2. PICK e \in 0..Len(buffer) :
           /\ buffer[LineEnd(buffer)].kind = CurrentKind /\ Takes(s, c, e)
           /\ (state' = "HEADERS" <=> CurrentKind # "blank") => AtLine(s, c + e)'
           /\ CurrentKind \in {"line", "header", "blank"}
    BY <1>3, <2>1
  <2>3. CurrentKind # "blank"
    BY <2>1 DEF Fault
  <2>4. AtLine(s, c + e)'
    BY <2>1, <2>2, <2>3
  <2>5. \A h \in 1..Len(headers') : headers'[h].kind # "length"
    <3>1. CASE headers' = headers
      BY <3>1 DEF Smooth
    <3>2. CASE headers' = Append(headers, buffer[LineEnd(buffer)])
      <4>1. PICK x : x = buffer[LineEnd(buffer)] /\ x.kind # "length"
        BY <2>2
      <4>2. headers' = Append(headers, x)
        BY <3>2, <4>1
      <4>3. /\ Len(headers') = Len(headers) + 1 /\ headers'[Len(headers) + 1] = x
            /\ \A h \in 1..Len(headers) : headers'[h] = headers[h]
        BY <1>1, <4>2, AppendProperties
      <4>4. \A h \in 1..(Len(headers) + 1) : h \in 1..Len(headers) \/ h = Len(headers) + 1
        BY <1>1, LenProperties
      <4> QED
        BY <4>1, <4>3, <4>4 DEF Smooth
    <3> QED
      BY <2>1, <3>1, <3>2
  <2>6. Smooth'
    BY <2>1, <2>5 DEF Smooth, Open
  <2> QED
    BY <1>2, <2>2, <2>4, <2>6
<1>5. CASE ParseReturns
  <2>1. /\ parsing /\ UNCHANGED <<state, buffer, headers, socket>>
        /\ Goto(caller, Returned(caller))
    BY <1>5 DEF ParseReturns, AwaitLine, LeaveLoop
  <2>2. caller \in Threads
    BY <2>1, CallerWaits
  <2>3. Smooth'
    BY <1>1, <2>1, <2>2, SmoothMove DEF Returned, SmoothPcs
  <2> QED
    BY <1>1, <1>2, <2>1, <2>3, AtLineKept
<1>6. CASE ParseFails
  <2>1. HasLine(buffer) /\ state \in {"REQUEST", "HEADERS"} /\ Fault(CurrentKind) # "none"
    BY <1>6 DEF ParseFails, RejectLine
  <2>2. CurrentKind \in {"line", "header", "blank"} /\ (CurrentKind = "line" <=> state = "REQUEST")
    BY <1>3, <2>1
  <2> QED
    BY <2>1, <2>2 DEF Fault
<1>7. CASE BodyChunk \/ BodyChunkFails
  BY <1>1, <1>7 DEF BodyChunk, BodyChunkFails, UpdateBody, UpdateBodyThrows
<1>8. CASE Dispatch
  <2>1. /\ HasLine(buffer) /\ state = "HEADERS" /\ CurrentKind = "blank" /\ state' = "FINISHED"
        /\ buffer' = AfterLine(buffer) /\ UNCHANGED <<headers, socket>>
        /\ \E where \in {"handler", "chain"} : Start(where)
    BY <1>8 DEF Dispatch, EndHeaders, EndOfHeaders, Start
  <2>2. PICK e \in 0..Len(buffer) : Takes(s, c, e) /\ AtLine(s, c + e)'
    BY <1>3, <2>1
  <2>3. PICK where \in {"handler", "chain"} : Start(where)
    BY <2>1
  <2>4. dispatched + 1 \in Threads /\ dispatched + 1 # 0
    <3>1. dispatched \in 0..MaxRequests /\ dispatched < MaxRequests
      BY <2>3 DEF IInv, TypeOK, Start
    <3> QED
      BY <3>1, MaxRequestsAssumption DEF Threads
  <2>5. Goto(dispatched + 1, where)
    BY <2>3 DEF Start
  <2>6. Smooth'
    BY <2>1, <2>4, <2>5, SmoothMove DEF SmoothPcs
  <2> QED
    BY <1>2, <2>2, <2>6
<1>9. CASE DispatchLoading
  BY <1>9, NothingDeclared DEF DispatchLoading
<1> QED
  BY <1>4, <1>5, <1>6, <1>7, <1>8, <1>9 DEF ParserStep

(* An activation at an await goes on to the end of its response. *)
LEMMA TaskSurvives ==
  ASSUME Undisturbed, NEW s, NEW c \in Nat, IInv, Smooth, Piece(buffer, s, c), AtLine(s, c),
         NEW t \in Tasks, TaskStep(t)
  PROVE  /\ Smooth' /\ UNCHANGED <<writable, net>>
         /\ \E n \in 0..Len(buffer) : Takes(s, c, n) /\ AtLine(s, c + n)'
<1>1. /\ Len(buffer) \in Nat /\ state # "BODY" /\ pc[t] \in SmoothPcs /\ t \in Threads /\ t # 0
      /\ Open
  BY ThreadsAre DEF IInv, TypeOK, RequestTypeOK, Smooth
<1>2. UNCHANGED <<writable, net>>
  BY TaskMoves DEF Moves
<1>3. CASE RunNext(t)
  <2>1. pc[t] = "next" /\ buffer' = buffer /\ state' = "REQUEST" /\ headers' = <<>>
        /\ Goto(t, "parsing") /\ socket' = socket
    BY <1>3 DEF RunNext, NextRequest
  <2>2. state # "HEADERS"
    BY <2>1 DEF IInv, OneActive, ActivePcs
  <2>3. Smooth'
    BY <1>1, <2>1, SmoothMove DEF SmoothPcs
  <2>4. AtLine(s, c)'
    BY <2>1, <2>2 DEF AtLine
  <2>5. c + 0 = c /\ Len(buffer) - 0 = Len(buffer) /\ 0 \in 0..Len(buffer)
    BY <1>1
  <2>6. AtLine(s, c + 0)' /\ Takes(s, c, 0)
    BY <2>1, <2>4, <2>5 DEF Takes
  <2> QED
    BY <1>2, <2>3, <2>5, <2>6
<1>4. CASE ~RunNext(t)
  <2>1. ~ReadFails(t) /\ ~Throw(t) /\ ~WriteFails(t) /\ ~BodyHangs(t)
    BY <1>1 DEF Undisturbed, ReadFails, Throw, WriteFails, BodyHangs, SmoothPcs
  <2>2. /\ UNCHANGED requestVars /\ socket' = socket
        /\ \E where \in {"handler", "status", "next", "headers", "body"} : Goto(t, where)
    <3>1. CASE ReadBody(t)
      BY <3>1, NothingDeclared DEF ReadBody
    <3>2. CASE Respond(t) \/ Pass(t) \/ StatusWritten(t) \/ HeadersWritten(t) \/ BodyClosed(t)
      BY <3>2 DEF Respond, Pass, StatusWritten, HeadersWritten, BodyClosed
    <3> QED
      BY <1>4, <2>1, <3>1, <3>2 DEF TaskStep
  <2>3. UNCHANGED <<state, buffer, headers>>
    BY <2>2 DEF requestVars
  <2>4. Smooth'
    BY <1>1, <2>2, <2>3, SmoothMove DEF SmoothPcs
  <2> QED
    BY <1>1, <1>2, <2>3, <2>4, AtLineKept
<1> QED
  BY <1>3, <1>4

(* Where only well-formed requests come no line is rejected. *)
LEMMA SurviveStep ==
  ASSUME Undisturbed, SurviveInv, [Next]_vars
  PROVE  Smooth' /\ LineInv'
<1>1. IInv /\ Smooth
  BY DEF SurviveInv
<1>2. PICK s \in Streams : \E cut : Cuts(cut) /\ Placed(s, cut) /\ AtLine(s, cut[0])
  BY DEF SurviveInv, LineInv
<1>3. PICK cut : Cuts(cut) /\ Placed(s, cut) /\ AtLine(s, cut[0])
  BY <1>2
<1>4. PICK c \in Nat : c = cut[0]
  BY <1>3 DEF Cuts
<1>5. Piece(buffer, s, c) /\ AtLine(s, c) /\ WellFormed(s)
  BY <1>3, <1>4 DEF Placed, Undisturbed
<1>6. Len(s) \in Nat /\ InputTypes
  BY <1>1, StreamFacts, InputTypesHold
<1>7. ASSUME Smooth', UNCHANGED <<writable, net>>,
             \E n \in 0..Len(buffer) : Takes(s, c, n) /\ AtLine(s, c + n)'
      PROVE  Smooth' /\ LineInv'
  <2>1. PICK n \in 0..Len(buffer) : Takes(s, c, n) /\ AtLine(s, c + n)'
    BY <1>7
  <2>2. PICK new : Cuts(new) /\ Placed(s, new)' /\ new[0] = cut[0] + n
    BY <1>3, <1>4, <1>6, <1>7, <2>1, PlacedReads
  <2>3. PICK m : m = c + n
    OBVIOUS
  <2>4. AtLine(s, m)' /\ new[0] = m
    BY <1>4, <2>1, <2>2, <2>3
  <2>5. AtLine(s, new[0])'
    BY <2>4
  <2> QED
    BY <1>7, <2>2, <2>5 DEF LineInv
<1>8. ASSUME UNCHANGED <<state, headers>>,
             \E new : Cuts(new) /\ Placed(s, new)' /\ new[0] = cut[0]
      PROVE  LineInv'
  <2>1. PICK new : Cuts(new) /\ Placed(s, new)' /\ new[0] = cut[0]
    BY <1>8
  <2>2. AtLine(s, c)' /\ new[0] = c
    BY <1>4, <1>5, <1>8, <2>1 DEF AtLine
  <2>3. AtLine(s, new[0])'
    BY <2>2
  <2> QED
    BY <2>1, <2>3 DEF LineInv
<1>9. CASE (\E k \in 1..Len(net) : Deliver(k)) \/ Drain
  <2>1. UNCHANGED <<state, headers, socket>> /\ (pc' = pc \/ Goto(0, "parsing"))
    BY <1>9 DEF Deliver, Drain, Write, requestVars
  <2>2. LineInv'
    BY <1>1, <1>3, <1>6, <1>8, <1>9, <2>1, PlacedMoves
  <2>3. CASE pc' = pc
    BY <1>1, <2>1, <2>2, <2>3 DEF Smooth, Open
  <2>4. CASE Goto(0, "parsing")
    <3>1. 0 \in Threads /\ state' # "BODY"
      BY <1>1, <2>1, ThreadsAre DEF Smooth
    <3> QED
      BY <1>1, <2>1, <2>2, <2>4, <3>1, SmoothMove
  <2> QED
    BY <2>1, <2>3, <2>4
<1>10. CASE ParserStep
  BY <1>1, <1>5, <1>7, <1>10, ParserSurvives
<1>11. CASE \E t \in Tasks : TaskStep(t)
  BY <1>1, <1>5, <1>7, <1>11, TaskSurvives
<1>12. CASE \E t \in Threads : ErrorStep(t)
  <2>1. \E t \in Threads : pc[t] \in ErrorPcs
    BY <1>12 DEF ErrorStep, ErrorPageStatus, ErrorPageHeaders, ErrorPageDone, ErrorPageFails,
       ErrorPageHangs, ErrorPcs
  <2>2. \A t \in Threads : pc[t] \in SmoothPcs \cup {"idle", "parsing"}
    BY <1>1, ThreadsAre DEF Smooth
  <2> QED
    BY <2>1, <2>2 DEF ErrorPcs, SmoothPcs
<1>13. CASE PeerCloses
  BY <1>13 DEF PeerCloses, Undisturbed
<1>14. CASE UNCHANGED vars
  <2>1. UNCHANGED <<state, headers, socket, pc>> /\ UNCHANGED <<buffer, writable, net>>
    BY <1>14 DEF vars, requestVars, connectionVars
  <2>2. Placed(s, cut)'
    BY <1>3, <2>1 DEF Placed
  <2>3. LineInv'
    BY <1>3, <1>8, <2>1, <2>2
  <2> QED
    BY <1>1, <2>1, <2>3 DEF Smooth, Open
<1> QED
  BY <1>9, <1>10, <1>11, <1>12, <1>13, <1>14 DEF Next, Step

(* A peer that sends well-formed requests without bodies and stays, on      *)
(* routes that do not throw, is never cut off: however its lines are cut    *)
(* into chunks and whichever callback comes first, every line is accepted   *)
(* and no thread reaches _handleError (client-handler.ts:53-67, 163-222,    *)
(* request.ts:199-315).                                                     *)
THEOREM SurvivesCorrect ==
  ASSUME Undisturbed
  PROVE  Spec => []WellFormedSurvives
<1>1. Init => SurviveInv
  <2> SUFFICES ASSUME Init PROVE SurviveInv
    OBVIOUS
  <2>1. IInv
    BY InvInit
  <2>2. Smooth
    <3>1. \A t \in Tasks : pc[t] = "unused"
      BY ThreadsAre DEF Init
    <3>2. pc[0] = "idle" /\ Open /\ state = "REQUEST" /\ Len(headers) = 0
      BY ThreadsAre DEF Init, RequestInit, Open
    <3> QED
      BY <3>1, <3>2 DEF Smooth, SmoothPcs
  <2>3. LineInv
    <3>1. PICK s \in Streams : \E cut : Cuts(cut) /\ Placed(s, cut) /\ cut[0] = 0
      BY PlacedInit
    <3>2. AtLine(s, 0)
      BY DEF AtLine, Init, RequestInit
    <3> QED
      BY <3>1, <3>2 DEF LineInv
  <2> QED
    BY <2>1, <2>2, <2>3 DEF SurviveInv
<1>2. SurviveInv /\ [Next]_vars => SurviveInv'
  <2> SUFFICES ASSUME SurviveInv, [Next]_vars PROVE SurviveInv'
    OBVIOUS
  <2>1. IInv'
    BY InvStep DEF SurviveInv
  <2>2. Smooth' /\ LineInv'
    BY SurviveStep
  <2> QED
    BY <2>1, <2>2 DEF SurviveInv
<1>3. SurviveInv => WellFormedSurvives
  BY DEF SurviveInv, Smooth, WellFormedSurvives
<1> QED
  BY <1>1, <1>2, <1>3, PTL DEF Spec

--------------------------------------------------------------------------------
(* What is in a stretch of a stream. *)
LEMMA Stretch ==
  ASSUME NEW s \in Seq(Token), NEW i \in Nat, NEW j \in Nat, i <= j, j <= Len(s)
  PROVE  /\ SubSeq(s, i + 1, j) \in Seq(Token) /\ Len(SubSeq(s, i + 1, j)) = j - i
         /\ \A n \in 1..(j - i) : SubSeq(s, i + 1, j)[n] = s[i + n]
<1>1. i + 1 \in Int /\ j \in Int /\ \A n \in (i + 1)..j : n \in 1..Len(s) /\ s[n] \in Token
  OBVIOUS
<1>2. /\ SubSeq(s, i + 1, j) \in Seq(Token)
      /\ Len(SubSeq(s, i + 1, j)) = IF i + 1 <= j THEN j - (i + 1) + 1 ELSE 0
      /\ \A n \in 1..(j - (i + 1) + 1) : SubSeq(s, i + 1, j)[n] = s[(i + 1) + n - 1]
  BY <1>1, SubSeqProperties
<1>3. PICK r \in Seq(Token) : r = SubSeq(s, i + 1, j)
  BY <1>2
<1>4. Len(r) = j - i
  BY <1>2, <1>3
<1>5. \A n \in 1..(j - i) : n \in 1..(j - (i + 1) + 1) /\ (i + 1) + n - 1 = i + n
  OBVIOUS
<1> QED
  BY <1>2, <1>3, <1>4, <1>5

(* Sequences are equal when their elements are. *)
LEMMA SameTokens ==
  ASSUME NEW a \in Seq(Token), NEW b \in Seq(Token), Len(a) = Len(b),
         \A n \in 1..Len(b) : a[n] = b[n]
  PROVE  a = b
BY SeqEqual

(* Two stretches, the second behind the first, are one. *)
LEMMA StretchJoined ==
  ASSUME NEW s \in Seq(Token), NEW i \in Nat, NEW j \in Nat, NEW k \in Nat,
         i <= j, j <= k, k <= Len(s)
  PROVE  SubSeq(s, i + 1, j) \o SubSeq(s, j + 1, k) = SubSeq(s, i + 1, k)
<1>0. j <= Len(s) /\ i <= k /\ Len(s) \in Nat
  OBVIOUS
<1>1. PICK a \in Seq(Token) :
        a = SubSeq(s, i + 1, j) /\ Len(a) = j - i /\ \A n \in 1..(j - i) : a[n] = s[i + n]
  BY <1>0, Stretch
<1>2. PICK b \in Seq(Token) :
        b = SubSeq(s, j + 1, k) /\ Len(b) = k - j /\ \A n \in 1..(k - j) : b[n] = s[j + n]
  BY <1>0, Stretch
<1>3. PICK c \in Seq(Token) :
        c = SubSeq(s, i + 1, k) /\ Len(c) = k - i /\ \A n \in 1..(k - i) : c[n] = s[i + n]
  BY <1>0, Stretch
<1>4. PICK ab \in Seq(Token) :
        /\ ab = a \o b /\ Len(ab) = Len(a) + Len(b)
        /\ \A n \in 1..(Len(a) + Len(b)) : ab[n] = IF n <= Len(a) THEN a[n] ELSE b[n - Len(a)]
  <2>1. /\ a \o b \in Seq(Token) /\ Len(a \o b) = Len(a) + Len(b)
        /\ \A n \in 1..(Len(a) + Len(b)) :
             (a \o b)[n] = IF n <= Len(a) THEN a[n] ELSE b[n - Len(a)]
    BY ConcatProperties
  <2> QED
    BY <2>1
<1>5. Len(ab) = Len(c)
  BY <1>1, <1>2, <1>3, <1>4
<1>6. ASSUME NEW n \in 1..Len(c)
      PROVE  ab[n] = c[n]
  <2>1. n \in 1..(Len(a) + Len(b)) /\ c[n] = s[i + n]
    BY <1>3, <1>4, <1>5
  <2>2. CASE n <= j - i
    BY <1>1, <1>4, <2>1, <2>2
  <2>3. CASE ~(n <= j - i)
    <3>1. n - Len(a) \in 1..(k - j) /\ j + (n - Len(a)) = i + n
      BY <1>1, <1>3, <2>3
    <3>2. ab[n] = b[n - Len(a)]
      BY <1>1, <1>4, <2>1, <2>3
    <3> QED
      BY <1>2, <2>1, <3>1, <3>2
  <2> QED
    BY <2>2, <2>3
<1>7. ab = c
  BY <1>5, <1>6, SameTokens
<1> QED
  BY <1>1, <1>2, <1>3, <1>4, <1>7

(* A piece is what is there in the stream. *)
LEMMA PieceIs ==
  ASSUME NEW s \in Seq(Token), NEW b \in Seq(Token), NEW c \in Nat, NEW d \in Nat,
         Piece(b, s, c), d = c + Len(b)
  PROVE  b = SubSeq(s, c + 1, d)
<1>1. d <= Len(s) /\ \A k \in 1..Len(b) : b[k] = s[c + k]
  BY DEF Piece
<1>2. c <= d /\ d - c = Len(b)
  OBVIOUS
<1>3. PICK a \in Seq(Token) :
        a = SubSeq(s, c + 1, d) /\ Len(a) = d - c /\ \A n \in 1..(d - c) : a[n] = s[c + n]
  BY <1>1, <1>2, Stretch
<1>4. a = b
  BY <1>1, <1>2, <1>3, SameTokens
<1> QED
  BY <1>3, <1>4

(* Positions that never go down from one to the next are all behind the     *)
(* first.                                                                   *)
LEMMA CutsAscend ==
  ASSUME NEW n \in Nat, NEW cut, \A i \in 0..n : cut[i + 1] \in Nat,
         \A i \in 1..n : cut[i] <= cut[i + 1]
  PROVE  \A i \in 0..n : cut[1] <= cut[i + 1]
<1> SUFFICES ASSUME NEW S, S = {i \in 0..n : ~(cut[1] <= cut[i + 1])}, S # {}
             PROVE  FALSE
  OBVIOUS
<1>1. PICK i \in S : \A j \in S : i <= j
  <2>1. S \subseteq Nat
    OBVIOUS
  <2> QED
    BY <2>1, LeastElement
<1>2. i \in 0..n /\ ~(cut[1] <= cut[i + 1])
  OBVIOUS
<1>3. i # 0
  <2>1. cut[0 + 1] \in Nat /\ 0 + 1 = 1
    OBVIOUS
  <2> QED
    BY <1>2, <2>1
<1>4. PICK h \in 0..n : h = i - 1 /\ h + 1 = i
  BY <1>2, <1>3
<1>5. h \notin S
  BY <1>1, <1>2, <1>4
<1>6. cut[1] <= cut[h + 1]
  BY <1>5
<1>7. PICK x \in Nat, y \in Nat, z \in Nat : x = cut[1] /\ y = cut[i] /\ z = cut[i + 1]
  <2>1. cut[0 + 1] \in Nat /\ 0 + 1 = 1 /\ cut[h + 1] \in Nat /\ cut[i + 1] \in Nat
    BY <1>2
  <2> QED
    BY <1>4, <2>1
<1>8. x <= y /\ y <= z
  BY <1>2, <1>3, <1>4, <1>6, <1>7
<1> QED
  BY <1>2, <1>7, <1>8

(* Chunks that are one behind the other in a stream are, joined, the        *)
(* stretch from where the first begins to where the last ends.              *)
LEMMA ChunksJoined ==
  ASSUME NEW s \in Seq(Token), NEW w \in Seq(Seq(Token)), NEW cut,
         \A i \in 0..Len(w) : cut[i + 1] \in Nat,
         \A i \in 1..Len(w) :
           /\ cut[i] <= cut[i + 1] /\ cut[i + 1] <= Len(s)
           /\ w[i] = SubSeq(s, cut[i] + 1, cut[i + 1])
  PROVE  FlattenSeq(w) = SubSeq(s, cut[1] + 1, cut[Len(w) + 1])
<1>1. PICK n \in Nat : n = Len(w)
  OBVIOUS
<1>2. \A i \in 0..n : cut[1] <= cut[i + 1]
  BY <1>1, CutsAscend
<1> DEFINE Joined == [i \in 1..n |-> SubSeq(s, cut[1] + 1, cut[i + 1])]
           Rule(f) == f = [i \in 1..n |-> IF i = 1 THEN w[i] ELSE f[i - 1] \o w[i]]
<1>3. ASSUME NEW i \in 1..n, i # 1
      PROVE  SubSeq(s, cut[1] + 1, cut[i + 1]) = SubSeq(s, cut[1] + 1, cut[i]) \o w[i]
  <2>1. PICK h \in 0..n : h + 1 = i
    BY <1>3
  <2>2. PICK x \in Nat, y \in Nat, z \in Nat : x = cut[1] /\ y = cut[i] /\ z = cut[i + 1]
    <3>1. cut[0 + 1] \in Nat /\ 0 + 1 = 1 /\ cut[h + 1] \in Nat /\ cut[i + 1] \in Nat
      BY <1>1
    <3> QED
      BY <2>1, <3>1
  <2>3. x <= y
    BY <1>2, <2>1, <2>2
  <2>4. y <= z /\ z <= Len(s) /\ w[i] = SubSeq(s, y + 1, z)
    BY <1>1, <2>2
  <2>5. SubSeq(s, x + 1, y) \o SubSeq(s, y + 1, z) = SubSeq(s, x + 1, z)
    BY <2>3, <2>4, StretchJoined
  <2> QED
    BY <2>2, <2>4, <2>5
<1>4. \A i \in 1..n : Joined[i] = IF i = 1 THEN w[i] ELSE Joined[i - 1] \o w[i]
  <2> SUFFICES ASSUME NEW i \in 1..n
               PROVE  Joined[i] = IF i = 1 THEN w[i] ELSE Joined[i - 1] \o w[i]
    OBVIOUS
  <2>1. Joined[i] = SubSeq(s, cut[1] + 1, cut[i + 1])
    OBVIOUS
  <2>2. CASE i = 1
    BY <1>1, <2>1, <2>2
  <2>3. CASE i # 1
    <3>1. PICK h \in 1..n : h = i - 1 /\ h + 1 = i
      BY <2>3
    <3>2. Joined[h] = SubSeq(s, cut[1] + 1, cut[h + 1])
      OBVIOUS
    <3> HIDE DEF Joined
    <3> QED
      BY <1>3, <2>1, <2>3, <3>1, <3>2
  <2> QED
    BY <2>2, <2>3
<1>5. Rule(Joined)
  <2>1. Joined = [i \in 1..n |-> Joined[i]]
    OBVIOUS
  <2> HIDE DEF Joined
  <2> QED
    BY <1>4, <2>1
<1> HIDE DEF Joined
<1>6. ASSUME NEW f, Rule(f)
      PROVE  f = Joined
  <2>1. \A i \in 1..n : f[i] = IF i = 1 THEN w[i] ELSE f[i - 1] \o w[i]
    BY <1>6
  <2>2. \A i \in 1..n : f[i] = Joined[i]
    <3> SUFFICES ASSUME NEW m \in 1..n, f[m] # Joined[m] PROVE FALSE
      BY Zenon
    <3> DEFINE S == {i \in 1..n : f[i] # Joined[i]}
    <3>1. PICK i \in S : \A j \in S : i <= j
      <4>1. \A i \in 1..n : i \in Nat
        OBVIOUS
      <4>2. \A i \in S : i \in 1..n
        BY Zenon
      <4>3. S \subseteq Nat
        BY <4>1, <4>2, Zenon
      <4> QED
        BY <4>3, LeastElement
    <3>2. i \in 1..n /\ f[i] # Joined[i] /\ i # 1
      BY <1>4, <2>1
    <3>3. PICK h \in 1..n : h = i - 1 /\ ~(i <= h)
      BY <3>2
    <3>4. f[h] = Joined[h]
      BY <3>1, <3>3
    <3> QED
      BY <1>4, <2>1, <3>2, <3>3, <3>4
  <2>3. f = [i \in 1..n |-> f[i]] /\ Joined = [i \in 1..n |-> Joined[i]]
    BY <1>5, <1>6
  <2> QED
    BY <2>2, <2>3
<1>7. CASE n = 0
  <2>1. FlattenSeq(w) = <<>>
    <3>1. w = <<>> /\ Len(w) = 0
      <4>1. w \in Seq(Seq(Token)) /\ Len(w) = 0
        BY <1>1, <1>7
      <4>2. w # <<>> => Len(w) \in Nat \ {0}
        BY <4>1, EmptySeq
      <4> QED
        BY <4>1, <4>2
    <3>2. FlattenSeq(w) = w
      BY <3>1 DEF FlattenSeq
    <3> QED
      BY <3>1, <3>2
  <2>2. PICK x \in Nat : x = cut[1]
    <3>1. cut[0 + 1] \in Nat /\ 0 + 1 = 1
      BY <1>1
    <3> QED
      BY <3>1
  <2>3. SubSeq(s, x + 1, x) = <<>>
    BY SubSeqEmpty
  <2> QED
    BY <1>1, <1>7, <2>1, <2>2, <2>3
<1>8. CASE n # 0
  <2>1. FlattenSeq(w) = (CHOOSE f : Rule(f))[n]
    BY <1>1, <1>8 DEF FlattenSeq
  <2>2. Joined[n] = SubSeq(s, cut[1] + 1, cut[n + 1])
    <3>1. n \in 1..n
      BY <1>8
    <3> QED
      BY <3>1 DEF Joined
  <2> HIDE DEF Rule
  <2>3. Rule(CHOOSE f : Rule(f))
    BY <1>5
  <2>4. (CHOOSE f : Rule(f)) = Joined
    BY <1>6, <2>3
  <2> QED
    BY <1>1, <2>1, <2>2, <2>4
<1> QED
  BY <1>7, <1>8

(* What is pending, wherever it waits, is the rest of the stream. *)
LEMMA RestOfStream ==
  ASSUME NEW s \in Seq(Token), NEW cut, Cuts(cut),
         NEW b \in Seq(Token), NEW w \in Seq(Seq(Token)), NEW rest \in Seq(Token),
         Piece(b, s, cut[0]), cut[1] = cut[0] + Len(b),
         \A i \in 1..Len(w) : Piece(w[i], s, cut[i]) /\ cut[i + 1] = cut[i] + Len(w[i]),
         Piece(rest, s, cut[Len(w) + 1]), Len(s) = cut[Len(w) + 1] + Len(rest)
  PROVE  b \o FlattenSeq(w) \o rest = SubSeq(s, cut[0] + 1, Len(s)) /\ cut[0] <= Len(s)
<1>1. PICK n \in Nat : n = Len(w)
  OBVIOUS
<1>2. \A i \in 0..n : i \in Nat /\ i + 1 \in Nat /\ cut[i] \in Nat /\ cut[i + 1] \in Nat
  BY DEF Cuts
<1>3. ASSUME NEW i \in 1..n
      PROVE  /\ cut[i] <= cut[i + 1] /\ cut[i + 1] <= Len(s)
             /\ w[i] = SubSeq(s, cut[i] + 1, cut[i + 1])
  <2>1. PICK x \in Seq(Token), c \in Nat, d \in Nat : x = w[i] /\ c = cut[i] /\ d = cut[i + 1]
    <3>1. i \in 0..n /\ w[i] \in Seq(Token)
      BY <1>1
    <3> QED
      BY <1>2, <3>1
  <2>2. Piece(x, s, c) /\ d = c + Len(x)
    BY <1>1, <2>1
  <2>3. x = SubSeq(s, c + 1, d)
    BY <2>2, PieceIs
  <2>4. c <= d /\ d <= Len(s)
    BY <2>2 DEF Piece
  <2> QED
    BY <2>1, <2>3, <2>4
<1>4. FlattenSeq(w) = SubSeq(s, cut[1] + 1, cut[n + 1])
  BY <1>1, <1>2, <1>3, ChunksJoined
<1>5. \A i \in 0..n : cut[1] <= cut[i + 1]
  BY <1>2, <1>3, CutsAscend
<1>6. PICK c \in Nat, d \in Nat, e \in Nat, l \in Nat :
        c = cut[0] /\ d = cut[1] /\ e = cut[n + 1] /\ l = Len(s)
  <2>1. 0 \in 0..n /\ n \in 0..n /\ 0 + 1 = 1 /\ Len(s) \in Nat
    OBVIOUS
  <2> QED
    BY <1>2, <2>1
<1>7. d = c + Len(b) /\ d <= e /\ l = e + Len(rest)
  BY <1>1, <1>5, <1>6
<1>8. c <= d /\ d <= e /\ c <= e /\ e <= l /\ l <= l /\ c <= l
  BY <1>7
<1>9. b = SubSeq(s, c + 1, d)
  <2>1. Piece(b, s, c)
    BY <1>6
  <2> QED
    BY <1>7, <2>1, PieceIs
<1>10. rest = SubSeq(s, e + 1, l)
  <2>1. Piece(rest, s, e)
    BY <1>1, <1>6
  <2> QED
    BY <1>7, <2>1, PieceIs
<1>11. SubSeq(s, c + 1, d) \o SubSeq(s, d + 1, e) = SubSeq(s, c + 1, e)
  <2>1. e <= Len(s)
    BY <1>6, <1>8
  <2> QED
    BY <1>8, <2>1, StretchJoined
<1>12. SubSeq(s, c + 1, e) \o SubSeq(s, e + 1, l) = SubSeq(s, c + 1, l)
  <2>1. l <= Len(s)
    BY <1>6
  <2> QED
    BY <1>8, <2>1, StretchJoined
<1> QED
  BY <1>1, <1>4, <1>6, <1>8, <1>9, <1>10, <1>11, <1>12

(* Every step leaves the stream and takes from its front.                   *)
LEMMA InputAdvances ==
  ASSUME DataInv, [Next]_vars
  PROVE  \E s \in Streams : \E cut, new :
           /\ Cuts(cut) /\ Placed(s, cut) /\ Cuts(new) /\ Placed(s, new)' /\ cut[0] <= new[0]
<1>1. IInv /\ TaskData /\ DispatchInOrder /\ InputInv
  BY DEF DataInv
<1>2. PICK s \in Streams : \E cut : Cuts(cut) /\ Placed(s, cut) /\ ReadInv(s, cut[0])
  BY <1>1 DEF InputInv
<1>3. PICK cut : Cuts(cut) /\ Placed(s, cut) /\ ReadInv(s, cut[0])
  BY <1>2
<1>4. PICK c \in Nat : c = cut[0]
  BY <1>3 DEF Cuts
<1>5. Piece(buffer, s, c) /\ ReadInv(s, c)
  BY <1>3, <1>4 DEF Placed
<1>6. Len(s) \in Nat /\ InputTypes
  BY <1>1, StreamFacts, InputTypesHold
<1>7. ASSUME NEW n \in 0..Len(buffer), Takes(s, c, n), UNCHANGED <<writable, net>>
      PROVE  \E new : Cuts(new) /\ Placed(s, new)' /\ cut[0] <= new[0]
  <2>1. PICK new : Cuts(new) /\ Placed(s, new)' /\ new[0] = cut[0] + n
    BY <1>3, <1>4, <1>6, <1>7, PlacedReads, Zenon
  <2>2. cut[0] <= new[0]
    <3>1. new[0] = c + n /\ cut[0] = c
      BY <1>4, <2>1
    <3>2. n \in Nat
      BY <1>6 DEF InputTypes
    <3>3. c <= c + n
      BY <3>2
    <3> QED
      BY <3>1, <3>3
  <2> QED
    BY <2>1, <2>2, Zenon
<1>8. ASSUME (\E k \in 1..Len(net) : Deliver(k)) \/ Drain
      PROVE  \E new : Cuts(new) /\ Placed(s, new)' /\ cut[0] <= new[0]
  <2>1. PICK new : Cuts(new) /\ Placed(s, new)' /\ new[0] = cut[0]
    BY <1>3, <1>6, <1>8, PlacedMoves
  <2>2. cut[0] <= new[0]
    <3>1. new[0] = c /\ c <= c
      BY <1>4, <2>1
    <3> QED
      BY <1>4, <3>1
  <2> QED
    BY <2>1, <2>2, Zenon
<1>9. ASSUME ParserStep
      PROVE  \E new : Cuts(new) /\ Placed(s, new)' /\ cut[0] <= new[0]
  <2>1. PICK n \in 0..Len(buffer) : Takes(s, c, n)
    BY <1>1, <1>5, <1>9, InputParser
  <2>2. UNCHANGED <<writable, net>>
    BY <1>1, <1>5, <1>9, InputParser
  <2> QED
    BY <1>7, <2>1, <2>2, Zenon
<1>10. ASSUME \E t \in Tasks : TaskStep(t)
       PROVE  \E new : Cuts(new) /\ Placed(s, new)' /\ cut[0] <= new[0]
  <2>1. PICK n \in 0..Len(buffer) : Takes(s, c, n)
    BY <1>1, <1>5, <1>10, InputTask
  <2>2. UNCHANGED <<writable, net>>
    BY <1>1, <1>5, <1>10, InputTask
  <2> QED
    BY <1>7, <2>1, <2>2, Zenon
<1>11. ASSUME (\E t \in Threads : ErrorStep(t)) \/ PeerCloses \/ UNCHANGED vars
       PROVE  \E new : Cuts(new) /\ Placed(s, new)' /\ cut[0] <= new[0]
  <2>1. UNCHANGED <<buffer, writable, net>>
    BY <1>11 DEF ErrorStep, ErrorPageStatus, ErrorPageHeaders, ErrorPageDone, ErrorPageFails,
       ErrorPageHangs, PeerCloses, vars, requestVars, connectionVars
  <2>2. Placed(s, cut)'
    BY <1>3, <2>1 DEF Placed
  <2>3. cut[0] <= cut[0]
    BY <1>4
  <2> QED
    BY <1>3, <2>2, <2>3, Zenon
<1>12. \/ (\E k \in 1..Len(net) : Deliver(k)) \/ Drain
       \/ ParserStep
       \/ \E t \in Tasks : TaskStep(t)
       \/ (\E t \in Threads : ErrorStep(t)) \/ PeerCloses \/ UNCHANGED vars
  BY Zenon DEF Next, Step
<1>13. \E new : Cuts(new) /\ Placed(s, new)' /\ cut[0] <= new[0]
  BY <1>8, <1>9, <1>10, <1>11, <1>12, Zenon
<1> QED
  BY <1>3, <1>13, Zenon

(* Whatever is sent and however it is cut, no step repeats, loses or        *)
(* reorders input: it takes from the front of what is pending               *)
(* (client-handler.ts:53-67, request.ts:199-215, 329-334, 390-391).         *)
THEOREM InputInOrderCorrect == Spec => InputInOrder
<1> DEFINE Ordered == \E k \in 0..Len(Pending) : Pending' = SubSeq(Pending, k + 1, Len(Pending))
<1>1. DataInv /\ DataInv' /\ [Next]_vars => [Ordered]_vars
  <2> SUFFICES ASSUME DataInv, DataInv', [Next]_vars PROVE Ordered
    OBVIOUS
  <2>1. PICK s \in Streams : \E cut, new :
          /\ Cuts(cut) /\ Placed(s, cut) /\ Cuts(new) /\ Placed(s, new)' /\ cut[0] <= new[0]
    BY InputAdvances
  <2>2. PICK cut, new :
          /\ Cuts(cut) /\ Placed(s, cut) /\ Cuts(new) /\ Placed(s, new)' /\ cut[0] <= new[0]
    BY <2>1
  <2>3. s \in Seq(Token)
    BY StreamFacts
  <2>4. InputTypes /\ InputTypes'
    <3>1. IInv /\ IInv'
      BY DEF DataInv
    <3> QED
      BY <3>1, InputTypesHold DEF InputTypes, IInv, TypeOK, RequestTypeOK
  <2>5. Pending = SubSeq(s, cut[0] + 1, Len(s)) /\ cut[0] <= Len(s) /\ cut[0] \in Nat
    BY <2>2, <2>3, <2>4, RestOfStream DEF Pending, Placed, InputTypes, Cuts
  <2>6. Pending' = SubSeq(s, new[0] + 1, Len(s)) /\ new[0] <= Len(s) /\ new[0] \in Nat
    BY <2>2, <2>3, <2>4, RestOfStream DEF Pending, Placed, InputTypes, Cuts
  <2>7. PICK c \in Nat, d \in Nat, l \in Nat : c = cut[0] /\ d = new[0] /\ l = Len(s)
    BY <2>3, <2>5, <2>6
  <2>8. c <= d /\ d <= l /\ c <= l /\ l <= Len(s)
    BY <2>2, <2>5, <2>6, <2>7
  <2>9. PICK p \in Seq(Token) :
          p = Pending /\ Len(p) = l - c /\ \A i \in 1..(l - c) : p[i] = s[c + i]
    <3>1. /\ SubSeq(s, c + 1, l) \in Seq(Token) /\ Len(SubSeq(s, c + 1, l)) = l - c
          /\ \A n \in 1..(l - c) : SubSeq(s, c + 1, l)[n] = s[c + n]
      BY <2>3, <2>8, Stretch
    <3>2. Pending = SubSeq(s, c + 1, l)
      BY <2>5, <2>7
    <3> QED
      BY <3>1, <3>2
  <2>10. PICK q \in Seq(Token) :
           q = Pending' /\ Len(q) = l - d /\ \A i \in 1..(l - d) : q[i] = s[d + i]
    <3>1. /\ SubSeq(s, d + 1, l) \in Seq(Token) /\ Len(SubSeq(s, d + 1, l)) = l - d
          /\ \A n \in 1..(l - d) : SubSeq(s, d + 1, l)[n] = s[d + n]
      BY <2>3, <2>8, Stretch
    <3>2. Pending' = SubSeq(s, d + 1, l)
      BY <2>6, <2>7
    <3> QED
      BY <3>1, <3>2
  <2>11. PICK k \in 0..Len(p) : k = d - c
    BY <2>8, <2>9
  <2>12. PICK r \in Seq(Token) :
           /\ r = SubSeq(p, k + 1, Len(p)) /\ Len(r) = Len(p) - k
           /\ \A i \in 1..(Len(p) - k) : r[i] = p[k + i]
    <3>1. k \in Nat /\ Len(p) \in Nat /\ k <= Len(p) /\ Len(p) <= Len(p)
      OBVIOUS
    <3> QED
      BY <3>1, Stretch
  <2>13. Len(p) = l - c /\ Len(q) = l - d /\ k = d - c /\ Len(r) = Len(p) - k
    BY <2>9, <2>10, <2>11, <2>12
  <2>14. Len(q) = Len(r)
    BY <2>8, <2>13
  <2>15. ASSUME NEW i \in 1..Len(r)
         PROVE  q[i] = r[i]
    <3>1. i \in 1..(l - d) /\ i \in 1..(Len(p) - k) /\ k + i \in 1..(l - c) /\ c + (k + i) = d + i
      BY <2>8, <2>13
    <3>2. q[i] = s[d + i] /\ r[i] = p[k + i] /\ p[k + i] = s[c + (k + i)]
      BY <2>9, <2>10, <2>12, <3>1
    <3> QED
      BY <3>1, <3>2
  <2>16. q = r
    BY <2>14, <2>15, SameTokens
  <2> QED
    BY <2>9, <2>10, <2>12, <2>16
<1> HIDE DEF Ordered
<1>2. Init => DataInv
  BY DataInit
<1>3. Spec => [][Ordered]_vars
  BY <1>1, <1>2, DataStep, PTL DEF Spec
<1> QED
  BY <1>3 DEF InputInOrder, Ordered
================================================================================
