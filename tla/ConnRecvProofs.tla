--------------------------- MODULE ConnRecvProofs ----------------------------
(***************************************************************************)
(* Proofs about ConnRecv, for any sizes of the buffer, of messages and of  *)
(* reads.  The invariant has the client's stream (Tiled: its messages lie  *)
(* one behind the other and leave no place out) and what OnRead makes of   *)
(* it (Parsed: the buffer is the end of what was read, and parseBuff       *)
(* stands where a message begins).                                         *)
(***************************************************************************)
EXTENDS ConnRecv, SequenceTheorems, TLAPS

(* The place where message k begins, or the next one will. *)
Begins(k) == IF k = Len(sent) + 1 THEN written + 1 ELSE sent[k].at

Tiled ==
    /\ \A k \in 1..Len(sent) : Begins(k + 1) = EndOf(sent[k]) + 1 /\ EndOf(sent[k]) =< written
    /\ \A i, j \in 1..Len(sent) : i < j => EndOf(sent[i]) < sent[j].at
    /\ \A p \in 1..written : \E m \in 1..Len(sent) : p \in sent[m].at..EndOf(sent[m])

(* The place of the next int for parseBuff. *)
NextPlace == taken - Len(m_NetBuffer) + (IF pc = "parse" THEN m_ReadOffset ELSE 0) + 1

Contiguous == \A i \in 1..Len(m_NetBuffer) : m_NetBuffer[i] = taken - Len(m_NetBuffer) + i

Aligned == pc \in {"pass", "parse"} => Begins(Len(dealt) + 1) = NextPlace

Dealt == /\ Len(dealt) =< Len(sent)
         /\ \A i \in 1..Len(dealt) : dealt[i] = Places(sent[i])

(* Once a part of a message was dropped, nothing is promised of the rest.   *)
Parsed == torn \/ (Dealt /\ Contiguous /\ Aligned)

IInv == TypeOK /\ Tiled /\ Parsed

-----------------------------------------------------------------------------
(* Sequences.                                                              *)

LEMMA FromFields ==
    ASSUME NEW S, NEW s \in Seq(S), NEW n \in 0..Len(s)
    PROVE  /\ From(s, n) \in Seq(S) /\ Len(From(s, n)) = Len(s) - n
           /\ \A i \in 1..(Len(s) - n) : From(s, n)[i] = s[n + i]
<1>1. Len(s) \in Nat /\ n \in Nat /\ \A i \in (n + 1)..Len(s) : s[i] \in S
    OBVIOUS
<1>2. /\ SubSeq(s, n + 1, Len(s)) \in Seq(S)
      /\ Len(SubSeq(s, n + 1, Len(s)))
             = IF n + 1 <= Len(s) THEN Len(s) - (n + 1) + 1 ELSE 0
      /\ \A i \in 1..(Len(s) - (n + 1) + 1) : SubSeq(s, n + 1, Len(s))[i] = s[n + 1 + i - 1]
  <2>1. n + 1 \in Int /\ Len(s) \in Int
      BY <1>1
  <2> QED
      BY <1>1, <2>1, SubSeqProperties
<1>3. Len(SubSeq(s, n + 1, Len(s))) = Len(s) - n
    BY <1>1, <1>2
<1>4. \A i \in 1..(Len(s) - n) : SubSeq(s, n + 1, Len(s))[i] = s[n + i]
    BY <1>1, <1>2
<1> QED
    BY <1>2, <1>3, <1>4 DEF From

LEMMA ConcatFields ==
    ASSUME NEW S, NEW s \in Seq(S), NEW t \in Seq(S)
    PROVE  /\ s \o t \in Seq(S) /\ Len(s \o t) = Len(s) + Len(t)
           /\ \A i \in 1..Len(s) : (s \o t)[i] = s[i]
           /\ \A i \in 1..Len(t) : (s \o t)[Len(s) + i] = t[i]
<1>1. /\ Len(s) \in Nat /\ Len(t) \in Nat
      /\ s \o t \in Seq(S) /\ Len(s \o t) = Len(s) + Len(t)
    BY ConcatProperties, LenProperties
<1>2. \A i \in 1..(Len(s) + Len(t)) :
          (s \o t)[i] = IF i <= Len(s) THEN s[i] ELSE t[i - Len(s)]
    BY ConcatProperties
<1>3. ASSUME NEW i \in 1..Len(s) PROVE (s \o t)[i] = s[i]
    BY <1>1, <1>2
<1>4. ASSUME NEW i \in 1..Len(t) PROVE (s \o t)[Len(s) + i] = t[i]
  <2>1. Len(s) + i \in 1..(Len(s) + Len(t)) /\ ~(Len(s) + i <= Len(s))
        /\ Len(s) + i - Len(s) = i
      BY <1>1
  <2> QED
      BY <2>1, <1>2
<1> QED
    BY <1>1, <1>3, <1>4

LEMMA PartFields ==
    ASSUME NEW S, NEW s \in Seq(S), NEW a \in Nat, NEW b \in Nat, a + b =< Len(s)
    PROVE  /\ SubSeq(s, a + 1, a + b) \in Seq(S) /\ Len(SubSeq(s, a + 1, a + b)) = b
           /\ \A i \in 1..b : SubSeq(s, a + 1, a + b)[i] = s[a + i]
<1> DEFINE m == a + 1
           e == a + b
           t == SubSeq(s, m, e)
<1>1. m \in Int /\ e \in Int /\ e - m + 1 = b /\ (m =< e <=> b # 0)
      /\ \A i \in 1..b : m + i - 1 = a + i
    OBVIOUS
<1>2. \A i \in m..e : s[i] \in S
  <2>1. \A i \in m..e : i \in 1..Len(s)
      OBVIOUS
  <2> QED
      BY <2>1, ElementOfSeq
<1> HIDE DEF m, e
<1>3. /\ t \in Seq(S) /\ Len(t) = (IF m =< e THEN e - m + 1 ELSE 0)
      /\ \A i \in 1..(e - m + 1) : t[i] = s[m + i - 1]
    BY <1>1, <1>2, SubSeqProperties
<1> HIDE DEF t
<1>4. Len(t) = b /\ \A i \in 1..b : t[i] = s[a + i]
    BY <1>1, <1>3
<1> QED
    BY <1>3, <1>4 DEF t, m, e

(* More places are read: what was typed stays typed. *)
LEMMA MorePlaces ==
    ASSUME NEW a \in Nat, NEW b \in Nat, a =< b
    PROVE  Seq(1..a) \subseteq Seq(1..b) /\ Seq(Seq(1..a)) \subseteq Seq(Seq(1..b))
<1>1. 1..a \subseteq 1..b
    OBVIOUS
<1>2. Seq(1..a) \subseteq Seq(1..b)
    BY <1>1, SeqMonotonic
<1>3. Seq(Seq(1..a)) \subseteq Seq(Seq(1..b))
    BY <1>2, SeqMonotonic
<1> QED
    BY <1>2, <1>3

LEMMA Types ==
    ASSUME TypeOK
    PROVE  /\ written \in Nat /\ arrived \in Nat /\ taken \in Nat
           /\ arrived =< written /\ taken =< arrived
           /\ m_NetBuffer \in Seq(1..taken) /\ Len(m_NetBuffer) \in Nat
           /\ Len(m_NetBuffer) =< RECV_BUFFER_SIZE
           /\ RECV_BUFFER_SIZE \in Nat /\ m_ReadOffset \in Nat /\ HEAD = 2
           /\ sent \in Seq(Msg) /\ Len(sent) \in Nat
           /\ dealt \in Seq(Seq(1..taken)) /\ Len(dealt) \in Nat
           /\ \A k \in 1..Len(sent) : /\ sent[k] \in Msg /\ sent[k].at \in Nat
                                      /\ sent[k].size \in Nat /\ sent[k].msgid \in Nat
                                      /\ sent[k].body \in Nat /\ EndOf(sent[k]) \in Int
<1>1. \A m \in Msg : m.at \in Nat /\ m.size \in Nat /\ m.msgid \in Nat /\ m.body \in Nat
    BY ConnRecvAssumption DEF Msg
<1>2. sent \in Seq(Msg)
    BY DEF TypeOK
<1>3. \A k \in 1..Len(sent) : sent[k] \in Msg
    BY <1>2, ElementOfSeq
<1>4. \A k \in 1..Len(sent) : EndOf(sent[k]) \in Int
    BY <1>1, <1>3 DEF EndOf, HEAD
<1> QED
    BY <1>1, <1>2, <1>3, <1>4, ConnRecvAssumption DEF TypeOK, HEAD

-----------------------------------------------------------------------------
(* What parseBuff finds at a place.                                        *)

(* A place belongs to one message. *)
LEMMA MessageIs ==
    ASSUME TypeOK, Tiled, NEW k \in 1..Len(sent), NEW p \in Int,
           sent[k].at =< p, p =< EndOf(sent[k])
    PROVE  Message(p) = k
<1>1. /\ Len(sent) \in Nat /\ DOMAIN sent = 1..Len(sent)
      /\ \A i \in 1..Len(sent) : sent[i].at \in Nat /\ EndOf(sent[i]) \in Int
    BY Types DEF TypeOK
<1>2. ASSUME NEW m \in 1..Len(sent), p \in sent[m].at..EndOf(sent[m])
      PROVE  m = k
  <2>1. ~(m < k)
      BY <1>1, <1>2 DEF Tiled
  <2>2. ~(k < m)
      BY <1>1, <1>2 DEF Tiled
  <2> QED
      BY <1>1, <2>1, <2>2
<1>3. p \in sent[k].at..EndOf(sent[k])
    BY <1>1
<1> QED
    BY <1>1, <1>2, <1>3 DEF Message

LEMMA IntIsNat ==
    ASSUME TypeOK, Tiled, NEW p \in 1..taken
    PROVE  IntAt(p) \in Nat
<1>1. p \in 1..written /\ DOMAIN sent = 1..Len(sent)
    BY Types DEF TypeOK
<1>2. Message(p) \in 1..Len(sent)
  <2>1. \E m \in DOMAIN sent : p \in sent[m].at..EndOf(sent[m])
      BY <1>1 DEF Tiled
  <2> QED
      BY <1>1, <2>1 DEF Message
<1> QED
    BY <1>2, Types DEF IntAt

(* With a header in the buffer, its size is a number. *)
LEMMA SizeIsNat ==
    ASSUME TypeOK, Tiled, pc = "parse", Left >= HEAD
    PROVE  Size \in Nat /\ m_ReadOffset + 1 \in 1..Len(m_NetBuffer)
<1>1. /\ m_ReadOffset \in Nat /\ Len(m_NetBuffer) \in Nat /\ HEAD = 2
      /\ m_NetBuffer \in Seq(1..taken)
    BY Types
<1>2. m_ReadOffset + 1 \in 1..Len(m_NetBuffer)
    BY <1>1 DEF Left
<1>3. m_NetBuffer[m_ReadOffset + 1] \in 1..taken
    BY <1>1, <1>2, ElementOfSeq
<1> QED
    BY <1>2, <1>3, IntIsNat DEF Size

(* While nothing was dropped parseBuff stands at the client's next message, *)
(* and takes its size for what it is.                                       *)
LEMMA StandsAtMessage ==
    ASSUME IInv, ~torn, pc = "parse", Left >= HEAD
    PROVE  LET k == Len(dealt) + 1
           IN  /\ k \in 1..Len(sent) /\ sent[k].at = NextPlace /\ Size = sent[k].size
<1> DEFINE k == Len(dealt) + 1
<1>1. TypeOK /\ Tiled /\ Dealt /\ Contiguous /\ Aligned
    BY DEF IInv, Parsed
<1>2. /\ m_ReadOffset \in Nat /\ Len(m_NetBuffer) \in Nat /\ HEAD = 2
      /\ taken \in Nat /\ written \in Nat /\ taken =< written
      /\ Len(dealt) \in Nat /\ Len(sent) \in Nat
    BY <1>1, Types
<1>3. NextPlace = taken - Len(m_NetBuffer) + m_ReadOffset + 1 /\ Begins(k) = NextPlace
    BY <1>1 DEF NextPlace, Aligned
<1>4. NextPlace =< taken /\ NextPlace \in Int
    BY <1>2, <1>3 DEF Left
<1>5. k \in 1..Len(sent) /\ sent[k].at = NextPlace
  <2>1. k # Len(sent) + 1
      BY <1>2, <1>3, <1>4 DEF Begins
  <2> QED
      BY <1>1, <1>2, <1>3, <2>1 DEF Begins, Dealt
<1>6. m_ReadOffset + 1 \in 1..Len(m_NetBuffer)
    BY <1>1, SizeIsNat
<1>7. m_NetBuffer[m_ReadOffset + 1] = NextPlace
    BY <1>1, <1>2, <1>3, <1>6 DEF Contiguous
<1>8. Message(NextPlace) = k
  <2>1. sent[k].at \in Nat /\ sent[k].size \in Nat
      BY <1>1, <1>5, Types
  <2>2. NextPlace =< EndOf(sent[k])
      BY <1>2, <1>4, <1>5, <2>1 DEF EndOf
  <2>3. sent[k].at =< NextPlace
      BY <1>4, <1>5
  <2> QED
      BY <1>1, <1>4, <1>5, <2>2, <2>3, MessageIs
<1>9. Size = sent[k].size
    BY <1>5, <1>7, <1>8 DEF Size, IntAt
<1> QED
    BY <1>5, <1>9

-----------------------------------------------------------------------------
(* The steps of the client.                                                *)

LEMMA ClientSendsKeeps ==
    ASSUME IInv, NEW size \in Sizes, NEW id \in Ids, NEW v \in Values, ClientSends(size, id, v)
    PROVE  IInv'
<1> DEFINE new == [at |-> written + 1, size |-> size, msgid |-> id, body |-> v]
           n == Len(sent)
<1>1. /\ sent' = Append(sent, new) /\ written' = written + HEAD + size
      /\ UNCHANGED <<peer, arrived, bufVars, pc, closing, dealt, torn>>
    BY DEF ClientSends
<1>2. TypeOK /\ Tiled /\ Parsed
    BY DEF IInv
<1>3. /\ written \in Nat /\ arrived \in Nat /\ taken \in Nat /\ arrived =< written
      /\ HEAD = 2 /\ size \in Nat /\ sent \in Seq(Msg) /\ n \in Nat /\ Len(dealt) \in Nat
      /\ \A k \in 1..n : sent[k].at \in Nat /\ EndOf(sent[k]) \in Int
    BY <1>2, Types, ConnRecvAssumption
<1>4. new \in Msg /\ new.at = written + 1 /\ EndOf(new) = written + HEAD + size
  <2>1. written + 1 \in Nat
      BY <1>3
  <2>2. new \in Msg /\ new.at = written + 1 /\ new.size = size
      BY <2>1 DEF Msg
  <2> HIDE DEF new
  <2> QED
      BY <1>3, <2>2 DEF EndOf
<1> HIDE DEF new
<1>5. /\ sent' \in Seq(Msg) /\ Len(sent') = n + 1 /\ sent'[n + 1] = new
      /\ \A k \in 1..n : sent'[k] = sent[k]
    BY <1>1, <1>3, <1>4
<1>6. written' \in Nat /\ written' >= written + 2
    BY <1>1, <1>3
<1> HIDE DEF n
<1>7. TypeOK'
    BY <1>1, <1>2, <1>3, <1>5, <1>6 DEF TypeOK, bufVars
<1>8. \A k \in 1..(n + 1) : Begins(k)' = IF k = n + 1 THEN written + 1 ELSE Begins(k)
  <2> TAKE k \in 1..(n + 1)
  <2>1. CASE k = n + 1
    <3>1. k # n + 2 /\ sent'[k].at = written + 1
        BY <1>3, <1>4, <1>5, <2>1
    <3> QED
        BY <1>3, <1>5, <2>1, <3>1 DEF Begins
  <2>2. CASE k # n + 1
    <3>1. k \in 1..n /\ k # n + 2
        BY <1>3, <2>2
    <3>2. sent'[k] = sent[k]
        BY <1>5, <3>1
    <3> QED
        BY <1>3, <1>5, <2>2, <3>1, <3>2 DEF Begins, n
  <2> QED
      BY <2>1, <2>2
<1>9. Tiled'
  <2>1. ASSUME NEW k \in 1..Len(sent')
        PROVE  Begins(k + 1)' = EndOf(sent'[k]) + 1 /\ EndOf(sent'[k]) =< written'
    <3>1. CASE k = n + 1
      <4>1. Begins(k + 1)' = written' + 1
          BY <1>5, <3>1 DEF Begins
      <4> QED
          BY <1>1, <1>3, <1>4, <1>5, <3>1, <4>1
    <3>2. CASE k \in 1..n
      <4>1. /\ Begins(k + 1) = EndOf(sent[k]) + 1 /\ EndOf(sent[k]) =< written
            /\ sent'[k] = sent[k] /\ EndOf(sent[k]) \in Int
          BY <1>2, <1>3, <1>5, <3>2 DEF Tiled, n
      <4>2. Begins(k + 1)' = Begins(k + 1)
        <5>1. CASE k = n
          <6>1. Begins(k + 1) = written + 1
              BY <1>3, <5>1 DEF Begins, n
          <6>2. Begins(k + 1)' = written + 1
              BY <1>3, <1>8, <5>1
          <6> QED
              BY <6>1, <6>2
        <5>2. CASE k # n
            BY <1>3, <1>8, <3>2, <5>2
        <5> QED
            BY <5>1, <5>2
      <4> QED
          BY <1>3, <1>6, <4>1, <4>2
    <3> QED
        BY <1>3, <1>5, <3>1, <3>2
  <2>2. ASSUME NEW i \in 1..Len(sent'), NEW j \in 1..Len(sent'), i < j
        PROVE  EndOf(sent'[i]) < sent'[j].at
    <3>1. i \in 1..n /\ sent'[i] = sent[i] /\ EndOf(sent[i]) \in Int
        BY <1>3, <1>5, <2>2
    <3>2. CASE j = n + 1
      <4>1. EndOf(sent[i]) =< written
          BY <1>2, <3>1 DEF Tiled, n
      <4> QED
          BY <1>3, <1>4, <1>5, <3>1, <3>2, <4>1
    <3>3. CASE j \in 1..n
        BY <1>2, <1>5, <2>2, <3>1, <3>3 DEF Tiled, n
    <3> QED
        BY <1>3, <1>5, <3>2, <3>3
  <2>3. ASSUME NEW p \in 1..written'
        PROVE  \E m \in 1..Len(sent') : p \in sent'[m].at..EndOf(sent'[m])
    <3>1. CASE p =< written
      <4>1. PICK m \in 1..n : p \in sent[m].at..EndOf(sent[m])
          BY <1>2, <1>3, <3>1 DEF Tiled, n
      <4>2. m \in 1..(n + 1) /\ sent'[m] = sent[m]
          BY <1>3, <1>5
      <4> QED
          BY <1>5, <4>1, <4>2
    <3>2. CASE p > written
      <4>1. p \in sent'[n + 1].at..EndOf(sent'[n + 1]) /\ n + 1 \in 1..(n + 1)
          BY <1>1, <1>3, <1>4, <1>5, <3>2
      <4> QED
          BY <1>5, <4>1
    <3> QED
        BY <1>3, <1>6, <3>1, <3>2
  <2> QED
      BY <2>1, <2>2, <2>3 DEF Tiled
<1>10. Parsed'
  <2>1. torn' = torn
      BY <1>1
  <2>2. ASSUME ~torn
        PROVE  Dealt' /\ Contiguous' /\ Aligned'
    <3>1. Dealt /\ Contiguous /\ Aligned
        BY <1>2, <2>2 DEF Parsed
    <3>2. Contiguous' /\ NextPlace' = NextPlace
        BY <1>1, <3>1 DEF Contiguous, NextPlace, bufVars
    <3>3. Dealt'
      <4>1. Len(dealt) =< n /\ \A i \in 1..Len(dealt) : i \in 1..n
          BY <1>3, <3>1 DEF Dealt, n
      <4>2. Len(dealt) =< n + 1
          BY <1>3, <4>1
      <4>3. \A i \in 1..Len(dealt) : dealt[i] = Places(sent'[i])
          BY <1>5, <3>1, <4>1 DEF Dealt
      <4> QED
          BY <1>1, <1>5, <4>2, <4>3 DEF Dealt
    <3>4. Begins(Len(dealt) + 1)' = Begins(Len(dealt) + 1)
      <4>1. Len(dealt) =< n /\ Len(dealt) + 1 \in 1..(n + 1)
          BY <1>3, <3>1 DEF Dealt, n
      <4>2. Begins(Len(dealt) + 1)' = IF Len(dealt) + 1 = n + 1 THEN written + 1
                                      ELSE Begins(Len(dealt) + 1)
          BY <1>1, <1>8, <4>1
      <4>3. Begins(n + 1) = written + 1
          BY DEF Begins, n
      <4> QED
          BY <4>2, <4>3
    <3>5. Aligned'
        BY <1>1, <3>1, <3>2, <3>4 DEF Aligned
    <3> QED
        BY <3>2, <3>3, <3>5
  <2> QED
      BY <2>1, <2>2 DEF Parsed
<1> QED
    BY <1>7, <1>9, <1>10 DEF IInv

(* A step that leaves the stream and the buffer alone. *)
LEMMA SameStream ==
    ASSUME Tiled, sent' = sent, written' = written
    PROVE  Tiled' /\ \A k : Begins(k)' = Begins(k)
BY DEF Tiled, Begins

LEMMA SameParsed ==
    ASSUME IInv, sent' = sent, written' = written, taken' = taken,
           m_NetBuffer' = m_NetBuffer, m_ReadOffset' = m_ReadOffset, dealt' = dealt, torn' = torn,
           pc' = pc \/ pc' \notin {"pass", "parse"}
    PROVE  Tiled' /\ Parsed'
<1>1. Tiled' /\ \A k : Begins(k)' = Begins(k)
    BY SameStream DEF IInv
<1>2. Dealt => Dealt'
    BY DEF Dealt
<1>3. Contiguous => Contiguous'
    BY DEF Contiguous
<1>4. Aligned => Aligned'
  <2>1. Begins(Len(dealt) + 1)' = Begins(Len(dealt) + 1)
      BY <1>1
  <2> QED
      BY <2>1 DEF Aligned, NextPlace
<1> QED
    BY <1>1, <1>2, <1>3, <1>4 DEF IInv, Parsed

LEMMA NetworkKeeps ==
    ASSUME IInv, Network
    PROVE  IInv'
<1>1. TypeOK
    BY DEF IInv
<1>2. ASSUME NEW s \in Sizes, NEW id \in Ids, NEW v \in Values, ClientSends(s, id, v)
      PROVE  IInv'
    BY <1>2, ClientSendsKeeps
<1>3. ASSUME NEW n \in 1..(written - arrived), Arrives(n)
      PROVE  IInv'
  <2>1. TypeOK'
      BY <1>1, <1>3 DEF TypeOK, Arrives, bufVars
  <2>2. Tiled' /\ Parsed'
      BY <1>3, SameParsed DEF Arrives, bufVars
  <2> QED
      BY <2>1, <2>2 DEF IInv
<1>4. ASSUME NEW how \in {"fin", "rst"}, PeerEnds(how)
      PROVE  IInv'
  <2>1. TypeOK'
      BY <1>1, <1>4 DEF TypeOK, PeerEnds, bufVars
  <2>2. Tiled' /\ Parsed'
      BY <1>4, SameParsed DEF PeerEnds, bufVars
  <2> QED
      BY <2>1, <2>2 DEF IInv
<1>5. CASE EpQuits
  <2>1. TypeOK'
      BY <1>1, <1>5 DEF TypeOK, EpQuits, bufVars, streamVars
  <2>2. Tiled' /\ Parsed'
      BY <1>5, SameParsed DEF EpQuits, bufVars, streamVars
  <2> QED
      BY <2>1, <2>2 DEF IInv
<1> QED
    BY <1>2, <1>3, <1>4, <1>5 DEF Network

-----------------------------------------------------------------------------
(* OnRead: the read.                                                       *)

(* The buffer grew to buf, by what was read, and parseBuff begins.          *)
LEMMA ParsesKeeps ==
    ASSUME IInv, pc = "pass", NEW buf, NEW n \in 0..(arrived - taken), Parses(buf),
           taken' = taken + n, Len(buf) = Len(m_NetBuffer) + n,
           buf \in Seq(1..(taken + n)), Len(buf) =< RECV_BUFFER_SIZE,
           Contiguous => \A i \in 1..Len(buf) : buf[i] = taken + n - Len(buf) + i,
           m_bChkReadZero' \in BOOLEAN, closing' \in BOOLEAN
    PROVE  IInv'
<1>1. /\ m_NetBuffer' = buf /\ UNCHANGED <<peer, sent, written, arrived, dealt, torn>>
      /\ \/ buf = <<>> /\ pc' = "pass" /\ m_ReadOffset' = m_ReadOffset
         \/ pc' = "parse" /\ m_ReadOffset' = 0
    BY DEF Parses, streamVars
<1>2. TypeOK /\ Tiled /\ Parsed
    BY DEF IInv
<1>3. /\ taken \in Nat /\ arrived \in Nat /\ taken =< arrived /\ Len(m_NetBuffer) \in Nat
      /\ dealt \in Seq(Seq(1..taken)) /\ RECV_BUFFER_SIZE \in Nat
    BY <1>2, Types
<1>4. n \in Nat /\ taken' \in 0..arrived /\ Len(buf) \in Nat
    BY <1>3
<1>5. TypeOK'
  <2>1. dealt \in Seq(Seq(1..taken'))
    <3>1. taken' \in Nat /\ taken =< taken'
        BY <1>3, <1>4
    <3> QED
        BY <1>3, <3>1, MorePlaces
  <2>2. m_NetBuffer' \in Seq(1..taken') /\ Len(m_NetBuffer') =< RECV_BUFFER_SIZE
      BY <1>1
  <2>3. /\ pc' \in {"pass", "parse"} /\ m_ReadOffset' \in 0..RECV_BUFFER_SIZE
        /\ pc' = "parse" => m_ReadOffset' =< Len(m_NetBuffer')
      BY <1>1, <1>2, <1>3, <1>4 DEF TypeOK
  <2>4. /\ peer' \in {"up", "fin", "rst"} /\ sent' \in Seq(Msg)
        /\ written' \in Nat /\ arrived' \in 0..written' /\ torn' \in BOOLEAN
      BY <1>1, <1>2 DEF TypeOK
  <2> QED
      BY <1>1, <1>4, <2>1, <2>2, <2>3, <2>4 DEF TypeOK
<1>6. Tiled' /\ \A k : Begins(k)' = Begins(k)
    BY <1>1, <1>2, SameStream
<1>7. NextPlace' = NextPlace
  <2>1. NextPlace = taken - Len(m_NetBuffer) + 0 + 1
      BY DEF NextPlace
  <2>2. NextPlace' = taken' - Len(buf) + 0 + 1
      BY <1>1 DEF NextPlace
  <2> QED
      BY <1>3, <1>4, <2>1, <2>2
<1>8. Dealt => Dealt'
    BY <1>1 DEF Dealt
<1>9. Contiguous => Contiguous'
  <2>1. Contiguous' = \A i \in 1..Len(buf) : buf[i] = taken' - Len(buf) + i
      BY <1>1, Zenon DEF Contiguous
  <2>2. \A i \in 1..Len(buf) : taken' - Len(buf) + i = taken + n - Len(buf) + i
      BY <1>3, <1>4
  <2> QED
      BY <2>1, <2>2
<1>10. Aligned => Aligned'
  <2>1. Begins(Len(dealt) + 1)' = Begins(Len(dealt) + 1)
      BY <1>1, <1>6
  <2> QED
      BY <1>7, <2>1 DEF Aligned
<1>11. Parsed'
    BY <1>1, <1>2, <1>8, <1>9, <1>10 DEF Parsed
<1> QED
    BY <1>5, <1>6, <1>11 DEF IInv

LEMMA ReadDataKeeps ==
    ASSUME IInv, ReadData
    PROVE  IInv'
<1> DEFINE n == Least(Room, arrived - taken)
           new == [i \in 1..n |-> taken + i]
           buf == m_NetBuffer \o new
<1>1. /\ pc = "pass" /\ Room > 0 /\ taken < arrived /\ Parses(buf) /\ taken' = taken + n
      /\ m_bChkReadZero' = FALSE /\ closing' = closing
    BY DEF ReadData
<1>2. /\ taken \in Nat /\ arrived \in Nat /\ Len(m_NetBuffer) \in Nat /\ RECV_BUFFER_SIZE \in Nat
      /\ m_NetBuffer \in Seq(1..taken) /\ closing \in BOOLEAN
    BY Types DEF IInv, TypeOK
<1>3. n \in Nat \ {0} /\ n =< Room /\ n =< arrived - taken
    BY <1>1, <1>2 DEF Least, Room
<1> HIDE DEF n
<1>4. /\ new \in Seq(1..(taken + n)) /\ Len(new) = n
      /\ \A i \in 1..n : new[i] = taken + i
  <2>1. \A i \in 1..n : taken + i \in 1..(taken + n)
      BY <1>2, <1>3
  <2> QED
      BY <1>3, <2>1
<1> HIDE DEF new
<1>5. m_NetBuffer \in Seq(1..(taken + n))
  <2>1. taken + n \in Nat /\ taken =< taken + n
      BY <1>2, <1>3
  <2> QED
      BY <1>2, <2>1, MorePlaces
<1>6. /\ buf \in Seq(1..(taken + n)) /\ Len(buf) = Len(m_NetBuffer) + n
      /\ \A i \in 1..Len(m_NetBuffer) : buf[i] = m_NetBuffer[i]
      /\ \A i \in 1..n : buf[Len(m_NetBuffer) + i] = new[i]
  <2> HIDE DEF buf
  <2>1. /\ buf \in Seq(1..(taken + n)) /\ Len(buf) = Len(m_NetBuffer) + Len(new)
        /\ \A i \in 1..Len(m_NetBuffer) : buf[i] = m_NetBuffer[i]
        /\ \A i \in 1..Len(new) : buf[Len(m_NetBuffer) + i] = new[i]
    <3> DEFINE S == 1..(taken + n)
    <3>1. new \in Seq(S) /\ m_NetBuffer \in Seq(S)
        BY <1>4, <1>5
    <3> HIDE DEF S
    <3>2. /\ buf \in Seq(S) /\ Len(buf) = Len(m_NetBuffer) + Len(new)
          /\ \A i \in 1..Len(m_NetBuffer) : buf[i] = m_NetBuffer[i]
          /\ \A i \in 1..Len(new) : buf[Len(m_NetBuffer) + i] = new[i]
        BY <3>1, ConcatFields DEF buf
    <3> QED
        BY <3>2 DEF S
  <2> QED
      BY <1>4, <2>1
<1> HIDE DEF buf
<1>7. Len(buf) =< RECV_BUFFER_SIZE
    BY <1>2, <1>3, <1>6 DEF Room
<1>8. ASSUME Contiguous, NEW i \in 1..Len(buf)
      PROVE  buf[i] = taken + n - Len(buf) + i
  <2>1. taken + n - Len(buf) = taken - Len(m_NetBuffer)
      BY <1>2, <1>3, <1>6
  <2>2. CASE i \in 1..Len(m_NetBuffer)
      BY <1>6, <1>8, <2>1, <2>2 DEF Contiguous
  <2>3. CASE i \notin 1..Len(m_NetBuffer)
    <3>1. /\ i - Len(m_NetBuffer) \in 1..n /\ Len(m_NetBuffer) + (i - Len(m_NetBuffer)) = i
          /\ taken + (i - Len(m_NetBuffer)) = taken - Len(m_NetBuffer) + i
        BY <1>2, <1>3, <1>6, <2>3
    <3> QED
        BY <1>4, <1>6, <2>1, <3>1
  <2> QED
      BY <2>2, <2>3
<1>9. n \in 0..(arrived - taken)
    BY <1>2, <1>3
<1> QED
    BY <1>1, <1>2, <1>6, <1>7, <1>8, <1>9, ParsesKeeps

LEMMA NoDataKeeps ==
    ASSUME IInv, ReadAgain \/ ReadZero \/ ReadFails
    PROVE  IInv'
<1>1. /\ pc = "pass" /\ Parses(m_NetBuffer) /\ taken' = taken
      /\ m_bChkReadZero' \in BOOLEAN /\ closing' \in BOOLEAN
    BY DEF IInv, TypeOK, ReadAgain, ReadZero, ReadFails
<1>2. /\ taken \in Nat /\ arrived \in Nat /\ taken =< arrived /\ Len(m_NetBuffer) \in Nat
      /\ m_NetBuffer \in Seq(1..taken) /\ Len(m_NetBuffer) =< RECV_BUFFER_SIZE
    BY Types DEF IInv
<1>3. taken + 0 = taken /\ Len(m_NetBuffer) + 0 = Len(m_NetBuffer) /\ 0 \in 0..(arrived - taken)
    BY <1>2
<1>4. Contiguous => \A i \in 1..Len(m_NetBuffer) :
                        m_NetBuffer[i] = taken + 0 - Len(m_NetBuffer) + i
  <2>1. taken + 0 - Len(m_NetBuffer) = taken - Len(m_NetBuffer)
      BY <1>2
  <2> QED
      BY <2>1, Zenon DEF Contiguous
<1> QED
    BY <1>1, <1>2, <1>3, <1>4, ParsesKeeps

-----------------------------------------------------------------------------
(* OnRead: parseBuff returns.                                              *)

(* The buffer is now a part s of it, or the part where parseBuff stood.     *)
LEMMA BackKeeps ==
    ASSUME IInv, pc = "parse", NEW s \in Seq(1..taken), Len(s) =< Len(m_NetBuffer),
           m_NetBuffer' = s, pc' = "pass", closing' \in BOOLEAN, torn' \in BOOLEAN,
           UNCHANGED <<streamVars, taken, m_ReadOffset, m_bChkReadZero, dealt>>,
           torn' \/ (~torn /\ s = From(m_NetBuffer, m_ReadOffset))
    PROVE  IInv'
<1>1. TypeOK /\ Tiled /\ Parsed
    BY DEF IInv
<1>2. /\ taken \in Nat /\ Len(m_NetBuffer) \in Nat /\ m_ReadOffset \in Nat
      /\ m_NetBuffer \in Seq(1..taken) /\ Len(s) \in Nat /\ RECV_BUFFER_SIZE \in Nat
      /\ Len(m_NetBuffer) =< RECV_BUFFER_SIZE /\ m_ReadOffset =< Len(m_NetBuffer)
    BY <1>1, Types DEF TypeOK
<1>3. TypeOK'
    BY <1>1, <1>2 DEF TypeOK, streamVars
<1>4. Tiled' /\ \A k : Begins(k)' = Begins(k)
    BY <1>1, SameStream DEF streamVars
<1>5. CASE torn'
    BY <1>3, <1>4, <1>5 DEF IInv, Parsed
<1>6. CASE ~torn'
  <2>1. Dealt /\ Contiguous /\ Aligned /\ s = From(m_NetBuffer, m_ReadOffset)
      BY <1>1, <1>6 DEF Parsed
  <2>2. /\ Len(s) = Len(m_NetBuffer) - m_ReadOffset
        /\ \A i \in 1..Len(s) : s[i] = m_NetBuffer[m_ReadOffset + i]
    <3>1. m_ReadOffset \in 0..Len(m_NetBuffer)
        BY <1>2
    <3> QED
        BY <1>2, <2>1, <3>1, FromFields
  <2>3. Contiguous'
    <3> SUFFICES ASSUME NEW i \in 1..Len(s)
                 PROVE  s[i] = taken - Len(s) + i
        BY DEF Contiguous
    <3>1. m_ReadOffset + i \in 1..Len(m_NetBuffer)
        BY <1>2, <2>2
    <3>2. m_NetBuffer[m_ReadOffset + i] = taken - Len(m_NetBuffer) + (m_ReadOffset + i)
        BY <2>1, <3>1 DEF Contiguous
    <3> QED
        BY <1>2, <2>2, <3>2
  <2>4. NextPlace' = NextPlace
    <3>1. NextPlace' = taken - Len(s) + 0 + 1
        BY DEF NextPlace
    <3>2. NextPlace = taken - Len(m_NetBuffer) + m_ReadOffset + 1
        BY DEF NextPlace
    <3> QED
        BY <1>2, <2>2, <3>1, <3>2
  <2>5. Aligned'
    <3>1. Begins(Len(dealt) + 1)' = Begins(Len(dealt) + 1)
        BY <1>4
    <3> QED
        BY <2>1, <2>4, <3>1 DEF Aligned
  <2>6. Dealt'
      BY <2>1 DEF Dealt, streamVars
  <2> QED
      BY <1>3, <1>4, <2>3, <2>5, <2>6 DEF IInv, Parsed
<1> QED
    BY <1>5, <1>6

LEMMA ResetFields ==
    ASSUME TypeOK, NEW s \in Seq(1..taken)
    PROVE  Reset(s) \in Seq(1..taken) /\ Len(Reset(s)) =< Len(s)
<1>1. m_ReadOffset \in Nat /\ Len(s) \in Nat
    BY Types
<1>2. CASE Len(s) =< m_ReadOffset
    BY <1>1, <1>2 DEF Reset
<1>3. CASE ~(Len(s) =< m_ReadOffset)
  <2>1. m_ReadOffset \in 0..Len(s) /\ Reset(s) = From(s, m_ReadOffset)
      BY <1>1, <1>3 DEF Reset
  <2> QED
      BY <1>1, <2>1, FromFields
<1> QED
    BY <1>2, <1>3

LEMMA ReturnsKeeps ==
    ASSUME IInv, HeaderShort \/ BodyShort \/ TooLarge
    PROVE  IInv'
<1>1. TypeOK /\ pc = "parse"
    BY DEF IInv, HeaderShort, BodyShort, TooLarge
<1>2. /\ m_NetBuffer \in Seq(1..taken) /\ Len(m_NetBuffer) \in Nat /\ m_ReadOffset \in Nat
      /\ m_ReadOffset =< Len(m_NetBuffer) /\ closing \in BOOLEAN /\ torn \in BOOLEAN /\ HEAD = 2
    BY <1>1, Types DEF TypeOK
<1>3. CASE HeaderShort
  <2> DEFINE f == From(m_NetBuffer, m_ReadOffset)
             s == Reset(f)
  <2>1. /\ m_NetBuffer' = s /\ pc' = "pass" /\ closing' = closing
        /\ UNCHANGED <<streamVars, taken, m_ReadOffset, m_bChkReadZero, dealt>>
        /\ torn' = (torn \/ m_NetBuffer' # f)
      BY <1>3 DEF HeaderShort, Returns
  <2>2. f \in Seq(1..taken) /\ Len(f) =< Len(m_NetBuffer) /\ Len(f) \in Nat
    <3>1. m_ReadOffset \in 0..Len(m_NetBuffer)
        BY <1>2
    <3>2. f \in Seq(1..taken) /\ Len(f) = Len(m_NetBuffer) - m_ReadOffset
        BY <1>2, <3>1, FromFields
    <3> HIDE DEF f
    <3> QED
        BY <1>2, <3>2
  <2> HIDE DEF f
  <2>3. s \in Seq(1..taken) /\ Len(s) =< Len(m_NetBuffer)
    <3>1. s \in Seq(1..taken) /\ Len(s) =< Len(f)
        BY <1>1, <2>2, ResetFields
    <3>2. Len(s) \in Nat
        BY <3>1
    <3> QED
        BY <1>2, <2>2, <3>1, <3>2
  <2> HIDE DEF s
  <2>4. torn' \in BOOLEAN /\ (torn' \/ (~torn /\ s = f))
      BY <1>2, <2>1
  <2> QED
      BY <1>1, <1>2, <2>1, <2>3, <2>4, BackKeeps DEF f
<1>4. CASE BodyShort \/ TooLarge
  <2> DEFINE s == Reset(m_NetBuffer)
  <2>1. /\ m_NetBuffer' = s /\ pc' = "pass" /\ closing' \in BOOLEAN /\ torn' = torn
        /\ UNCHANGED <<streamVars, taken, m_ReadOffset, m_bChkReadZero, dealt>>
        /\ Left >= HEAD
      BY <1>2, <1>4 DEF BodyShort, TooLarge, Returns, Whole
  <2>2. s = From(m_NetBuffer, m_ReadOffset)
      BY <1>2, <2>1 DEF Reset, Left
  <2>3. s \in Seq(1..taken) /\ Len(s) =< Len(m_NetBuffer)
      BY <1>1, <1>2, ResetFields
  <2> HIDE DEF s
  <2>4. torn' \in BOOLEAN /\ (torn' \/ (~torn /\ s = From(m_NetBuffer, m_ReadOffset)))
      BY <1>2, <2>1, <2>2
  <2> QED
      BY <1>1, <2>1, <2>3, <2>4, BackKeeps
<1> QED
    BY <1>3, <1>4

-----------------------------------------------------------------------------
(* OnRead: a message is dealt.                                             *)

LEMMA DealMsgKeeps ==
    ASSUME IInv, DealMsg
    PROVE  IInv'
<1> DEFINE n == HEAD + Size
           r == m_ReadOffset
           buf == m_NetBuffer
           msg == SubSeq(buf, r + 1, r + HEAD + Size)
           k == Len(dealt) + 1
<1>1. /\ pc = "parse" /\ Left >= HEAD /\ Left - HEAD >= Size
      /\ dealt' = Append(dealt, msg) /\ m_ReadOffset' = r + HEAD + Size
      /\ UNCHANGED <<streamVars, taken, m_NetBuffer, m_bChkReadZero, pc, closing, torn>>
    BY DEF DealMsg, Whole
<1>2. TypeOK /\ Tiled /\ Parsed
    BY DEF IInv
<1>3. /\ taken \in Nat /\ Len(buf) \in Nat /\ r \in Nat /\ HEAD = 2 /\ RECV_BUFFER_SIZE \in Nat
      /\ buf \in Seq(1..taken) /\ Len(buf) =< RECV_BUFFER_SIZE
      /\ dealt \in Seq(Seq(1..taken)) /\ Len(dealt) \in Nat /\ Len(sent) \in Nat
    BY <1>2, Types
<1>4. Size \in Nat
    BY <1>1, <1>2, SizeIsNat
<1>5. n \in Nat /\ r + HEAD + Size = r + n /\ r + n =< Len(buf)
    BY <1>1, <1>3, <1>4 DEF Left
<1>6. /\ msg \in Seq(1..taken) /\ Len(msg) = n
      /\ \A i \in 1..n : msg[i] = buf[r + i]
  <2> HIDE DEF n, buf, r
  <2>1. msg = SubSeq(buf, r + 1, r + n)
      BY <1>5
  <2> DEFINE S == 1..taken
  <2>2. buf \in Seq(S) /\ r \in Nat /\ n \in Nat /\ r + n =< Len(buf)
      BY <1>3, <1>5
  <2> HIDE DEF S
  <2>3. /\ SubSeq(buf, r + 1, r + n) \in Seq(S) /\ Len(SubSeq(buf, r + 1, r + n)) = n
        /\ \A i \in 1..n : SubSeq(buf, r + 1, r + n)[i] = buf[r + i]
      BY <2>2, PartFields
  <2> HIDE DEF msg
  <2> QED
      BY <2>1, <2>3 DEF S
<1> HIDE DEF msg
<1>7. /\ dealt' \in Seq(Seq(1..taken)) /\ Len(dealt') = k /\ dealt'[k] = msg
      /\ \A i \in 1..Len(dealt) : dealt'[i] = dealt[i]
    BY <1>1, <1>3, <1>6
<1>8. TypeOK'
  <2>1. m_ReadOffset' \in 0..RECV_BUFFER_SIZE /\ m_ReadOffset' =< Len(buf)
      BY <1>1, <1>3, <1>5
  <2> QED
      BY <1>1, <1>2, <1>7, <2>1 DEF TypeOK, streamVars
<1>9. Tiled' /\ \A j : Begins(j)' = Begins(j)
    BY <1>1, <1>2, SameStream DEF streamVars
<1>10. Parsed'
  <2> SUFFICES ASSUME ~torn
               PROVE  Dealt' /\ Contiguous' /\ Aligned'
      BY <1>1 DEF Parsed
  <2>1. Dealt /\ Contiguous /\ Aligned
      BY <1>2 DEF Parsed
  <2>2. k \in 1..Len(sent) /\ sent[k].at = NextPlace /\ Size = sent[k].size
      BY <1>1, StandsAtMessage
  <2>3. NextPlace = taken - Len(buf) + r + 1
      BY <1>1 DEF NextPlace
  <2>4. msg = Places(sent[k])
    <3> DEFINE pl == Places(sent[k])
    <3>1. pl = [i \in 1..n |-> NextPlace + i - 1]
        BY <2>2 DEF Places
    <3>2. DOMAIN msg = 1..n /\ msg = [i \in 1..n |-> msg[i]]
        BY <1>5, <1>6
    <3>3. ASSUME NEW i \in 1..n
          PROVE  msg[i] = NextPlace + i - 1
      <4>1. r + i \in 1..Len(buf)
          BY <1>3, <1>5
      <4>2. buf[r + i] = taken - Len(buf) + (r + i)
          BY <2>1, <4>1 DEF Contiguous
      <4>3. taken - Len(buf) + (r + i) = NextPlace + i - 1
          BY <1>3, <1>5, <2>3
      <4> QED
          BY <1>6, <4>2, <4>3
    <3> HIDE DEF n, pl
    <3>4. msg = [i \in 1..n |-> NextPlace + i - 1]
        BY <3>2, <3>3, Zenon
    <3> QED
        BY <3>1, <3>4 DEF pl
  <2>5. Dealt'
    <3>1. \A i \in 1..k : i \in 1..Len(dealt) \/ i = k
        BY <1>3
    <3>2. \A i \in 1..k : dealt'[i] = Places(sent[i])
        BY <1>7, <2>1, <2>4, <3>1 DEF Dealt
    <3>3. k =< Len(sent) /\ sent' = sent
        BY <1>1, <1>3, <2>2 DEF streamVars
    <3> QED
        BY <1>7, <3>2, <3>3 DEF Dealt
  <2>6. Contiguous'
      BY <1>1, <2>1 DEF Contiguous
  <2>7. Aligned'
    <3>1. NextPlace' = taken - Len(buf) + (r + n) + 1
        BY <1>1, <1>5 DEF NextPlace
    <3>2. Begins(k + 1) = EndOf(sent[k]) + 1
        BY <1>2, <2>2 DEF Tiled
    <3>3. EndOf(sent[k]) = NextPlace + n - 1
      <4>1. NextPlace \in Int
          BY <1>3, <2>3
      <4>2. EndOf(sent[k]) = NextPlace + HEAD + Size - 1
          BY <2>2, Zenon DEF EndOf
      <4> QED
          BY <1>3, <1>4, <4>1, <4>2
    <3>4. Begins(k + 1) = NextPlace'
        BY <1>3, <1>5, <2>3, <3>1, <3>2, <3>3
    <3>5. Begins(Len(dealt) + 1)' = Begins(k + 1)
        BY <1>7, <1>9
    <3> QED
        BY <3>4, <3>5 DEF Aligned
  <2> QED
      BY <2>5, <2>6, <2>7
<1> QED
    BY <1>8, <1>9, <1>10 DEF IInv

-----------------------------------------------------------------------------
(* Theorems.                                                               *)

LEMMA InitSound ==
    ASSUME Init
    PROVE  IInv
<1>1. Len(<<>>) = 0 /\ 1..0 = {}
    OBVIOUS
<1>2. TypeOK
  <2>1. sent \in Seq(Msg) /\ m_NetBuffer \in Seq(1..taken) /\ dealt \in Seq(Seq(1..taken))
      BY EmptySeq DEF Init
  <2>2. /\ Len(m_NetBuffer) = 0 /\ 0 =< RECV_BUFFER_SIZE /\ 0 \in 0..RECV_BUFFER_SIZE
        /\ 0 \in Nat /\ 0 \in 0..0
      BY <1>1, ConnRecvAssumption DEF Init
  <2> QED
      BY <2>1, <2>2 DEF Init, TypeOK
<1>3. Tiled
    BY <1>1 DEF Init, Tiled
<1>4. Parsed
  <2>1. NextPlace = 1
      BY <1>1 DEF Init, NextPlace
  <2>2. Begins(Len(dealt) + 1) = 1
      BY <1>1 DEF Init, Begins
  <2> QED
      BY <1>1, <2>1, <2>2 DEF Init, Parsed, Dealt, Contiguous, Aligned
<1> QED
    BY <1>2, <1>3, <1>4 DEF IInv

LEMMA StepSound ==
    ASSUME IInv, [Next]_vars
    PROVE  IInv'
<1>1. CASE UNCHANGED vars
  <2>1. TypeOK'
      BY <1>1 DEF IInv, TypeOK, vars, streamVars, bufVars
  <2>2. Tiled' /\ Parsed'
      BY <1>1, SameParsed DEF vars, streamVars, bufVars
  <2> QED
      BY <2>1, <2>2 DEF IInv
<1>2. CASE OnRead
  <2>1. CASE InvalidMsgid
    <3>1. TypeOK'
        BY <2>1 DEF IInv, TypeOK, InvalidMsgid, streamVars, bufVars
    <3>2. Tiled' /\ Parsed'
        BY <2>1, SameParsed DEF InvalidMsgid, streamVars, bufVars
    <3> QED
        BY <3>1, <3>2 DEF IInv
  <2> QED
      BY <1>2, <2>1, ReadDataKeeps, NoDataKeeps, ReturnsKeeps, DealMsgKeeps DEF OnRead
<1>3. CASE QuitConn
  <2>1. TypeOK'
      BY <1>3 DEF IInv, TypeOK, QuitConn, streamVars, bufVars
  <2>2. Tiled' /\ Parsed'
      BY <1>3, SameParsed DEF QuitConn, streamVars, bufVars
  <2> QED
      BY <2>1, <2>2 DEF IInv
<1> QED
    BY <1>1, <1>2, <1>3, NetworkKeeps DEF Next

-----------------------------------------------------------------------------
(* Room for the rest of a message.                                         *)

(* Where something is left to parse, a message begins that was sent. *)
LEMMA NextIsSent ==
    ASSUME IInv, ~torn, pc = "parse", Left > 0
    PROVE  Len(dealt) + 1 \in 1..Len(sent)
<1> DEFINE k == Len(dealt) + 1
<1>1. TypeOK /\ Dealt /\ Aligned
    BY DEF IInv, Parsed
<1>2. /\ m_ReadOffset \in Nat /\ Len(m_NetBuffer) \in Nat
      /\ taken \in Nat /\ written \in Nat /\ taken =< written
      /\ Len(dealt) \in Nat /\ Len(sent) \in Nat
    BY <1>1, Types
<1>3. NextPlace = taken - Len(m_NetBuffer) + m_ReadOffset + 1 /\ Begins(k) = NextPlace
    BY <1>1 DEF NextPlace, Aligned
<1>4. NextPlace =< taken
    BY <1>2, <1>3 DEF Left
<1>5. k # Len(sent) + 1
    BY <1>2, <1>3, <1>4 DEF Begins
<1> QED
    BY <1>1, <1>2, <1>5 DEF Dealt

(* What the early returns of parseBuff leave is less than a message, or a   *)
(* part of one that is refused.                                             *)
LEMMA ReturnsLeaveRoom ==
    ASSUME IInv, HeaderShort \/ BodyShort \/ TooLarge
    PROVE  RoomForRest'
<1> DEFINE k == Len(dealt) + 1
           f == From(m_NetBuffer, m_ReadOffset)
<1> SUFFICES ASSUME m_NetBuffer' # <<>>, ~torn'
             PROVE  k =< Len(sent) /\ (Refused(sent[k]) \/ Len(m_NetBuffer') < HEAD + sent[k].size)
  <2>1. sent' = sent /\ dealt' = dealt
      BY DEF HeaderShort, BodyShort, TooLarge, Returns, streamVars
  <2> QED
      BY <2>1 DEF RoomForRest, Refused
<1>1. TypeOK /\ pc = "parse" /\ ~torn
  <2>1. CASE HeaderShort
      BY <2>1 DEF IInv, TypeOK, HeaderShort
  <2>2. CASE BodyShort \/ TooLarge
      BY <2>2 DEF IInv, BodyShort, TooLarge
  <2> QED
      BY <2>1, <2>2
<1>2. /\ m_NetBuffer \in Seq(1..taken) /\ Len(m_NetBuffer) \in Nat /\ m_ReadOffset \in Nat
      /\ m_ReadOffset =< Len(m_NetBuffer) /\ HEAD = 2
    BY <1>1, Types DEF TypeOK
<1>3. f \in Seq(1..taken) /\ Len(f) = Left
  <2>1. m_ReadOffset \in 0..Len(m_NetBuffer)
      BY <1>2
  <2> QED
      BY <1>2, <2>1, FromFields DEF Left
<1>4. m_NetBuffer' = f
  <2>1. CASE HeaderShort
      BY <1>1, <2>1 DEF HeaderShort
  <2>2. CASE BodyShort \/ TooLarge
    <3>1. m_NetBuffer' = Reset(m_NetBuffer)
        BY <2>2 DEF BodyShort, TooLarge, Returns
    <3> QED
        BY <3>1 DEF Reset
  <2> QED
      BY <2>1, <2>2
<1>5. Left \in Nat /\ Left > 0
  <2>1. f # <<>>
      BY <1>4
  <2> HIDE DEF f
  <2> QED
      BY <1>3, <2>1
<1>6. k \in 1..Len(sent)
    BY <1>1, <1>5, NextIsSent
<1>7. sent[k].size \in Nat /\ Len(sent) \in Nat
    BY <1>1, <1>6, Types
<1>8. Len(m_NetBuffer') = Left
    BY <1>3, <1>4
<1>9. CASE Left < HEAD
    BY <1>2, <1>5, <1>6, <1>7, <1>8, <1>9
<1>10. CASE ~(Left < HEAD)
  <2>1. Left >= HEAD
      BY <1>2, <1>5, <1>10
  <2>2. Size = sent[k].size
      BY <1>1, <2>1, StandsAtMessage
  <2>3. CASE BodyShort
    <3>1. ~(Left - HEAD >= Size)
        BY <2>1, <2>3 DEF BodyShort, Whole
    <3> HIDE DEF k
    <3>2. Left < HEAD + sent[k].size
        BY <1>2, <1>5, <1>7, <2>2, <3>1
    <3> QED
        BY <1>6, <1>8, <3>2
  <2>4. CASE TooLarge
      BY <1>6, <2>2, <2>4 DEF TooLarge, Refused
  <2>5. CASE HeaderShort
      BY <1>10, <2>5 DEF HeaderShort
  <2> QED
      BY <2>3, <2>4, <2>5
<1> QED
    BY <1>9, <1>10

LEMMA RoomStays ==
    ASSUME IInv, RoomForRest, [Next]_vars
    PROVE  RoomForRest'
<1>1. ASSUME UNCHANGED <<m_NetBuffer, sent, dealt, torn>>, pc' = "pass" => pc = "pass"
      PROVE  RoomForRest'
    BY <1>1 DEF RoomForRest, Refused
<1>2. CASE \E s \in Sizes, id \in Ids, v \in Values : ClientSends(s, id, v)
  <2>1. PICK new : sent' = Append(sent, new) /\ UNCHANGED <<m_NetBuffer, dealt, torn, pc>>
      BY <1>2 DEF ClientSends, bufVars
  <2> SUFFICES ASSUME pc = "pass", m_NetBuffer # <<>>, ~torn
               PROVE  LET k == Len(dealt) + 1
                      IN  /\ k =< Len(sent')
                          /\ Refused(sent'[k]) \/ Len(m_NetBuffer) < HEAD + sent'[k].size
      BY <2>1 DEF RoomForRest, Refused
  <2> DEFINE k == Len(dealt) + 1
  <2>2. k =< Len(sent) /\ (Refused(sent[k]) \/ Len(m_NetBuffer) < HEAD + sent[k].size)
      BY DEF RoomForRest
  <2>3. sent \in Seq(Msg) /\ Len(sent) \in Nat /\ Len(dealt) \in Nat
      BY Types DEF IInv
  <2>4. k \in 1..Len(sent)
      BY <2>2, <2>3
  <2> HIDE DEF k
  <2>5. Len(sent') = Len(sent) + 1 /\ sent'[k] = sent[k]
      BY <2>1, <2>3, <2>4
  <2> QED
      BY <2>2, <2>3, <2>4, <2>5 DEF k
<1>3. CASE \/ \E n \in 1..(written - arrived) : Arrives(n)
           \/ \E how \in {"fin", "rst"} : PeerEnds(how)
           \/ EpQuits \/ QuitConn \/ InvalidMsgid \/ UNCHANGED vars
    BY <1>1, <1>3 DEF Arrives, PeerEnds, EpQuits, QuitConn, InvalidMsgid, vars, bufVars, streamVars
<1>4. CASE ReadData \/ ReadAgain \/ ReadZero \/ ReadFails
  <2>1. PICK buf : Parses(buf)
      BY <1>4 DEF ReadData, ReadAgain, ReadZero, ReadFails
  <2>2. pc' = "pass" => m_NetBuffer' = <<>>
      BY <2>1 DEF Parses
  <2> QED
      BY <2>2 DEF RoomForRest
<1>5. CASE DealMsg
  <2>1. pc' = "parse"
      BY <1>5 DEF DealMsg
  <2> QED
      BY <2>1 DEF RoomForRest
<1> QED
    BY <1>2, <1>3, <1>4, <1>5, ReturnsLeaveRoom DEF Next, Network, OnRead

(* Whatever reads cut the client's stream into, and however small the       *)
(* buffer is: parseBuff hands on the client's messages one after the other, *)
(* each whole, and leaves less than a message behind, with room for the     *)
(* rest, as long as the early return for a short header has dropped         *)
(* nothing; and m_NetOffset and m_ReadOffset stay within the buffer in any  *)
(* case.                                                                    *)
THEOREM StreamStaysSound == Spec => []StreamSound
<1>1. Init => IInv /\ RoomForRest
  <2>1. Init => RoomForRest
      BY DEF Init, RoomForRest
  <2> QED
      BY <2>1, InitSound
<1>2. IInv /\ RoomForRest /\ [Next]_vars => IInv' /\ RoomForRest'
    BY StepSound, RoomStays
<1>3. IInv /\ RoomForRest => StreamSound
  <2> SUFFICES ASSUME IInv, RoomForRest
               PROVE  StreamSound
      OBVIOUS
  <2>1. DOMAIN dealt = 1..Len(dealt)
      BY DEF IInv, TypeOK
  <2> QED
      BY <2>1 DEF IInv, Parsed, Dealt, StreamSound, DealtInOrder
<1> QED
    BY <1>1, <1>2, <1>3, PTL DEF Spec
=============================================================================
