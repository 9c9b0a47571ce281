------------------------- MODULE LrMessaging_proofs -------------------------
(***************************************************************************)
(* Proofs about LrMessaging for stores and queues of every size, every set *)
(* of retry counts and of sequence numbers, and any number of messages.    *)
(***************************************************************************)
EXTENDS LrMessaging, SequenceTheorems, FiniteSetTheorems, TLAPS

Message  == [seq : Nat, retry : Nat]
Received == [seq : SeqNrs, at : Nat]

OutType  == out \in Seq(Message) /\ sendIdx \in Nat /\ nextNr \in Nat /\ round \in Nat
InType   == in \in Seq(Received) /\ reading \in Nat /\ nMes \in Nat
HistType ==
    hist \in [before : Seq(Nat), sent : Seq(Nat), stored : Nat,
              delivered : Seq(Nat), broken : BOOLEAN]

TypeOK ==
    /\ OutType /\ InType /\ HistType
    /\ count \in Nat /\ left \in Nat /\ linked \in BOOLEAN
    /\ mainQue \in Seq(Received)

(* In a round the store holds the last of the messages it began with, the  *)
(* position is at the first of them not yet sent, and what has been sent   *)
(* are the first ones.                                                     *)
Gone == Len(hist.before) - Len(out)
RoundFollows ==
    /\ RoundSendsEach
    /\ round > 0 =>
          /\ Len(hist.sent) + round = Len(hist.before)
          /\ Gone >= 0
          /\ sendIdx + Gone = Len(hist.sent)
          /\ \A i \in DOMAIN out : out[i].seq = hist.before[i + Gone]
          /\ \A i \in DOMAIN hist.sent : hist.sent[i] = hist.before[i]

(* Older messages have been sent at least as often as newer ones, and once *)
(* more if only they have had their turn in this round.                    *)
OldestMost ==
    \A i, j \in DOMAIN out :
        i < j => out[i].retry >= out[j].retry + (IF i <= sendIdx /\ sendIdx < j THEN 1 ELSE 0)

(* A read goes over the whole store, no number is in it twice, and the     *)
(* messages keep the order of their arrival on the way to the phone.       *)
ReadsAll == reading > 0 => reading = Len(in)
NoTwice(q)   == \A i, j \in DOMAIN q : q[i].seq = q[j].seq => i = j
Ascending(q) == \A i, j \in DOMAIN q : i < j => q[i].at < q[j].at
AllDelivered == Range(hist.delivered)

InOrder ==
    /\ Ascending(in) /\ Ascending(mainQue)
    /\ \A i, j \in DOMAIN hist.delivered : i < j => hist.delivered[i] < hist.delivered[j]
    /\ \A m \in Range(mainQue), n \in Range(in) : m.at < n.at
    /\ \A d \in AllDelivered, n \in Range(in) \cup Range(mainQue) : d < n.at
    /\ \A n \in Range(in) \cup Range(mainQue) : n.at <= hist.stored
    /\ \A d \in AllDelivered : d <= hist.stored
Counted == reading = 0 => nMes = Len(in) \/ (hist.broken /\ nMes = 0)

IInv ==
    /\ TypeOK /\ RoundFollows /\ OldestMost
    /\ ReadsAll /\ NoTwice(in) /\ InOrder /\ Counted

-----------------------------------------------------------------------------
(* Sequences                                                               *)

(* An appended element comes last.                                         *)
LEMMA AppendFacts ==
    ASSUME NEW S, NEW s \in Seq(S), NEW e \in S
    PROVE  /\ Len(s) \in Nat /\ DOMAIN s = 1 .. Len(s)
           /\ Append(s, e) \in Seq(S)
           /\ Len(Append(s, e)) = Len(s) + 1
           /\ DOMAIN Append(s, e) = 1 .. Len(s) + 1
           /\ \A i \in 1 .. Len(s) : Append(s, e)[i] = s[i]
           /\ Append(s, e)[Len(s) + 1] = e
<1>1. Append(s, e) \in Seq(S) /\ Len(Append(s, e)) = Len(s) + 1
  BY AppendProperties
<1> QED BY <1>1, AppendProperties, LenProperties

(* The tail is the sequence from its second element on.                    *)
LEMMA TailFacts ==
    ASSUME NEW S, NEW s \in Seq(S), s # <<>>
    PROVE  /\ Len(s) \in Nat \ {0} /\ DOMAIN s = 1 .. Len(s)
           /\ Tail(s) \in Seq(S)
           /\ Len(Tail(s)) = Len(s) - 1
           /\ DOMAIN Tail(s) = 1 .. Len(s) - 1
           /\ \A i \in 1 .. Len(s) - 1 : Tail(s)[i] = s[i + 1]
           /\ Head(s) = s[1] /\ Head(s) \in S
<1>1. Tail(s) \in Seq(S) /\ Len(Tail(s)) = Len(s) - 1
  BY HeadTailProperties
<1> QED BY <1>1, HeadTailProperties, LenProperties, EmptySeq

(* As many values as positions, if no two positions hold the same.         *)
LEMMA DistinctValues ==
    ASSUME NEW S, NEW s \in Seq(S), \A i, j \in DOMAIN s : s[i] = s[j] => i = j
    PROVE  Cardinality({s[i] : i \in DOMAIN s}) = Len(s)
<1> DEFINE T == {s[i] : i \in DOMAIN s}
<1>1. Len(s) \in Nat /\ DOMAIN s = 1 .. Len(s) /\ s \in [1 .. Len(s) -> T]
  BY LenProperties
<1>2. s \in Bijection(1 .. Len(s), T)
  BY <1>1 DEF Bijection, Injection, IsInjective, Surjection
<1>3. ExistsBijection(1 .. Len(s), T)
  BY <1>2 DEF ExistsBijection
<1> QED BY <1>1, <1>3, FS_CountingElements

-----------------------------------------------------------------------------
(* Messages to send                                                        *)

LEMMA OutgoingKept ==
    ASSUME RoundFollows, OldestMost, UNCHANGED <<out, sendIdx, round>>,
           hist'.before = hist.before, hist'.sent = hist.sent
    PROVE  (RoundFollows /\ OldestMost)'
<1>1. RoundSendsEach' /\ Gone' = Gone
  BY DEF RoundFollows, RoundSendsEach, Gone
<1> QED BY <1>1 DEF RoundFollows, OldestMost, Gone

LEMMA Sizes == Slots \in Nat /\ MaxMessage \in Nat /\ Slots <= MaxMessage
BY MessagingAssumption

LEMMA MessageType ==
    ASSUME NEW s \in Seq(Message)
    PROVE  /\ Len(s) \in Nat /\ DOMAIN s = 1 .. Len(s)
           /\ \A i \in 1 .. Len(s) : s[i] \in Message /\ s[i].seq \in Nat /\ s[i].retry \in Nat
<1>1. \A i \in 1 .. Len(s) : s[i] \in Message
  BY ElementOfSeq
<1>2. \A m \in Message : m.seq \in Nat /\ m.retry \in Nat
  BY DEF Message
<1> QED BY <1>1, <1>2, LenProperties

LEMMA StoreOutgoingStep ==
    ASSUME IInv, StoreOutgoing
    PROVE  TypeOK' /\ (RoundFollows /\ OldestMost)'
<1> DEFINE e == [seq |-> nextNr', retry |-> 0]
<1>1. OutType /\ TypeOK /\ RoundFollows /\ OldestMost
  BY DEF IInv, TypeOK
<1>2. Len(out) \in Nat /\ out \in Seq(Message) /\ nextNr \in Nat
  BY <1>1, LenProperties DEF OutType
<1>3. /\ out' = Append(out, e) /\ nextNr' = nextNr + 1 /\ round = 0
      /\ UNCHANGED <<sendIdx, round, count, in, reading, nMes, linked, mainQue, hist>>
  BY <1>2, Sizes DEF StoreOutgoing, RoomFor, CommIdle, incoming
<1>4. e \in Message /\ e.retry = 0
  BY <1>2, <1>3 DEF Message
<1> HIDE DEF e
<1>5. /\ DOMAIN out = 1 .. Len(out)
      /\ out' \in Seq(Message) /\ DOMAIN out' = 1 .. Len(out) + 1
      /\ \A x \in 1 .. Len(out) : out'[x] = out[x]
      /\ out'[Len(out) + 1] = e
  BY <1>2, <1>3, <1>4, AppendFacts
<1>6. OutType'
  BY <1>1, <1>2, <1>3, <1>5 DEF OutType
<1>7. left' \in Nat
  BY <1>1 DEF StoreOutgoing, Budget, TypeOK
<1>8. TypeOK'
  BY <1>1, <1>3, <1>6, <1>7 DEF TypeOK, InType, HistType
<1>9. sendIdx = 0
  BY <1>1, <1>3 DEF RoundFollows, RoundSendsEach
<1>10. RoundFollows'
  BY <1>1, <1>3, <1>9 DEF RoundFollows, RoundSendsEach
<1>11. OldestMost'
  <2> SUFFICES ASSUME NEW i \in DOMAIN out', NEW j \in DOMAIN out', i < j
               PROVE  out'[i].retry >= out'[j].retry
                          + (IF i <= sendIdx' /\ sendIdx' < j THEN 1 ELSE 0)
    BY DEF OldestMost
  <2>1. i \in 1 .. Len(out) /\ out'[i] = out[i] /\ out[i].retry \in Nat
    BY <1>2, <1>5, MessageType
  <2>2. sendIdx' = 0 /\ ~(i <= 0)
    BY <1>3, <1>9, <2>1
  <2>3. CASE j = Len(out) + 1
    BY <1>4, <1>5, <2>1, <2>2, <2>3
  <2>4. CASE j \in 1 .. Len(out)
    <3>1. out[i].retry >= out[j].retry + 0 /\ out'[j] = out[j] /\ out[j].retry \in Nat
      BY <1>1, <1>2, <1>5, <1>9, <2>1, <2>2, <2>4, MessageType DEF OldestMost
    <3> QED BY <2>1, <2>2, <3>1
  <2> QED BY <1>2, <1>5, <2>3, <2>4
<1> QED BY <1>8, <1>10, <1>11

LEMMA StartRoundStep ==
    ASSUME IInv, StartRound
    PROVE  TypeOK' /\ (RoundFollows /\ OldestMost)'
<1> DEFINE b == [i \in DOMAIN out |-> out[i].seq]
<1>1. OutType /\ HistType /\ TypeOK /\ RoundFollows /\ OldestMost /\ out \in Seq(Message)
  BY DEF IInv, TypeOK, OutType
<1>2. /\ hist' = [hist EXCEPT !.before = b, !.sent = <<>>]
      /\ round' = Len(out) /\ out # <<>> /\ round = 0
      /\ UNCHANGED <<out, sendIdx, nextNr, count, in, reading, nMes, linked, mainQue, left>>
  BY DEF StartRound, CommIdle, incoming
<1>3. Len(out) \in Nat \ {0} /\ DOMAIN out = 1 .. Len(out)
  BY <1>1, <1>2, LenProperties, EmptySeq
<1>4. b \in [1 .. Len(out) -> Nat] /\ \A i \in 1 .. Len(out) : b[i] = out[i].seq
  BY <1>1, <1>3, MessageType
<1> HIDE DEF b
<1>5. b \in Seq(Nat) /\ Len(b) = Len(out)
  BY <1>3, <1>4
<1>6. hist'.before = b /\ hist'.sent = <<>> /\ HistType'
  <2>1. <<>> \in Seq(Nat)
    BY EmptySeq
  <2> QED BY <1>1, <1>2, <1>5, <2>1 DEF HistType
<1>7. TypeOK'
  BY <1>1, <1>2, <1>3, <1>6 DEF TypeOK, OutType, InType
<1>8. sendIdx = 0
  BY <1>1, <1>2 DEF RoundFollows, RoundSendsEach
<1>9. Gone' = 0 /\ Len(hist'.sent) = 0
  BY <1>2, <1>3, <1>5, <1>6 DEF Gone
<1>10. RoundFollows'
  BY <1>2, <1>3, <1>4, <1>5, <1>6, <1>8, <1>9 DEF RoundFollows, RoundSendsEach
<1>11. OldestMost'
  BY <1>1, <1>2 DEF OldestMost
<1> QED BY <1>7, <1>10, <1>11

(* What a message sent changes: the message at the position counts one     *)
(* repetition more, and d = 1 if the first of the store is removed.        *)
Sends(d) ==
    /\ out' \in Seq(Message) /\ Len(out') = Len(out) - d
    /\ \A j \in 1 .. Len(out') :
          /\ j + d \in 1 .. Len(out)
          /\ out'[j].seq = out[j + d].seq
          /\ out'[j].retry = out[j + d].retry + (IF j + d = sendIdx + 1 THEN 1 ELSE 0)
    /\ sendIdx' = IF sendIdx + 1 - d >= Len(out') THEN 0 ELSE sendIdx + 1 - d
    /\ d = 1 => out[sendIdx + 1].retry + 1 >= count

LEMMA SendFacts ==
    ASSUME IInv, SendMessage
    PROVE  /\ Len(out) \in Nat /\ DOMAIN out = 1 .. Len(out)
           /\ sendIdx = Len(out) - round /\ sendIdx + 1 \in 1 .. Len(out)
           /\ \A j \in 1 .. Len(out) : out[j].seq \in Nat /\ out[j].retry \in Nat
           /\ hist' = [hist EXCEPT !.sent = Append(@, out[sendIdx + 1].seq)]
           /\ Sends(0) \/ Sends(1)
<1> DEFINE k == sendIdx + 1
<1>1. /\ out \in Seq(Message) /\ sendIdx \in Nat /\ round \in Nat /\ count \in Nat
      /\ Len(hist.before) \in Nat /\ Len(hist.sent) \in Nat /\ RoundFollows
  <2>1. TypeOK /\ OutType /\ HistType /\ RoundFollows
    BY DEF IInv, TypeOK
  <2>2. hist.before \in Seq(Nat) /\ hist.sent \in Seq(Nat)
    BY <2>1 DEF HistType
  <2> QED BY <2>1, <2>2, LenProperties DEF OutType, TypeOK
<1>2. /\ Len(out) \in Nat /\ DOMAIN out = 1 .. Len(out)
      /\ \A j \in 1 .. Len(out) :
            out[j] \in Message /\ out[j].seq \in Nat /\ out[j].retry \in Nat
  BY <1>1, MessageType
<1>3. round > 0
  BY DEF SendMessage
<1>4. sendIdx = Len(out) - round /\ k \in 1 .. Len(out)
  <2>1. Len(hist.sent) + round = Len(hist.before) /\ sendIdx + Gone = Len(hist.sent)
    BY <1>1, <1>3 DEF RoundFollows
  <2>2. Len(out) \in Nat
    BY <1>2
  <2> QED BY <1>1, <1>3, <2>1, <2>2 DEF Gone
<1> DEFINE e    == [out[k] EXCEPT !.retry = @ + 1]
           sent == [out EXCEPT ![k] = e]
           last == sent[k].retry >= count
           next == IF last THEN sendIdx ELSE sendIdx + 1
<1>5. e \in Message /\ e.seq = out[k].seq /\ e.retry = out[k].retry + 1
  BY <1>2, <1>4 DEF Message
<1>10. /\ out' = IF last THEN RemoveOldest(sent) ELSE sent
       /\ sendIdx' = IF next >= Len(out') THEN 0 ELSE next
       /\ hist' = [hist EXCEPT !.sent = Append(@, out[k].seq)]
  BY DEF SendMessage
<1> HIDE DEF e
<1>6. /\ sent \in Seq(Message) /\ Len(sent) = Len(out)
      /\ \A j \in 1 .. Len(out) : sent[j] = IF j = k THEN e ELSE out[j]
  BY <1>1, <1>4, <1>5, ExceptSeq
<1>7. /\ sent[k] = e
      /\ \A j \in 1 .. Len(out) :
            /\ sent[j].seq = out[j].seq
            /\ sent[j].retry = out[j].retry + (IF j = k THEN 1 ELSE 0)
  BY <1>2, <1>4, <1>5, <1>6
<1> HIDE DEF sent
<1>8. CASE last
  <2>1. out' = Tail(sent) /\ next = sendIdx /\ sent # <<>>
    BY <1>2, <1>10, <1>4, <1>6, <1>8 DEF RemoveOldest
  <2>2. /\ Tail(sent) \in Seq(Message) /\ Len(Tail(sent)) = Len(out) - 1
        /\ \A j \in 1 .. Len(out) - 1 : Tail(sent)[j] = sent[j + 1]
    BY <1>6, <2>1, TailFacts
  <2>3. out[k].retry + 1 >= count
    BY <1>5, <1>7, <1>8
  <2>4. \A j \in 1 .. Len(out) - 1 : j + 1 \in 1 .. Len(out)
    BY <1>2
  <2>5. /\ Len(out') = Len(out) - 1
        /\ sendIdx' = IF sendIdx + 1 - 1 >= Len(out') THEN 0 ELSE sendIdx + 1 - 1
    BY <1>1, <1>10, <2>1, <2>2
  <2>6. \A j \in 1 .. Len(out') :
           /\ out'[j].seq = out[j + 1].seq
           /\ out'[j].retry = out[j + 1].retry + (IF j + 1 = k THEN 1 ELSE 0)
    BY <1>7, <2>1, <2>2, <2>4, <2>5
  <2>7. Sends(1)
    BY <2>1, <2>2, <2>3, <2>4, <2>5, <2>6 DEF Sends
  <2> QED BY <1>2, <1>10, <1>4, <2>7
<1>9. CASE ~last
  <2>1. out' = sent /\ next = sendIdx + 1
    BY <1>10, <1>9
  <2>2. Sends(0)
    BY <1>1, <1>2, <1>10, <1>4, <1>6, <1>7, <2>1 DEF Sends
  <2> QED BY <1>2, <1>10, <1>4, <2>2
<1> QED BY <1>8, <1>9

(* The message at place k + 1 of two, p < q, has its turn.                 *)
LEMMA Turn ==
    ASSUME NEW p \in Nat, NEW q \in Nat, p < q, NEW k \in Nat, NEW x \in Nat, NEW y \in Nat,
           x >= y + (IF p <= k /\ k < q THEN 1 ELSE 0)
    PROVE  x + (IF p = k + 1 THEN 1 ELSE 0)
               >= y + (IF q = k + 1 THEN 1 ELSE 0) + (IF p <= k + 1 /\ k + 1 < q THEN 1 ELSE 0)
OBVIOUS

LEMMA SendMessageStep ==
    ASSUME IInv, SendMessage
    PROVE  TypeOK' /\ (RoundFollows /\ OldestMost)'
<1> DEFINE k == sendIdx + 1
           a == Append(hist.sent, out[k].seq)
<1>1. /\ Len(out) \in Nat /\ DOMAIN out = 1 .. Len(out)
      /\ sendIdx = Len(out) - round /\ k \in 1 .. Len(out)
      /\ \A j \in 1 .. Len(out) : out[j].seq \in Nat /\ out[j].retry \in Nat
      /\ hist' = [hist EXCEPT !.sent = a]
  BY SendFacts
<1>2. PICK d \in {0, 1} : Sends(d)
  BY SendFacts
<1>3. OutType /\ HistType /\ TypeOK /\ RoundFollows /\ OldestMost
  BY DEF IInv, TypeOK
<1>4. hist.sent \in Seq(Nat) /\ hist.before \in Seq(Nat) /\ round \in Nat /\ sendIdx \in Nat
  BY <1>3 DEF HistType, OutType
<1>5. /\ Len(hist.sent) \in Nat /\ DOMAIN hist.sent = 1 .. Len(hist.sent)
      /\ a \in Seq(Nat) /\ Len(a) = Len(hist.sent) + 1
      /\ DOMAIN a = 1 .. Len(hist.sent) + 1
  BY <1>1, <1>4, AppendFacts
<1>17. /\ \A i \in 1 .. Len(hist.sent) : a[i] = hist.sent[i]
       /\ a[Len(hist.sent) + 1] = out[k].seq
  BY <1>1, <1>4, AppendFacts
<1> HIDE DEF a
<1>6. hist'.sent = a /\ hist'.before = hist.before /\ HistType'
  BY <1>1, <1>3, <1>5 DEF HistType
<1>7. /\ round' = round - 1 /\ round' \in Nat /\ round > 0
      /\ UNCHANGED <<nextNr, count, in, reading, nMes, linked, mainQue, left>>
  BY <1>4 DEF SendMessage, incoming
<1>8. /\ out' \in Seq(Message) /\ Len(out') = Len(out) - d /\ DOMAIN out' = 1 .. Len(out) - d
      /\ sendIdx' = IF sendIdx + 1 - d >= Len(out') THEN 0 ELSE sendIdx + 1 - d
      /\ \A j \in 1 .. Len(out) - d :
            /\ j + d \in 1 .. Len(out)
            /\ out'[j].seq = out[j + d].seq
            /\ out'[j].retry = out[j + d].retry + (IF j + d = k THEN 1 ELSE 0)
  BY <1>2, LenProperties DEF Sends
<1>9. TypeOK'
  BY <1>3, <1>4, <1>6, <1>7, <1>8 DEF TypeOK, OutType, InType
<1>10. /\ Len(hist.before) \in Nat /\ DOMAIN hist.before = 1 .. Len(hist.before)
       /\ Gone' = Gone + d /\ Gone \in Int
  <2>1. Len(hist.before) \in Nat /\ DOMAIN hist.before = 1 .. Len(hist.before)
    BY <1>4, LenProperties
  <2>2. d \in Int
    OBVIOUS
  <2> QED BY <1>1, <1>6, <1>8, <2>1, <2>2 DEF Gone
<1>11. /\ Len(hist.sent) + round = Len(hist.before)
       /\ Gone >= 0 /\ sendIdx + Gone = Len(hist.sent)
  BY <1>3, <1>7 DEF RoundFollows
<1>18. /\ \A i \in DOMAIN out : out[i].seq = hist.before[i + Gone]
       /\ \A i \in DOMAIN hist.sent : hist.sent[i] = hist.before[i]
  BY <1>3, <1>7 DEF RoundFollows
<1>12. \A i \in DOMAIN hist'.sent : hist'.sent[i] = hist'.before[i]
  <2>1. k + Gone = Len(hist.sent) + 1
    BY <1>4, <1>10, <1>11
  <2>2. out[k].seq = hist.before[Len(hist.sent) + 1]
    BY <1>1, <1>18, <2>1
  <2>3. \A i \in 1 .. Len(hist.sent) + 1 : i \in 1 .. Len(hist.sent) \/ i = Len(hist.sent) + 1
    BY <1>5
  <2> QED BY <1>5, <1>6, <1>17, <1>18, <2>2, <2>3
<1>13. \A i \in DOMAIN out' : out'[i].seq = hist'.before[i + Gone']
  <2> SUFFICES ASSUME NEW i \in DOMAIN out'
               PROVE  out'[i].seq = hist.before[i + Gone']
    BY <1>6
  <2>1. i \in Int /\ i + d \in DOMAIN out /\ out'[i].seq = out[i + d].seq
    BY <1>1, <1>8
  <2>2. (i + d) + Gone = i + Gone'
    BY <1>10, <2>1
  <2> QED BY <1>18, <2>1, <2>2
<1>14. ASSUME NEW i \in DOMAIN out', NEW j \in DOMAIN out', i < j
       PROVE  /\ i \in Nat \ {0} /\ j \in Nat \ {0} /\ j + d <= Len(out)
              /\ out'[i].retry \in Nat /\ out'[j].retry \in Nat
              /\ out'[i].retry >= out'[j].retry
                     + (IF i + d <= k /\ k < j + d THEN 1 ELSE 0)
  <2>1. /\ i \in Nat \ {0} /\ j \in Nat \ {0} /\ j + d <= Len(out)
        /\ i + d \in DOMAIN out /\ j + d \in DOMAIN out /\ i + d < j + d
        /\ out'[i].retry = out[i + d].retry + (IF i + d = k THEN 1 ELSE 0)
        /\ out'[j].retry = out[j + d].retry + (IF j + d = k THEN 1 ELSE 0)
        /\ out[i + d].retry \in Nat /\ out[j + d].retry \in Nat
    BY <1>1, <1>8, <1>14
  <2>2. out[i + d].retry >= out[j + d].retry
            + (IF i + d <= sendIdx /\ sendIdx < j + d THEN 1 ELSE 0)
    BY <1>3, <2>1 DEF OldestMost
  <2>3. out[i + d].retry + (IF i + d = k THEN 1 ELSE 0)
              >= out[j + d].retry + (IF j + d = k THEN 1 ELSE 0)
                     + (IF i + d <= k /\ k < j + d THEN 1 ELSE 0)
    <3>1. i + d \in Nat /\ j + d \in Nat /\ i + d < j + d
      BY <1>1, <2>1
    <3>2. out[i + d].retry \in Nat /\ out[j + d].retry \in Nat
      BY <2>1
    <3> QED BY <1>4, <2>2, <3>1, <3>2, Turn
  <2> QED BY <2>1, <2>3
<1>15. CASE round' = 0
  <2>1. sendIdx' = 0
    BY <1>1, <1>4, <1>7, <1>8, <1>15
  <2>2. Len(hist'.sent) = Len(hist'.before)
    BY <1>4, <1>5, <1>6, <1>7, <1>10, <1>11, <1>15
  <2>3. hist'.sent = hist'.before
    <3>1. /\ a \in Seq(Nat) /\ hist.before \in Seq(Nat) /\ Len(a) = Len(hist.before)
          /\ \A i \in 1 .. Len(a) : a[i] = hist.before[i]
      BY <1>4, <1>5, <1>6, <1>12, <2>2
    <3>2. a = hist.before
      BY <3>1, SeqEqual
    <3> QED BY <1>6, <3>2
  <2>4. OldestMost'
    BY <1>4, <1>14, <2>1 DEF OldestMost
  <2> QED BY <1>9, <1>15, <2>1, <2>3, <2>4 DEF RoundFollows, RoundSendsEach
<1>16. CASE round' > 0
  <2>1. sendIdx' = sendIdx + 1 - d
    BY <1>1, <1>4, <1>7, <1>8, <1>16
  <2>2. /\ Len(hist'.sent) + round' = Len(hist'.before) /\ Gone' >= 0
        /\ sendIdx' + Gone' = Len(hist'.sent)
    <3>1. d \in Nat
      OBVIOUS
    <3>2. Len(hist'.sent) = Len(hist.sent) + 1 /\ Len(hist'.before) = Len(hist.before)
      BY <1>5, <1>6
    <3>3. Len(hist.sent) \in Nat /\ Gone \in Int /\ Gone' = Gone + d
      BY <1>5, <1>10
    <3>6. round \in Nat /\ round' = round - 1 /\ Len(hist.sent) + round = Len(hist.before)
      BY <1>4, <1>7, <1>11
    <3>4. Len(hist'.sent) + round' = Len(hist'.before)
      BY <3>2, <3>3, <3>6
    <3>5. Gone' >= 0
      BY <1>11, <3>1, <3>3
    <3> QED BY <1>4, <1>11, <2>1, <3>1, <3>2, <3>3, <3>4, <3>5
  <2>3. RoundFollows'
    BY <1>12, <1>13, <1>16, <2>2 DEF RoundFollows, RoundSendsEach
  <2>4. OldestMost'
    BY <1>4, <1>14, <2>1 DEF OldestMost
  <2> QED BY <1>9, <2>3, <2>4
<1>19. round' = 0 \/ round' > 0
  BY <1>4, <1>7
<1> QED BY <1>15, <1>16, <1>19

-----------------------------------------------------------------------------
(* Received messages                                                       *)

LEMMA IncomingKept ==
    ASSUME IInv, UNCHANGED <<incoming, mainQue>>, hist'.stored = hist.stored,
           hist'.delivered = hist.delivered, hist'.broken = hist.broken
    PROVE  (ReadsAll /\ NoTwice(in) /\ InOrder /\ Counted)'
<1>1. ReadsAll /\ NoTwice(in) /\ InOrder /\ Counted
  BY DEF IInv
<1> QED
  BY <1>1 DEF ReadsAll, NoTwice, Ascending, AllDelivered, Range, InOrder, Counted, incoming

LEMMA ReceivedType ==
    ASSUME NEW s \in Seq(Received)
    PROVE  /\ Len(s) \in Nat /\ DOMAIN s = 1 .. Len(s)
           /\ \A i \in 1 .. Len(s) : s[i] \in Received /\ s[i].at \in Nat
           /\ Range(s) = {s[i] : i \in 1 .. Len(s)}
           /\ \A m \in Range(s) : m \in Received /\ m.at \in Nat
<1>1. \A i \in 1 .. Len(s) : s[i] \in Received
  BY ElementOfSeq
<1>2. \A m \in Received : m.at \in Nat
  BY DEF Received
<1>3. Range(s) = {s[i] : i \in 1 .. Len(s)}
  BY RangeEquality
<1> QED BY <1>1, <1>2, <1>3, LenProperties

(* A queue the code has taken one element out of, at place c.              *)
TakenFrom(s, q, c) ==
    \A i \in 1 .. Len(s) :
        /\ i + (IF i < c THEN 0 ELSE 1) \in 1 .. Len(q)
        /\ s[i] = q[i + (IF i < c THEN 0 ELSE 1)]

LEMMA TakenFacts ==
    ASSUME NEW s \in Seq(Received), NEW q \in Seq(Received), NEW c \in Nat, TakenFrom(s, q, c)
    PROVE  /\ Range(s) \subseteq Range(q)
           /\ Ascending(q) => Ascending(s)
           /\ NoTwice(q) => NoTwice(s)
<1> DEFINE f(i) == i + (IF i < c THEN 0 ELSE 1)
<1>1. /\ DOMAIN s = 1 .. Len(s) /\ DOMAIN q = 1 .. Len(q)
      /\ Len(s) \in Nat /\ Len(q) \in Nat
  BY LenProperties
<1>2. \A i \in DOMAIN s : f(i) \in DOMAIN q /\ s[i] = q[f(i)]
  BY <1>1 DEF TakenFrom
<1>3. \A i, j \in DOMAIN s : (i < j => f(i) < f(j)) /\ (f(i) = f(j) => i = j)
  BY <1>1
<1> HIDE DEF f
<1>4. Range(s) \subseteq Range(q)
  BY <1>2 DEF Range
<1>5. Ascending(q) => Ascending(s)
  BY <1>2, <1>3 DEF Ascending
<1>6. NoTwice(q) => NoTwice(s)
  BY <1>2, <1>3 DEF NoTwice
<1> QED BY <1>4, <1>5, <1>6

LEMMA TailTaken ==
    ASSUME NEW s \in Seq(Received), s # <<>>
    PROVE  /\ Tail(s) \in Seq(Received) /\ Len(Tail(s)) = Len(s) - 1 /\ Len(s) \in Nat \ {0}
           /\ TakenFrom(Tail(s), s, 1)
           /\ Head(s) \in Range(s)
           /\ Ascending(s) => \A m \in Range(Tail(s)) : Head(s).at < m.at
<1>1. /\ Len(s) \in Nat \ {0} /\ DOMAIN s = 1 .. Len(s)
      /\ Tail(s) \in Seq(Received) /\ Len(Tail(s)) = Len(s) - 1
      /\ \A i \in 1 .. Len(s) - 1 : Tail(s)[i] = s[i + 1]
      /\ Head(s) = s[1]
  BY TailFacts
<1>2. \A i \in 1 .. Len(s) - 1 : i \in Nat /\ ~(i < 1) /\ i + 1 \in 1 .. Len(s) /\ 1 < i + 1
  BY <1>1
<1>3. TakenFrom(Tail(s), s, 1)
  BY <1>1, <1>2 DEF TakenFrom
<1>4. Range(Tail(s)) = {Tail(s)[i] : i \in 1 .. Len(s) - 1}
  BY <1>1, RangeEquality
<1>5. 1 \in DOMAIN s
  BY <1>1
<1>6. Ascending(s) => \A m \in Range(Tail(s)) : Head(s).at < m.at
  BY <1>1, <1>2, <1>4, <1>5 DEF Ascending
<1> QED BY <1>1, <1>3, <1>5, <1>6 DEF Range

LEMMA AppendOrder ==
    ASSUME NEW s \in Seq(Received), NEW e \in Received
    PROVE  /\ Append(s, e) \in Seq(Received) /\ Len(Append(s, e)) = Len(s) + 1
           /\ Range(Append(s, e)) = Range(s) \cup {e}
           /\ Ascending(s) /\ (\A m \in Range(s) : m.at < e.at) => Ascending(Append(s, e))
           /\ NoTwice(s) /\ (\A m \in Range(s) : m.seq # e.seq) => NoTwice(Append(s, e))
<1> DEFINE a == Append(s, e)
<1>1. /\ Len(s) \in Nat /\ DOMAIN s = 1 .. Len(s)
      /\ a \in Seq(Received) /\ Len(a) = Len(s) + 1 /\ DOMAIN a = 1 .. Len(s) + 1
      /\ \A i \in 1 .. Len(s) : a[i] = s[i]
      /\ a[Len(s) + 1] = e
  BY AppendFacts
<1> HIDE DEF a
<1>2. \A i \in DOMAIN a : i \in DOMAIN s \/ i = Len(s) + 1
  BY <1>1
<1>3. \A i \in DOMAIN s : i \in DOMAIN a /\ i \in Int /\ i < Len(s) + 1
  BY <1>1
<1>4. Len(s) + 1 \in DOMAIN a
  BY <1>1
<1>5. Range(a) = Range(s) \cup {e}
  BY <1>1, <1>2, <1>3, <1>4 DEF Range
<1>6. ASSUME Ascending(s), \A m \in Range(s) : m.at < e.at
      PROVE  Ascending(a)
  <2> SUFFICES ASSUME NEW i \in DOMAIN a, NEW j \in DOMAIN a, i < j
               PROVE  a[i].at < a[j].at
    BY DEF Ascending
  <2>1. i \in DOMAIN s
    BY <1>1, <1>2, <1>3
  <2>2. CASE j \in DOMAIN s
    BY <1>1, <1>6, <2>1, <2>2 DEF Ascending
  <2>3. CASE j = Len(s) + 1
    BY <1>1, <1>6, <2>1, <2>3 DEF Range
  <2> QED BY <1>2, <2>2, <2>3
<1>7. ASSUME NoTwice(s), \A m \in Range(s) : m.seq # e.seq
      PROVE  NoTwice(a)
  <2> SUFFICES ASSUME NEW i \in DOMAIN a, NEW j \in DOMAIN a, a[i].seq = a[j].seq
               PROVE  i = j
    BY DEF NoTwice
  <2>1. \A x \in DOMAIN s : a[x] = s[x] /\ s[x].seq # e.seq
    BY <1>1, <1>7 DEF Range
  <2>2. CASE i \in DOMAIN s /\ j \in DOMAIN s
    BY <1>7, <2>1, <2>2 DEF NoTwice
  <2>3. CASE ~(i \in DOMAIN s /\ j \in DOMAIN s)
    BY <1>1, <1>2, <2>1, <2>3
  <2> QED BY <2>2, <2>3
<1> QED BY <1>1, <1>5, <1>6, <1>7 DEF a

(* Without the message of a number the store is in order, and no message   *)
(* of that number is left.                                                 *)
LEMMA OthersFacts ==
    ASSUME NEW q \in Seq(Received), NEW seq, NoTwice(q), Ascending(q)
    PROVE  /\ Others(q, seq) \in Seq(Received)
           /\ Range(Others(q, seq)) \subseteq Range(q)
           /\ NoTwice(Others(q, seq)) /\ Ascending(Others(q, seq))
           /\ \A m \in Range(Others(q, seq)) : m.seq # seq
<1>1. Len(q) \in Nat /\ DOMAIN q = 1 .. Len(q) /\ \A i \in 1 .. Len(q) : q[i] \in Received
  BY ReceivedType
<1>2. CASE Places(q, seq) = {}
  <2>1. Others(q, seq) = q
    BY <1>2 DEF Others
  <2>2. \A m \in Range(q) : m.seq # seq
    BY <1>2 DEF Places, Range
  <2> QED BY <2>1, <2>2
<1>3. CASE Places(q, seq) # {}
  <2>1. PICK c \in Places(q, seq) : TRUE
    BY <1>3
  <2>2. Places(q, seq) = {c} /\ c \in 1 .. Len(q) /\ q[c].seq = seq
    BY <1>1, <2>1 DEF Places, NoTwice
  <2>3. (CHOOSE i \in Places(q, seq) : \A j \in Places(q, seq) : i <= j) = c
    BY <1>1, <2>2
  <2> DEFINE l == SubSeq(q, 1, c - 1)
             r == SubSeq(q, c + 1, Len(q))
  <2>4. Others(q, seq) = l \o r
    BY <1>3, <2>3 DEF Others, Without
  <2>5. l \in Seq(Received) /\ Len(l) = c - 1 /\ \A i \in 1 .. c - 1 : l[i] = q[i]
    <3>1. 1 \in Int /\ c - 1 \in Int /\ \A i \in 1 .. c - 1 : q[i] \in Received
      BY <1>1, <2>2
    <3>2. /\ l \in Seq(Received) /\ Len(l) = IF 1 <= c - 1 THEN (c - 1) - 1 + 1 ELSE 0
          /\ \A i \in 1 .. (c - 1) - 1 + 1 : l[i] = q[1 + i - 1]
      BY <3>1, SubSeqProperties
    <3> QED BY <2>2, <3>2
  <2>6. /\ r \in Seq(Received) /\ Len(r) = Len(q) - c
        /\ \A i \in 1 .. Len(q) - c : r[i] = q[c + i]
    <3>1. c + 1 \in Int /\ Len(q) \in Int /\ \A i \in c + 1 .. Len(q) : q[i] \in Received
      BY <1>1, <2>2
    <3>2. /\ r \in Seq(Received) /\ Len(r) = IF c + 1 <= Len(q) THEN Len(q) - (c + 1) + 1 ELSE 0
          /\ \A i \in 1 .. Len(q) - (c + 1) + 1 : r[i] = q[(c + 1) + i - 1]
      BY <3>1, SubSeqProperties
    <3>3. /\ Len(q) - (c + 1) + 1 = Len(q) - c
          /\ (IF c + 1 <= Len(q) THEN Len(q) - (c + 1) + 1 ELSE 0) = Len(q) - c
          /\ \A i \in 1 .. Len(q) - c : (c + 1) + i - 1 = c + i
      <4>1. Len(q) \in Nat /\ c \in Nat /\ c <= Len(q)
        BY <1>1, <2>2
      <4> QED BY <4>1
    <3> HIDE DEF r
    <3> QED BY <3>2, <3>3
  <2> HIDE DEF l, r
  <2> DEFINE w == l \o r
  <2>7. /\ w \in Seq(Received) /\ Len(w) = Len(q) - 1
        /\ \A i \in 1 .. Len(q) - 1 : w[i] = IF i <= c - 1 THEN l[i] ELSE r[i - (c - 1)]
    <3>1. /\ w \in Seq(Received) /\ Len(w) = Len(l) + Len(r)
          /\ \A i \in 1 .. Len(l) + Len(r) : w[i] = IF i <= Len(l) THEN l[i] ELSE r[i - Len(l)]
      BY <2>5, <2>6, ConcatProperties
    <3>2. Len(l) = c - 1 /\ Len(l) + Len(r) = Len(q) - 1
      BY <1>1, <2>2, <2>5, <2>6
    <3> QED BY <3>1, <3>2
  <2> HIDE DEF w
  <2>8. \A i \in 1 .. Len(q) - 1 :
           /\ w[i] = q[i + (IF i < c THEN 0 ELSE 1)]
           /\ i + (IF i < c THEN 0 ELSE 1) \in (1 .. Len(q)) \ {c}
    <3> SUFFICES ASSUME NEW i \in 1 .. Len(q) - 1
                 PROVE  /\ w[i] = q[i + (IF i < c THEN 0 ELSE 1)]
                        /\ i + (IF i < c THEN 0 ELSE 1) \in (1 .. Len(q)) \ {c}
      OBVIOUS
    <3>1. CASE i < c
      <4>1. i \in 1 .. c - 1 /\ i <= c - 1
        BY <1>1, <2>2, <3>1
      <4> QED BY <1>1, <2>2, <2>5, <2>7, <3>1, <4>1
    <3>2. CASE ~(i < c)
      <4>1. i - (c - 1) \in 1 .. Len(q) - c /\ ~(i <= c - 1) /\ c + (i - (c - 1)) = i + 1
        BY <1>1, <2>2, <3>2
      <4>2. w[i] = q[c + (i - (c - 1))]
        BY <2>6, <2>7, <4>1
      <4> QED BY <1>1, <2>2, <3>2, <4>1, <4>2
    <3> QED BY <3>1, <3>2
  <2>9. TakenFrom(w, q, c)
    BY <2>7, <2>8 DEF TakenFrom
  <2>10. /\ Range(w) \subseteq Range(q)
         /\ NoTwice(w) /\ Ascending(w)
    <3>1. c \in Nat
      BY <2>2
    <3> QED BY <2>7, <2>9, <3>1, TakenFacts
  <2>11. ASSUME NEW m \in Range(w) PROVE m.seq # seq
    <3>1. PICK i \in 1 .. Len(q) - 1 : m = w[i]
      <4>1. Range(w) = {w[i] : i \in 1 .. Len(w)}
        BY <2>7, RangeEquality
      <4> QED BY <2>7, <4>1
    <3>2. PICK p \in (1 .. Len(q)) \ {c} : m = q[p]
      BY <2>8, <3>1
    <3> QED BY <1>1, <2>2, <3>2 DEF NoTwice
  <2> QED BY <2>4, <2>7, <2>10, <2>11 DEF w
<1> QED BY <1>2, <1>3

LEMMA StoreIncomingStep ==
    ASSUME IInv, NEW seq \in SeqNrs, StoreIncoming(seq)
    PROVE  TypeOK' /\ (ReadsAll /\ NoTwice(in) /\ InOrder /\ Counted)'
<1> DEFINE o == Others(in, seq)
           e == [seq |-> seq, at |-> hist.stored + 1]
<1>1. TypeOK /\ InType /\ HistType /\ NoTwice(in) /\ InOrder /\ Ascending(in)
  BY DEF IInv, TypeOK, InOrder
<1>2. /\ in \in Seq(Received) /\ mainQue \in Seq(Received) /\ hist.stored \in Nat
      /\ hist.delivered \in Seq(Nat)
  BY <1>1 DEF InType, TypeOK, HistType
<1>3. /\ o \in Seq(Received) /\ Range(o) \subseteq Range(in)
      /\ NoTwice(o) /\ Ascending(o) /\ \A m \in Range(o) : m.seq # seq
  BY <1>1, <1>2, OthersFacts
<1>4. /\ Len(o) < Slots /\ in' = Append(RoomFor(o), e) /\ nMes' = Len(in')
      /\ hist' = [hist EXCEPT !.stored = @ + 1, !.broken = FALSE]
      /\ left > 0 /\ left' = left - 1
      /\ UNCHANGED <<out, sendIdx, nextNr, round, count, reading, linked, mainQue>>
  BY DEF StoreIncoming, Budget, outgoing
<1>5. e \in Received /\ e.seq = seq /\ e.at = hist.stored + 1
  BY <1>2 DEF Received
<1> HIDE DEF o, e
<1>6. in' = Append(o, e)
  <2>1. Len(o) \in Nat
    BY <1>3, LenProperties
  <2> QED BY <1>4, <2>1, Sizes DEF RoomFor
<1>7. /\ hist'.stored = hist.stored + 1 /\ hist'.delivered = hist.delivered /\ HistType'
  <2>1. hist.stored + 1 \in Nat
    BY <1>2
  <2> QED BY <1>1, <1>4, <2>1 DEF HistType
<1>8. /\ \A n \in Range(in) : n \in Received /\ n.at \in Nat /\ n.at < e.at
      /\ \A n \in Range(mainQue) : n \in Received /\ n.at \in Nat /\ n.at < e.at
      /\ \A d \in AllDelivered : d \in Nat /\ d < e.at
  <2>1. \A n \in Range(in) \cup Range(mainQue) : n \in Received /\ n.at \in Nat
    BY <1>2, ReceivedType
  <2>2. \A d \in AllDelivered : d \in Nat
    BY <1>2, RangeOfSeq DEF AllDelivered
  <2>3. /\ \A n \in Range(in) \cup Range(mainQue) : n.at <= hist.stored
        /\ \A d \in AllDelivered : d <= hist.stored
    BY <1>1 DEF InOrder
  <2> QED BY <1>2, <1>5, <2>1, <2>2, <2>3
<1>9. /\ in' \in Seq(Received) /\ Range(in') = Range(o) \cup {e}
      /\ Ascending(in') /\ NoTwice(in')
  BY <1>3, <1>5, <1>6, <1>8, AppendOrder
<1>10. Len(in') \in Nat
  BY <1>9, LenProperties
<1>11. TypeOK'
  <2>1. left' \in Nat
    BY <1>1, <1>4 DEF TypeOK
  <2> QED BY <1>1, <1>4, <1>7, <1>9, <1>10, <2>1 DEF TypeOK, OutType, InType
<1>12. InOrder'
  <2>1. AllDelivered' = AllDelivered /\ Range(mainQue') = Range(mainQue)
    BY <1>4, <1>7 DEF AllDelivered
  <2>2. /\ Ascending(mainQue')
        /\ \A i, j \in DOMAIN hist'.delivered : i < j => hist'.delivered[i] < hist'.delivered[j]
    BY <1>1, <1>4, <1>7 DEF InOrder
  <2>3. /\ \A m \in Range(mainQue'), n \in Range(in') : m.at < n.at
        /\ \A d \in AllDelivered', n \in Range(in') \cup Range(mainQue') : d < n.at
    BY <1>1, <1>3, <1>8, <1>9, <2>1 DEF InOrder
  <2>4. /\ \A n \in Range(in') \cup Range(mainQue') : n.at <= hist'.stored
        /\ \A d \in AllDelivered' : d <= hist'.stored
    BY <1>2, <1>3, <1>5, <1>7, <1>8, <1>9, <2>1
  <2> QED BY <1>9, <2>2, <2>3, <2>4 DEF InOrder
<1>13. ReadsAll' /\ Counted'
  BY <1>4 DEF StoreIncoming, CommIdle, ReadsAll, Counted
<1> QED BY <1>9, <1>11, <1>12, <1>13

LEMMA ReadAllStep ==
    ASSUME IInv, ReadAll
    PROVE  TypeOK' /\ (ReadsAll /\ NoTwice(in) /\ InOrder /\ Counted)'
<1>1. TypeOK /\ InType /\ NoTwice(in) /\ InOrder /\ Counted
  BY DEF IInv, TypeOK
<1>2. Len(in) \in Nat /\ (Len(in) = 0 => in = <<>>) /\ (in = <<>> => Len(in) = 0)
  BY <1>1, LenProperties, EmptySeq DEF InType
<1>3. /\ reading = 0 /\ reading' = Len(in) /\ nMes' = IF in = <<>> THEN 0 ELSE nMes
      /\ left > 0 /\ left' = left - 1
      /\ UNCHANGED <<out, sendIdx, nextNr, round, count, in, linked, mainQue, hist>>
  BY DEF ReadAll, Budget, CommIdle, outgoing
<1>4. TypeOK'
  <2>1. left' \in Nat /\ nMes' \in Nat
    BY <1>1, <1>3 DEF TypeOK, InType
  <2> QED BY <1>1, <1>2, <1>3, <2>1 DEF TypeOK, OutType, InType, HistType
<1>5. NoTwice(in)' /\ InOrder'
  BY <1>1, <1>3 DEF NoTwice, InOrder, Ascending, AllDelivered, Range
<1>6. ReadsAll' /\ Counted'
  BY <1>1, <1>2, <1>3 DEF ReadsAll, Counted
<1> QED BY <1>4, <1>5, <1>6

LEMMA ReadMessageStep ==
    ASSUME IInv, ReadMessage
    PROVE  TypeOK' /\ (ReadsAll /\ NoTwice(in) /\ InOrder /\ Counted)'
<1>1. /\ TypeOK /\ InType /\ HistType /\ NoTwice(in) /\ InOrder /\ ReadsAll
      /\ Ascending(in) /\ Ascending(mainQue)
  BY DEF IInv, TypeOK, InOrder
<1>2. /\ in \in Seq(Received) /\ mainQue \in Seq(Received) /\ reading \in Nat /\ nMes \in Nat
      /\ reading > 0 /\ reading = Len(in)
  BY <1>1 DEF InType, TypeOK, ReadsAll, ReadMessage
<1>3. in # <<>>
  BY <1>2, EmptySeq
<1>4. /\ Tail(in) \in Seq(Received) /\ Len(Tail(in)) = Len(in) - 1 /\ Len(in) \in Nat \ {0}
      /\ Range(Tail(in)) \subseteq Range(in) /\ Ascending(Tail(in)) /\ NoTwice(Tail(in))
      /\ Head(in) \in Range(in) /\ \A m \in Range(Tail(in)) : Head(in).at < m.at
  BY <1>1, <1>2, <1>3, TailTaken, TakenFacts
<1>5. in' = Tail(in) /\ UNCHANGED <<out, sendIdx, nextNr, round, count, linked, left>>
  BY <1>3 DEF ReadMessage, RemoveOldest, outgoing
<1>6. /\ hist'.stored = hist.stored /\ hist'.delivered = hist.delivered /\ HistType'
      /\ linked => hist' = [hist EXCEPT !.broken = FALSE]
      /\ ~linked => hist'.broken
  BY <1>1 DEF ReadMessage, HistType
<1>7. /\ \A n \in Range(in) : n \in Received /\ n.at \in Nat
      /\ \A n \in Range(mainQue) : n \in Received /\ n.at \in Nat
  BY <1>2, ReceivedType
<1>8. /\ mainQue' \in Seq(Received) /\ Ascending(mainQue')
      /\ Range(mainQue') \subseteq Range(mainQue) \cup {Head(in)}
  <2>1. CASE mainQue' = mainQue
    BY <1>1, <1>2, <2>1
  <2>2. CASE mainQue' = Append(mainQue, Head(in))
    <3>1. \A m \in Range(mainQue) : m.at < Head(in).at
      BY <1>1, <1>4 DEF InOrder
    <3> QED BY <1>1, <1>2, <1>4, <1>7, <2>2, <3>1, AppendOrder
  <2>3. CASE mainQue' = <<Head(in)>>
    <3>1. Head(in) \in Received
      BY <1>4, <1>7
    <3>2. /\ mainQue' \in Seq(Received) /\ DOMAIN mainQue' = {1} /\ mainQue'[1] = Head(in)
      BY <2>3, <3>1
    <3> QED BY <3>2 DEF Ascending, Range
  <2> QED BY <2>1, <2>2, <2>3 DEF ReadMessage
<1>9. reading' \in Nat /\ nMes' \in Nat
  BY <1>2 DEF ReadMessage, EndReading
<1>10. TypeOK'
  BY <1>1, <1>4, <1>5, <1>6, <1>8, <1>9 DEF TypeOK, OutType, InType
<1>11. InOrder'
  <2>1. AllDelivered' = AllDelivered
    BY <1>6 DEF AllDelivered
  <2>2. \A i, j \in DOMAIN hist'.delivered : i < j => hist'.delivered[i] < hist'.delivered[j]
    BY <1>1, <1>6 DEF InOrder
  <2>3. \A m \in Range(mainQue'), n \in Range(in') : m.at < n.at
    BY <1>1, <1>4, <1>5, <1>8 DEF InOrder
  <2>4. \A d \in AllDelivered', n \in Range(in') \cup Range(mainQue') : d < n.at
    BY <1>1, <1>4, <1>5, <1>8, <2>1 DEF InOrder
  <2>5. /\ \A n \in Range(in') \cup Range(mainQue') : n.at <= hist'.stored
        /\ \A d \in AllDelivered' : d <= hist'.stored
    BY <1>1, <1>4, <1>5, <1>6, <1>8, <2>1 DEF InOrder
  <2> QED BY <1>4, <1>5, <1>8, <2>2, <2>3, <2>4, <2>5 DEF InOrder
<1>12. ReadsAll' /\ Counted'
  <2>1. CASE ~linked
    BY <1>6, <2>1 DEF ReadMessage, EndReading, ReadsAll, Counted
  <2>2. CASE linked /\ reading = 1
    BY <1>2, <1>4, <1>5, <2>2 DEF ReadMessage, EndReading, ReadsAll, Counted
  <2>3. CASE linked /\ reading # 1
    <3>1. reading' = reading - 1
      BY <2>3 DEF ReadMessage
    <3> QED BY <1>2, <1>4, <1>5, <2>3, <3>1 DEF ReadsAll, Counted
  <2> QED BY <2>1, <2>2, <2>3
<1> QED BY <1>4, <1>5, <1>10, <1>11, <1>12

LEMMA DeliverStep ==
    ASSUME IInv, Deliver
    PROVE  TypeOK' /\ (ReadsAll /\ NoTwice(in) /\ InOrder /\ Counted)'
<1> DEFINE a == Append(hist.delivered, Head(mainQue).at)
<1>1. /\ TypeOK /\ InType /\ HistType /\ InOrder /\ Ascending(mainQue)
      /\ ReadsAll /\ NoTwice(in) /\ Counted
  BY DEF IInv, TypeOK, InOrder
<1>2. mainQue \in Seq(Received) /\ mainQue # <<>> /\ hist.delivered \in Seq(Nat)
  BY <1>1 DEF TypeOK, HistType, Deliver
<1>3. /\ Tail(mainQue) \in Seq(Received) /\ Range(Tail(mainQue)) \subseteq Range(mainQue)
      /\ Ascending(Tail(mainQue))
      /\ Head(mainQue) \in Range(mainQue) /\ \A m \in Range(Tail(mainQue)) : Head(mainQue).at < m.at
  BY <1>1, <1>2, TailTaken, TakenFacts
<1>4. /\ mainQue' = Tail(mainQue)
      /\ hist' = IF linked THEN [hist EXCEPT !.delivered = a] ELSE hist
      /\ UNCHANGED <<out, sendIdx, nextNr, round, count, in, reading, nMes, linked, left>>
  BY DEF Deliver, outgoing, incoming
<1>5. Head(mainQue).at \in Nat
  BY <1>2, <1>3, ReceivedType
<1>6. /\ Len(hist.delivered) \in Nat /\ DOMAIN hist.delivered = 1 .. Len(hist.delivered)
      /\ a \in Seq(Nat) /\ DOMAIN a = 1 .. Len(hist.delivered) + 1
      /\ \A i \in 1 .. Len(hist.delivered) : a[i] = hist.delivered[i]
      /\ a[Len(hist.delivered) + 1] = Head(mainQue).at
  BY <1>2, <1>5, AppendFacts
<1> HIDE DEF a
<1>7. /\ hist'.stored = hist.stored /\ hist'.broken = hist.broken
      /\ hist'.delivered \in {a, hist.delivered} /\ HistType'
  BY <1>1, <1>4, <1>6 DEF HistType
<1>8. \A i \in DOMAIN a : i \in DOMAIN hist.delivered \/ i = Len(hist.delivered) + 1
  BY <1>6
<1>9. Range(a) \subseteq AllDelivered \cup {Head(mainQue).at}
  BY <1>6, <1>8 DEF Range, AllDelivered
<1>10. TypeOK'
  BY <1>1, <1>3, <1>4, <1>7 DEF TypeOK, OutType, InType
<1>11. InOrder'
  <2>1. AllDelivered' \subseteq AllDelivered \cup {Head(mainQue).at}
    BY <1>7, <1>9 DEF AllDelivered
  <2>2. \A i, j \in DOMAIN a : i < j => a[i] < a[j]
    <3> SUFFICES ASSUME NEW i \in DOMAIN a, NEW j \in DOMAIN a, i < j PROVE a[i] < a[j]
      OBVIOUS
    <3>1. i \in DOMAIN hist.delivered /\ a[i] = hist.delivered[i]
      BY <1>6
    <3>2. CASE j \in DOMAIN hist.delivered
      BY <1>1, <1>6, <3>1, <3>2 DEF InOrder
    <3>3. CASE j = Len(hist.delivered) + 1
      BY <1>1, <1>3, <1>6, <3>1, <3>3 DEF InOrder, AllDelivered, Range
    <3> QED BY <1>8, <3>2, <3>3
  <2>3. \A i, j \in DOMAIN hist'.delivered : i < j => hist'.delivered[i] < hist'.delivered[j]
    BY <1>1, <1>7, <2>2 DEF InOrder
  <2>4. \A m \in Range(mainQue'), n \in Range(in') : m.at < n.at
    BY <1>1, <1>3, <1>4 DEF InOrder
  <2>5. \A d \in AllDelivered', n \in Range(in') \cup Range(mainQue') : d < n.at
    BY <1>1, <1>3, <1>4, <2>1 DEF InOrder
  <2>6. /\ \A n \in Range(in') \cup Range(mainQue') : n.at <= hist'.stored
        /\ \A d \in AllDelivered' : d <= hist'.stored
    BY <1>1, <1>3, <1>4, <1>7, <2>1 DEF InOrder
  <2>7. Ascending(in')
    BY <1>1, <1>4 DEF InOrder
  <2> QED BY <1>3, <1>4, <2>3, <2>4, <2>5, <2>6, <2>7 DEF InOrder
<1>12. ReadsAll' /\ NoTwice(in)' /\ Counted'
  BY <1>1, <1>4, <1>7 DEF ReadsAll, NoTwice, Counted
<1> QED BY <1>10, <1>11, <1>12

(* What sending leaves of the other half, and what reading leaves of it.   *)
LEMMA SendingLeaves ==
    ASSUME IInv, StartRound \/ SendMessage
    PROVE  /\ UNCHANGED <<incoming, mainQue>> /\ hist'.stored = hist.stored
           /\ hist'.delivered = hist.delivered /\ hist'.broken = hist.broken
<1>1. HistType
  BY DEF IInv, TypeOK
<1> QED BY <1>1 DEF StartRound, SendMessage, HistType

LEMMA ReadingLeaves ==
    ASSUME IInv, ReadAll \/ ReadMessage \/ Deliver \/ \E seq \in SeqNrs : StoreIncoming(seq)
    PROVE  /\ UNCHANGED <<out, sendIdx, round>>
           /\ hist'.before = hist.before /\ hist'.sent = hist.sent
<1>1. HistType
  BY DEF IInv, TypeOK
<1>2. CASE ReadAll
  BY <1>2 DEF ReadAll, outgoing
<1>3. CASE ReadMessage
  BY <1>1, <1>3 DEF ReadMessage, HistType, outgoing
<1>4. CASE Deliver
  BY <1>1, <1>4 DEF Deliver, HistType, outgoing
<1>5. CASE \E seq \in SeqNrs : StoreIncoming(seq)
  BY <1>1, <1>5 DEF StoreIncoming, HistType, outgoing
<1> QED BY <1>2, <1>3, <1>4, <1>5

LEMMA ElsewhereStep ==
    ASSUME IInv, Link \/ \E c \in RetryCounts : SetCount(c)
    PROVE  TypeOK' /\ UNCHANGED <<out, sendIdx, round, hist, incoming, mainQue>>
<1>1. TypeOK /\ RetryCounts \subseteq Nat
  BY MessagingAssumption DEF IInv
<1>2. CASE Link
  BY <1>1, <1>2 DEF Link, Budget, TypeOK, OutType, InType, HistType, outgoing, incoming
<1>3. CASE \E c \in RetryCounts : SetCount(c)
  BY <1>1, <1>3 DEF SetCount, Budget, TypeOK, OutType, InType, HistType, outgoing, incoming
<1> QED BY <1>2, <1>3

-----------------------------------------------------------------------------
(* Every state                                                             *)

LEMMA InitInv == Init => IInv
<1> SUFFICES ASSUME Init PROVE IInv
  OBVIOUS
<1>1. TypeOK
  <2>1. RetryCounts \subseteq Nat /\ Bound \in Nat
    BY MessagingAssumption
  <2>2. <<>> \in Seq(Message) /\ <<>> \in Seq(Received) /\ <<>> \in Seq(Nat)
    BY EmptySeq
  <2> HIDE DEF Message, Received
  <2>3. OutType /\ InType
    BY <2>2 DEF Init, OutType, InType
  <2>4. HistType
    BY <2>2 DEF Init, HistType
  <2> QED BY <2>1, <2>2, <2>3, <2>4 DEF Init, TypeOK
<1>2. RoundFollows /\ OldestMost /\ ReadsAll /\ NoTwice(in) /\ Counted
  BY DEF Init, RoundFollows, RoundSendsEach, OldestMost, ReadsAll, NoTwice, Counted
<1>3. InOrder
  BY DEF Init, InOrder, Ascending, Range, AllDelivered
<1> QED BY <1>1, <1>2, <1>3 DEF IInv

LEMMA NextInv == IInv /\ [Next]_vars => IInv'
<1> SUFFICES ASSUME IInv, [Next]_vars PROVE IInv'
  OBVIOUS
<1>1. CASE StoreOutgoing
  <2>1. UNCHANGED <<incoming, mainQue, hist>>
    BY <1>1 DEF StoreOutgoing
  <2> QED BY <1>1, <2>1, StoreOutgoingStep, IncomingKept DEF IInv
<1>2. CASE StartRound
  BY <1>2, StartRoundStep, SendingLeaves, IncomingKept DEF IInv
<1>3. CASE SendMessage
  BY <1>3, SendMessageStep, SendingLeaves, IncomingKept DEF IInv
<1>4. CASE ReadAll
  BY <1>4, ReadAllStep, OutgoingKept, ReadingLeaves DEF IInv
<1>5. CASE ReadMessage
  BY <1>5, ReadMessageStep, OutgoingKept, ReadingLeaves DEF IInv
<1>6. CASE Deliver
  BY <1>6, DeliverStep, OutgoingKept, ReadingLeaves DEF IInv
<1>7. CASE Link \/ \E c \in RetryCounts : SetCount(c)
  <2>1. TypeOK' /\ UNCHANGED <<out, sendIdx, round, hist, incoming, mainQue>>
    BY <1>7, ElsewhereStep
  <2> QED BY <2>1, OutgoingKept, IncomingKept DEF IInv
<1>8. ASSUME NEW seq \in SeqNrs, StoreIncoming(seq) PROVE IInv'
  BY <1>8, StoreIncomingStep, OutgoingKept, ReadingLeaves DEF IInv
<1>9. CASE UNCHANGED vars
  <2>1. TypeOK'
    BY <1>9 DEF IInv, TypeOK, OutType, InType, HistType, vars, outgoing, incoming
  <2>2. UNCHANGED <<out, sendIdx, round, hist, incoming, mainQue>>
    BY <1>9 DEF vars, outgoing
  <2> QED BY <2>1, <2>2, OutgoingKept, IncomingKept DEF IInv
<1> QED BY <1>1, <1>2, <1>3, <1>4, <1>5, <1>6, <1>7, <1>8, <1>9 DEF Next

LEMMA Invariant == Spec => []IInv
BY InitInv, NextInv, PTL DEF Spec

(* Every variable keeps its type.                                          *)
THEOREM TypeCorrect == Spec => []TypeOK
<1>1. IInv => TypeOK
  BY DEF IInv
<1> QED BY <1>1, Invariant, PTL

(* A round sends every message of the store once and in order, although    *)
(* the code removes the first of the store and not the one it has sent     *)
(* (lr_messaging.c:332).                                                   *)
THEOREM RoundCorrect == Spec => []RoundSendsEach
<1>1. IInv => RoundSendsEach
  BY DEF IInv, RoundFollows
<1> QED BY <1>1, Invariant, PTL

(* The phone is told how many messages wait, none waits twice, and it gets *)
(* them in the order they came.                                            *)
THEOREM UnreadCorrect == Spec => []UnreadCounted
<1>1. IInv => UnreadCounted
  <2> SUFFICES ASSUME IInv PROVE UnreadCounted
    OBVIOUS
  <2>1. in \in Seq(Received) /\ NoTwice(in) /\ Counted /\ InOrder
    BY DEF IInv, TypeOK, InType
  <2> DEFINE s == [i \in DOMAIN in |-> in[i].seq]
             T == {in[i].seq : i \in DOMAIN in}
  <2>2. Len(in) \in Nat /\ DOMAIN in = 1 .. Len(in)
    BY <2>1, LenProperties
  <2>3. s \in [1 .. Len(in) -> T]
    BY <2>2
  <2>4. s \in Seq(T) /\ Len(s) = Len(in) /\ DOMAIN s = DOMAIN in
    BY <2>2, <2>3
  <2>5. \A i, j \in DOMAIN s : s[i] = s[j] => i = j
    BY <2>1 DEF NoTwice
  <2>6. Cardinality({s[i] : i \in DOMAIN s}) = Len(in)
    BY <2>4, <2>5, DistinctValues
  <2>7. {s[i] : i \in DOMAIN s} = T
    OBVIOUS
  <2>8. Cardinality(T) = Len(in)
    BY <2>6, <2>7
  <2> QED BY <2>1, <2>8 DEF UnreadCounted, Counted, InOrder
<1> QED BY <1>1, Invariant, PTL

LEMMA LeavesStep ==
    ASSUME IInv, Next, NEW i \in DOMAIN out, \A j \in DOMAIN out' : out'[j].seq # out[i].seq
    PROVE  out[i].retry + (IF i = sendIdx + 1 THEN 1 ELSE 0) >= count
<1>1. OutType /\ OldestMost /\ count \in Nat /\ out \in Seq(Message) /\ Len(out) \in Nat
  BY LenProperties DEF IInv, TypeOK, OutType
<1>2. out' # out
  OBVIOUS
<1>3. CASE StoreOutgoing
  <2>1. RoomFor(out) = out
    BY <1>1, <1>3, Sizes DEF StoreOutgoing, RoomFor
  <2>2. [seq |-> nextNr', retry |-> 0] \in Message
    BY <1>1, <1>3 DEF StoreOutgoing, OutType, Message
  <2> DEFINE e == [seq |-> nextNr', retry |-> 0]
  <2>3. out' = Append(out, e) /\ e \in Message
    BY <1>3, <2>1, <2>2 DEF StoreOutgoing
  <2> HIDE DEF e
  <2>4. i \in DOMAIN out' /\ out'[i] = out[i]
    BY <1>1, <2>3, AppendFacts
  <2> QED BY <2>4
<1>4. CASE SendMessage
  <2>1. /\ DOMAIN out = 1 .. Len(out) /\ sendIdx + 1 \in 1 .. Len(out) /\ sendIdx \in Nat
        /\ \A j \in 1 .. Len(out) : out[j].retry \in Nat
    BY <1>1, <1>4, SendFacts DEF OutType
  <2>2. PICK d \in {0, 1} : Sends(d)
    BY <1>4, SendFacts
  <2>3. /\ DOMAIN out' = 1 .. Len(out) - d
        /\ \A j \in 1 .. Len(out) - d : out'[j].seq = out[j + d].seq
    BY <2>2, LenProperties DEF Sends
  <2>4. d = 1 /\ i = 1
    <3>1. ~(i - d \in 1 .. Len(out) - d)
      <4>1. i - d + d = i
        BY <2>1
      <4> QED BY <2>3, <4>1
    <3> QED BY <1>1, <2>1, <3>1
  <2>5. out[sendIdx + 1].retry + 1 >= count
    BY <2>2, <2>4 DEF Sends
  <2>6. CASE sendIdx = 0
    BY <2>4, <2>5, <2>6
  <2>7. CASE sendIdx > 0
    <3>1. 1 \in DOMAIN out /\ 1 < sendIdx + 1 /\ 1 <= sendIdx /\ sendIdx < sendIdx + 1
      BY <1>1, <2>1, <2>7
    <3>2. out[1].retry >= out[sendIdx + 1].retry + 1
      BY <1>1, <2>1, <3>1 DEF OldestMost
    <3>3. out[1].retry \in Nat /\ out[sendIdx + 1].retry \in Nat
      BY <2>1, <3>1
    <3>4. out[1].retry >= count
      BY <1>1, <2>5, <3>2, <3>3
    <3>5. i # sendIdx + 1
      BY <2>1, <2>4, <2>7
    <3> QED BY <1>1, <2>4, <3>3, <3>4, <3>5
  <2> QED BY <2>1, <2>6, <2>7
<1> QED BY <1>2, <1>3, <1>4
        DEF Next, StartRound, ReadAll, ReadMessage, Deliver, Link, SetCount, StoreIncoming, outgoing

(* A message leaves the store only after as many repetitions as the        *)
(* setting then asks for, also when it changes in the middle of a round.   *)
THEOREM LeavesCorrect == Spec => LeavesAfterRetries
<1>1. IInv /\ [Next]_vars =>
         [\A i \in DOMAIN out :
             (\A j \in DOMAIN out' : out'[j].seq # out[i].seq)
                 => out[i].retry + (IF i = sendIdx + 1 THEN 1 ELSE 0) >= count]_vars
  BY LeavesStep
<1> QED BY <1>1, Invariant, PTL DEF Spec, LeavesAfterRetries
=============================================================================
