-------------------------- MODULE Satellite_proofs --------------------------
(***************************************************************************)
(* Proofs about Satellite for every size of the queue and of the buffer,   *)
(* every number of retries and however many commands to the modem fail.    *)
(***************************************************************************)
EXTENDS Satellite, SequenceTheorems, TLAPS

(* What the modem holds: nothing until it is written; then what is in the  *)
(* buffer, or nothing and the messages are in doubt; once a session        *)
(* succeeded at most copies.                                               *)
ModemFollows ==
    /\ sat.at \in {"idle", "switchOn", "write"} => modem = NoMessages
    /\ At("send") =>
          \/ modem.out = buf
          \/ modem.out = <<>> /\ Numbers(buf) \subseteq hist.doubt
    /\ sat.at \in {"receive", "more"} =>
          /\ sat.received <= Receives
          /\ Numbers(modem.out) \subseteq hist.again
    /\ At("receive") => modem.handed = 0
    /\ modem.handed <= 1

(* Numbers are given in order, to messages only, and none beyond the       *)
(* bound.                                                                  *)
Counted ==
    /\ hist.made + left <= Bound
    /\ \A i \in DOMAIN que : /\ que[i].no <= hist.made
                             /\ que[i].cmd = "message" \/ que[i].no = 0
    /\ \A i \in DOMAIN buf : buf[i].no <= hist.made

Before(s, t) == \A i \in DOMAIN s, j \in DOMAIN t :
    s[i].no = 0 \/ t[j].no = 0 \/ s[i].no < t[j].no
Ordered(s)   == \A i, j \in DOMAIN s :
    i < j => s[i].no = 0 \/ s[j].no = 0 \/ s[i].no < s[j].no
Older(s)     == \A i \in DOMAIN gateway : \A a \in DOMAIN gateway[i] :
    \/ gateway[i][a] \in hist.again \cup {0}
    \/ \A j \in DOMAIN s : s[j].no = 0 \/ gateway[i][a] < s[j].no

(* Messages keep their order: what is at the gateway is older than what is *)
(* in the buffer, and that older than what is queued.                      *)
InOrder ==
    /\ Ordered(que) /\ Ordered(buf) /\ Before(buf, que)
    /\ Older(que) /\ Older(buf)
    /\ \A i \in DOMAIN gateway : \A a \in DOMAIN gateway[i] :
          gateway[i][a] \in hist.again \cup {0} \/ gateway[i][a] <= hist.made
    /\ OnceAtGateway

IInv == TypeOK /\ ModemFollows /\ Counted /\ NothingLost /\ InOrder

-----------------------------------------------------------------------------
(* Sequences of entries                                                    *)

CmdEntries == [cmd : {"message", "send", "order", "enable"},
               no : 0 .. Bound, size : 0 .. Cap]

(* An appended entry comes last.                                           *)
LEMMA AppendFacts ==
    ASSUME NEW S, NEW s \in Seq(S), NEW e \in S
    PROVE  /\ Append(s, e) \in Seq(S)
           /\ Len(Append(s, e)) = Len(s) + 1
           /\ DOMAIN Append(s, e) = DOMAIN s \cup {Len(s) + 1}
           /\ \A i \in DOMAIN s : Append(s, e)[i] = s[i] /\ i \in Nat /\ i <= Len(s)
           /\ Append(s, e)[Len(s) + 1] = e
           /\ Len(s) \in Nat
<1>1. Len(s) \in Nat /\ DOMAIN s = 1 .. Len(s)
  BY LenProperties
<1>2. /\ Append(s, e) \in Seq(S)
      /\ Len(Append(s, e)) = Len(s) + 1
      /\ \A i \in 1 .. Len(s) : Append(s, e)[i] = s[i]
      /\ Append(s, e)[Len(s) + 1] = e
  BY AppendProperties
<1>3. DOMAIN Append(s, e) = 1 .. Len(s) + 1
  BY <1>2, LenProperties
<1>4. 1 .. Len(s) + 1 = 1 .. Len(s) \cup {Len(s) + 1}
  BY <1>1
<1> QED BY <1>1, <1>2, <1>3, <1>4

LEMMA AppendNumbers ==
    ASSUME NEW S, NEW s \in Seq(S), NEW e \in S
    PROVE  Numbers(Append(s, e)) = Numbers(s) \cup ({e.no} \ {0})
<1>1. /\ DOMAIN Append(s, e) = DOMAIN s \cup {Len(s) + 1}
      /\ \A i \in DOMAIN s : Append(s, e)[i] = s[i]
      /\ Append(s, e)[Len(s) + 1] = e
  BY AppendFacts
<1> QED BY <1>1 DEF Numbers

(* The rest of a sequence is a part of it, in the same order.              *)
LEMMA RestFacts ==
    ASSUME NEW S, NEW s \in Seq(S), NEW k \in 0 .. Len(s)
    PROVE  LET t == SubSeq(s, k + 1, Len(s))
           IN  /\ t \in Seq(S)
               /\ Len(t) = Len(s) - k
               /\ DOMAIN t = 1 .. Len(s) - k
               /\ DOMAIN s = 1 .. Len(s)
               /\ Len(s) \in Nat
               /\ \A i \in DOMAIN t : /\ t[i] = s[i + k]
                                      /\ i \in Nat /\ i + k \in DOMAIN s
<1> DEFINE t == SubSeq(s, k + 1, Len(s))
<1>1. Len(s) \in Nat /\ DOMAIN s = 1 .. Len(s) /\ k \in Nat /\ k <= Len(s)
  BY LenProperties
<1>2. \A i \in k + 1 .. Len(s) : s[i] \in S
  BY <1>1, ElementOfSeq
<1>3. /\ t \in Seq(S)
      /\ Len(t) = IF k + 1 <= Len(s) THEN Len(s) - (k + 1) + 1 ELSE 0
      /\ \A i \in 1 .. Len(s) - (k + 1) + 1 : t[i] = s[k + 1 + i - 1]
  BY <1>1, <1>2, SubSeqProperties
<1>4. Len(t) = Len(s) - k
  <2>1. ASSUME NEW n \in Nat, NEW m, k \in Nat, k <= n,
               m = IF k + 1 <= n THEN n - (k + 1) + 1 ELSE 0
        PROVE  m = n - k
    <3>1. CASE k + 1 <= n
      BY <2>1, <3>1
    <3>2. CASE k = n
      BY <2>1, <3>2
    <3> QED BY <2>1, <3>1, <3>2
  <2>2. Len(t) = IF k + 1 <= Len(s) THEN Len(s) - (k + 1) + 1 ELSE 0
    BY <1>3
  <2> HIDE DEF t
  <2> QED BY <1>1, <2>1, <2>2
<1>5. DOMAIN t = 1 .. Len(s) - k
  BY <1>3, <1>4, LenProperties
<1> HIDE DEF t
<1>6. ASSUME NEW i \in DOMAIN t
      PROVE  t[i] = s[i + k] /\ i \in Nat /\ i + k \in DOMAIN s
  <2>1. i \in Nat /\ 1 <= i /\ i <= Len(s) - k
    BY <1>1, <1>5
  <2>2. i \in 1 .. Len(s) - (k + 1) + 1 /\ k + 1 + i - 1 = i + k /\ i + k \in 1 .. Len(s)
    BY <1>1, <2>1
  <2> QED BY <1>1, <1>3, <2>1, <2>2
<1>7. t = SubSeq(s, k + 1, Len(s))
  BY DEF t
<1> QED BY <1>1, <1>3, <1>4, <1>5, <1>6, <1>7

LEMMA TailFacts ==
    ASSUME NEW S, NEW s \in Seq(S), s # <<>>
    PROVE  /\ Tail(s) \in Seq(S)
           /\ Len(Tail(s)) = Len(s) - 1
           /\ \A i \in DOMAIN Tail(s) : /\ Tail(s)[i] = s[i + 1]
                                        /\ i \in Nat /\ i + 1 \in DOMAIN s /\ 1 < i + 1
           /\ Head(s) = s[1] /\ 1 \in DOMAIN s /\ Head(s) \in S
           /\ \A i \in DOMAIN s : i = 1 \/ i - 1 \in DOMAIN Tail(s)
<1>1. Len(s) \in Nat /\ DOMAIN s = 1 .. Len(s) /\ Len(s) # 0
  BY LenProperties, EmptySeq
<1>2. /\ Tail(s) \in Seq(S)
      /\ Len(Tail(s)) = Len(s) - 1
      /\ \A i \in 1 .. Len(Tail(s)) : Tail(s)[i] = s[i + 1]
      /\ Head(s) \in S
  BY HeadTailProperties
<1>3. DOMAIN Tail(s) = 1 .. Len(s) - 1
  BY <1>2, LenProperties
<1>4. \A i \in 1 .. Len(s) - 1 : i \in Nat /\ i + 1 \in 1 .. Len(s) /\ 1 < i + 1
  BY <1>1
<1>5. Head(s) = s[1] /\ 1 \in DOMAIN s
  BY <1>1
<1>6. \A i \in 1 .. Len(s) : i = 1 \/ i - 1 \in 1 .. Len(s) - 1
  BY <1>1
<1> QED BY <1>1, <1>2, <1>3, <1>4, <1>5, <1>6

LEMMA TailNumbers ==
    ASSUME NEW S, NEW s \in Seq(S), s # <<>>
    PROVE  /\ Numbers(s) \subseteq Numbers(Tail(s)) \cup {Head(s).no}
           /\ Numbers(Tail(s)) \subseteq Numbers(s)
<1>1. ASSUME NEW i \in DOMAIN s
      PROVE  s[i].no \in {Tail(s)[j].no : j \in DOMAIN Tail(s)} \cup {Head(s).no}
  <2>1. CASE i = 1
    BY <2>1, TailFacts
  <2>2. CASE i - 1 \in DOMAIN Tail(s)
    <3>1. Tail(s)[i - 1] = s[(i - 1) + 1] /\ i \in Nat
      BY <2>2, TailFacts, LenProperties
    <3>2. (i - 1) + 1 = i
      BY <3>1
    <3> QED BY <2>2, <3>1, <3>2
  <2> QED BY <2>1, <2>2, TailFacts
<1>2. \A i \in DOMAIN Tail(s) : Tail(s)[i].no \in {s[j].no : j \in DOMAIN s}
  BY TailFacts
<1> QED BY <1>1, <1>2 DEF Numbers

-----------------------------------------------------------------------------
(* The queue                                                               *)

(* Putting an entry: the queue is what it was, or nothing, and the entry.  *)
LEMMA PutFacts ==
    ASSUME que \in Seq(CmdEntries), Len(que) <= QueMax,
           NEW e \in CmdEntries, Put(e)
    PROVE  /\ que' \in Seq(CmdEntries) /\ Len(que') <= QueMax
           /\ \E q \in {que, <<>>} :
                 /\ q \in Seq(CmdEntries)
                 /\ que' = Append(q, e)
                 /\ Numbers(que) \subseteq Numbers(q) \cup hist'.lost
<1>1. QueMax \in Nat /\ 1 <= QueMax
  BY SatelliteAssumption
<1>2. <<>> \in Seq(CmdEntries) /\ Len(<<>>) = 0 /\ Len(que) \in Nat
  BY EmptySeq, LenProperties
<1>3. CASE Len(que) = QueMax
  <2>1. que' = Append(<<>>, e)
    BY <1>3 DEF Put
  <2>2. Numbers(que) \subseteq hist'.lost
    BY <1>3 DEF Put
  <2> QED BY <1>1, <1>2, <2>1, <2>2, AppendFacts
<1>4. CASE Len(que) # QueMax
  <2>1. que' = Append(que, e)
    BY <1>4 DEF Put
  <2> QED BY <1>1, <1>2, <1>4, <2>1, AppendFacts
<1> QED BY <1>3, <1>4

(* Numbers are numbers.                                                    *)
LEMMA NumbersType ==
    ASSUME NEW S, NEW s \in Seq(S), \A e \in S : e.no \in 0 .. Bound
    PROVE  Numbers(s) \subseteq 1 .. Bound
<1>1. \A i \in DOMAIN s : s[i] \in S
  BY ElementOfSeq, LenProperties
<1>2. \A i \in DOMAIN s : s[i].no \in 0 .. Bound
  BY <1>1
<1>3. \A n \in 0 .. Bound : n # 0 => n \in 1 .. Bound
  BY SatelliteAssumption
<1> QED BY <1>2, <1>3 DEF Numbers

Hists == [made : Nat, lost : SUBSET Nat, doubt : SUBSET Nat,
          again : SUBSET Nat]

(* What Put leaves of the history.                                         *)
LEMMA PutHist ==
    ASSUME NEW e, Put(e), hist \in Hists, que \in Seq(CmdEntries)
    PROVE  /\ hist' \in Hists
           /\ hist'.made = IF e.no > 0 THEN hist.made + 1 ELSE hist.made
           /\ hist.lost \subseteq hist'.lost
           /\ hist'.doubt = hist.doubt
           /\ hist'.again = hist.again
<1> DEFINE made == IF e.no > 0 THEN hist.made + 1 ELSE hist.made
           lost == hist.lost \cup IF Len(que) = QueMax THEN Numbers(que) ELSE {}
<1>1. Numbers(que) \subseteq Nat
  <2>1. Numbers(que) \subseteq 1 .. Bound
    <3>1. \A c \in CmdEntries : c.no \in 0 .. Bound
      BY DEF CmdEntries
    <3> QED BY <3>1, NumbersType
  <2> QED BY <2>1, SatelliteAssumption
<1>2. hist' = [hist EXCEPT !.made = made, !.lost = lost]
  BY DEF Put
<1>3. made \in Nat /\ lost \in SUBSET Nat /\ hist.lost \subseteq lost
  BY <1>1 DEF Hists
<1> HIDE DEF made, lost
<1>4. /\ hist' \in Hists /\ hist'.made = made /\ hist'.lost = lost
      /\ hist'.doubt = hist.doubt /\ hist'.again = hist.again
  BY <1>2, <1>3 DEF Hists
<1> QED BY <1>3, <1>4 DEF made

-----------------------------------------------------------------------------
(* Types                                                                   *)

LEMMA TypeInit == Init => TypeOK
<1>1. /\ <<>> \in Seq(CmdEntries) /\ <<>> \in Seq(Entries) /\ <<>> \in Seq(Seq(0 .. Bound))
      /\ Len(<<>>) = 0
  BY EmptySeq
<1> QED BY <1>1, SatelliteAssumption
        DEF Init, TypeOK, Idle, NoMessages, CmdEntries

(* The parts of the type invariant.                                        *)
LEMMA TypeParts ==
    ASSUME TypeOK
    PROVE  /\ que \in Seq(CmdEntries) /\ Len(que) <= QueMax
           /\ buf \in Seq(Entries) /\ modem.out \in Seq(Entries)
           /\ gateway \in Seq(Seq(0 .. Bound))
           /\ hist \in Hists
           /\ \A e \in Entries : e.no \in 0 .. Bound
           /\ \A e \in CmdEntries : e.no \in 0 .. Bound
BY DEF TypeOK, CmdEntries, Entries, Hists

(* A step that takes the first entry of the queue.                         *)
LEMMA TakesFacts ==
    ASSUME TypeOK, NEW cmd, Takes(cmd)
    PROVE  /\ que' \in Seq(CmdEntries) /\ Len(que') <= QueMax
           /\ que # <<>> /\ que' = Tail(que)
           /\ Head(que) \in CmdEntries
<1>1. que \in Seq(CmdEntries) /\ Len(que) <= QueMax /\ que # <<>> /\ que' = Tail(que)
  BY TypeParts DEF Takes
<1>2. Tail(que) \in Seq(CmdEntries) /\ Len(Tail(que)) = Len(que) - 1 /\ Head(que) \in CmdEntries
  BY <1>1, TailFacts
<1>3. QueMax \in Nat /\ Len(que) \in Nat
  BY <1>1, LenProperties, SatelliteAssumption
<1> QED BY <1>1, <1>2, <1>3

(* A session adds to what the gateway has and to the history.              *)
LEMMA SessionFacts ==
    ASSUME TypeOK, NEW f \in BOOLEAN, NEW g \in BOOLEAN, Session(f, g)
    PROVE  /\ gateway' \in Seq(Seq(0 .. Bound))
           /\ modem' \in [out : Seq(Entries), fetched : BOOLEAN, handed : 0 .. 2]
           /\ modem'.handed = 0
           /\ modem'.out = IF g THEN <<>> ELSE modem.out
           /\ hist' \in Hists
           /\ hist'.again = hist.again \cup IF g THEN {} ELSE Numbers(modem.out)
           /\ hist'.made = hist.made /\ hist'.lost = hist.lost
           /\ hist'.doubt = hist.doubt
<1>1. modem.out \in Seq(Entries) /\ <<>> \in Seq(Entries)
  BY TypeParts, EmptySeq
<1>2. Sent \in Seq(0 .. Bound)
  <2>1. DOMAIN modem.out = 1 .. Len(modem.out) /\ Len(modem.out) \in Nat
    BY <1>1, LenProperties
  <2>2. \A i \in 1 .. Len(modem.out) : modem.out[i] \in Entries
    BY <1>1, ElementOfSeq
  <2>3. \A i \in 1 .. Len(modem.out) : modem.out[i].no \in 0 .. Bound
    BY <2>2, TypeParts
  <2> QED BY <2>1, <2>3, IsASeq DEF Sent
<1>3. gateway' \in Seq(Seq(0 .. Bound))
  BY <1>2, TypeParts, AppendFacts DEF Session
<1>4. hist \in Hists
  BY TypeParts
<1> DEFINE a == hist.again \cup IF g THEN {} ELSE Numbers(modem.out)
<1>5. a \in SUBSET Nat
  <2>1. Numbers(modem.out) \subseteq 1 .. Bound
    BY <1>1, TypeParts, NumbersType
  <2>2. Numbers(modem.out) \subseteq Nat
    BY <2>1, SatelliteAssumption
  <2> QED BY <1>4, <2>2 DEF Hists
<1>6. hist' = [hist EXCEPT !.again = a]
  BY DEF Session
<1>7. /\ hist' \in Hists
      /\ hist'.again = a
      /\ hist'.made = hist.made /\ hist'.lost = hist.lost
      /\ hist'.doubt = hist.doubt
  <2> HIDE DEF a
  <2> QED BY <1>4, <1>5, <1>6 DEF Hists
<1> QED BY <1>1, <1>3, <1>7 DEF Session

Places == {"idle", "switchOn", "write", "send", "receive", "more", "off"}
Sats   == [at : Places, tries : Nat, received : 1 .. Receives + 1, more : BOOLEAN]
Modems == [out : Seq(Entries), fetched : BOOLEAN, handed : 0 .. 2]

LEMMA GoesType ==
    ASSUME sat \in Sats, NEW place \in Places, NEW n \in Nat
    PROVE  /\ Goes(place) => sat' \in Sats
           /\ sat' = [sat EXCEPT !.tries = n] => sat' \in Sats
           /\ sat' = [sat EXCEPT !.at = place, !.tries = n] => sat' \in Sats
BY DEF Goes, Sats

LEMMA TypeStep == TypeOK /\ ModemFollows /\ Counted /\ [Next]_vars => TypeOK'
<1> SUFFICES ASSUME TypeOK, ModemFollows, Counted, [Next]_vars
             PROVE  TypeOK'
  OBVIOUS
<1>0. /\ que \in Seq(CmdEntries) /\ Len(que) <= QueMax /\ buf \in Seq(Entries)
      /\ enabled \in BOOLEAN /\ retry \in Retries /\ retry \in Nat /\ left \in 0 .. Bound
      /\ sat \in Sats /\ modem \in Modems /\ modem.out \in Seq(Entries)
      /\ gateway \in Seq(Seq(0 .. Bound)) /\ hist \in Hists
      /\ hist.made \in Nat
  BY SatelliteAssumption DEF TypeOK, CmdEntries, Sats, Modems, Hists, Places
<1> USE DEF settings, link
<1> DEFINE T == /\ que' \in Seq(CmdEntries) /\ Len(que') <= QueMax
                /\ buf' \in Seq(Entries)
                /\ enabled' \in BOOLEAN /\ retry' \in Retries /\ left' \in 0 .. Bound
                /\ sat' \in Sats /\ modem' \in Modems
                /\ gateway' \in Seq(Seq(0 .. Bound)) /\ hist' \in Hists
<1>t. SUFFICES T
  BY DEF TypeOK, CmdEntries, Sats, Modems, Hists, Places
<1>u. ASSUME NEW input, Uses(input)
      PROVE  left' \in 0 .. Bound /\ left > 0
  BY <1>0, <1>u, SatelliteAssumption DEF Uses
<1>e. <<>> \in Seq(Entries)
  BY EmptySeq
<1>1. CASE PostMessage
  <2>1. PICK size \in Sizes : Put(NewMessage(size))
    BY <1>1 DEF PostMessage
  <2>2. left > 0 /\ left' \in 0 .. Bound
    BY <1>1, <1>u DEF PostMessage
  <2>3. hist.made + 1 \in 0 .. Bound /\ size \in 0 .. Cap
    BY <1>0, <2>2, SatelliteAssumption DEF Counted
  <2>4. NewMessage(size) \in CmdEntries
    BY <2>3 DEF NewMessage, CmdEntries
  <2>5. que' \in Seq(CmdEntries) /\ Len(que') <= QueMax /\ hist' \in Hists
    BY <1>0, <2>1, <2>4, PutFacts, PutHist
  <2> QED BY <1>0, <1>1, <2>2, <2>5 DEF PostMessage
<1>2. CASE PostSend
  <2>1. PICK cmd \in {"send", "order"} : Uses(cmd) /\ Put(Command(cmd))
    BY <1>2 DEF PostSend
  <2>2. Command(cmd) \in CmdEntries
    BY SatelliteAssumption DEF Command, CmdEntries
  <2>3. que' \in Seq(CmdEntries) /\ Len(que') <= QueMax /\ hist' \in Hists
    BY <1>0, <2>1, <2>2, PutFacts, PutHist
  <2>4. left' \in 0 .. Bound
    BY <2>1, <1>u
  <2> QED BY <1>0, <1>2, <2>3, <2>4 DEF PostSend
<1>3. CASE SetEnabled
  <2>1. Command("enable") \in CmdEntries
    BY SatelliteAssumption DEF Command, CmdEntries
  <2>2. que' \in Seq(CmdEntries) /\ Len(que') <= QueMax /\ hist' \in Hists
    BY <1>0, <1>3, <2>1, PutFacts, PutHist DEF SetEnabled
  <2>3. left' \in 0 .. Bound
    BY <1>3, <1>u DEF SetEnabled
  <2> QED BY <1>0, <1>3, <2>2, <2>3 DEF SetEnabled
<1>4. CASE SetRetry
  <2>1. left' \in 0 .. Bound
    BY <1>4, <1>u DEF SetRetry
  <2> QED BY <1>0, <1>4, <2>1 DEF SetRetry
<1>5. CASE AddMessage
  <2>1. que' \in Seq(CmdEntries) /\ Len(que') <= QueMax /\ Head(que) \in CmdEntries
    BY <1>5, TakesFacts DEF AddMessage
  <2>2. Head(que).no \in Nat /\ [no |-> Head(que).no, size |-> Head(que).size] \in Entries
    BY <2>1, SatelliteAssumption DEF CmdEntries, Entries
  <2>3. CASE enabled
    <3>1. PICK k \in 0 .. Len(buf) :
             /\ buf' = Append(Rest(k), [no |-> Head(que).no, size |-> Head(que).size])
             /\ hist' = [hist EXCEPT !.lost = @ \cup (Numbers(buf) \ Numbers(Rest(k)))]
      BY <1>5, <2>3 DEF AddMessage
    <3>2. Rest(k) \in Seq(Entries)
      BY <1>0, RestFacts DEF Rest
    <3>3. buf' \in Seq(Entries)
      BY <2>2, <3>1, <3>2, AppendFacts
    <3>4. Numbers(buf) \subseteq Nat
      <4>1. \A e \in Entries : e.no \in 0 .. Bound
        BY DEF Entries
      <4>2. Numbers(buf) \subseteq 1 .. Bound
        BY <1>0, <4>1, NumbersType
      <4> QED BY <4>2, SatelliteAssumption
    <3>5. hist' \in Hists
      BY <1>0, <3>1, <3>4 DEF Hists
    <3> QED BY <1>0, <1>5, <2>1, <3>3, <3>5 DEF AddMessage
  <2>4. CASE ~enabled
    <3>1. hist' \in Hists
      <4>1. hist' = [hist EXCEPT !.lost = @ \cup {Head(que).no}]
        BY <1>5, <2>4 DEF AddMessage
      <4>2. hist.lost \cup {Head(que).no} \in SUBSET Nat
        BY <1>0, <2>2 DEF Hists
      <4> QED BY <1>0, <4>1, <4>2 DEF Hists
    <3> QED BY <1>0, <1>5, <2>1, <2>4, <3>1 DEF AddMessage
  <2> QED BY <2>3, <2>4
<1>6. CASE StartSend
  <2>1. PICK cmd \in {"send", "order"} :
          /\ Takes(cmd)
          /\ IF enabled /\ (buf # <<>> \/ cmd = "order")
             THEN Goes("switchOn")
             ELSE UNCHANGED sat
          /\ IF enabled /\ buf = <<>> /\ cmd = "order"
             THEN \E size \in Sizes : buf' = <<[no |-> 0, size |-> size]>>
             ELSE UNCHANGED buf
          /\ UNCHANGED <<settings, link, hist, left>>
    BY <1>6 DEF StartSend
  <2>2. que' \in Seq(CmdEntries) /\ Len(que') <= QueMax
    BY <2>1, TakesFacts
  <2>3. sat' \in Sats
    BY <1>0, <2>1, GoesType DEF Places
  <2>4. ASSUME NEW size \in Sizes
        PROVE  <<[no |-> 0, size |-> size]>> \in Seq(Entries)
    <3>1. [no |-> 0, size |-> size] \in Entries
      BY SatelliteAssumption DEF Entries
    <3> QED BY <3>1
  <2>5. buf' \in Seq(Entries)
    BY <1>0, <2>1, <2>4
  <2> QED BY <1>0, <2>1, <2>2, <2>3, <2>5
<1>7. CASE Test
  <2>1. que' \in Seq(CmdEntries) /\ Len(que') <= QueMax
    BY <1>7, TakesFacts DEF Test
  <2> QED BY <1>0, <1>7, <2>1 DEF Test
<1>8. CASE SwitchOn
  <2>1. sat' \in Sats
    BY <1>0, <1>8, GoesType DEF SwitchOn, Places
  <2>2. left' \in 0 .. Bound
    BY <1>0, <1>8, <1>u DEF SwitchOn
  <2> QED BY <1>0, <1>8, <2>1, <2>2 DEF SwitchOn
<1>9. CASE Write
  <2>1. sat' \in Sats
    BY <1>0, <1>9, GoesType DEF Write, Places
  <2>2. left' \in 0 .. Bound
    BY <1>0, <1>9, <1>u DEF Write
  <2>3. modem' \in Modems
    BY <1>0, <1>9 DEF Write, Modems
  <2>4. hist' \in Hists
    <3>1. Numbers(buf) \subseteq Nat
      <4>1. \A e \in Entries : e.no \in 0 .. Bound
        BY DEF Entries
      <4>2. Numbers(buf) \subseteq 1 .. Bound
        BY <1>0, <4>1, NumbersType
      <4> QED BY <4>2, SatelliteAssumption
    <3> QED BY <1>0, <1>9, <3>1 DEF Write, Hists
  <2> QED BY <1>0, <1>9, <2>1, <2>2, <2>3, <2>4 DEF Write
<1>10. CASE SessionFails
  <2>1. sat' \in Sats
    <3>1. sat.tries + 1 \in Nat
      BY <1>0 DEF Sats
    <3> QED BY <1>0, <1>10, <3>1, GoesType DEF SessionFails, Places
  <2>2. left' \in 0 .. Bound
    BY <1>0, <1>10, <1>u DEF SessionFails
  <2>3. modem' \in Modems /\ gateway' \in Seq(Seq(0 .. Bound)) /\ hist' \in Hists
    BY <1>0, <1>10, SessionFacts DEF SessionFails, Modems
  <2> QED BY <1>0, <1>10, <2>1, <2>2, <2>3 DEF SessionFails
<1>11. CASE SessionSucceeds
  <2>1. PICK f \in BOOLEAN :
          /\ \/ Session(f, TRUE) /\ UNCHANGED left
             \/ Session(f, FALSE) /\ Uses("fault")
          /\ AfterSession(f, IF At("send") THEN 1 ELSE sat.received + 1)
    BY <1>11 DEF SessionSucceeds
  <2>2. modem' \in Modems /\ gateway' \in Seq(Seq(0 .. Bound)) /\ hist' \in Hists
    BY <2>1, SessionFacts DEF Modems
  <2>3. left' \in 0 .. Bound
    BY <1>0, <2>1, <1>u
  <2>4. sat' \in Sats
    <3>1. (IF At("send") THEN 1 ELSE sat.received + 1) \in 1 .. Receives + 1
      BY <1>0, <1>11, SatelliteAssumption
         DEF SessionSucceeds, InSession, At, ModemFollows, Sats
    <3> DEFINE n == IF At("send") THEN 1 ELSE sat.received + 1
    <3>2. PICK more \in {FALSE, f} :
            sat' = [at |-> IF f /\ n <= Receives THEN "receive" ELSE "off",
                    tries |-> 0, received |-> n, more |-> more]
      BY <2>1 DEF AfterSession
    <3>3. n \in 1 .. Receives + 1
      BY <3>1
    <3> HIDE DEF n
    <3>4. more \in BOOLEAN /\ 0 \in Nat
      OBVIOUS
    <3>5. (IF f /\ n <= Receives THEN "receive" ELSE "off") \in Places
      BY DEF Places
    <3> QED BY <3>2, <3>3, <3>4, <3>5 DEF Sats
  <2>5. buf' \in Seq(Entries)
    BY <1>0, <1>11, <1>e DEF SessionSucceeds
  <2> QED BY <1>0, <1>11, <2>2, <2>3, <2>4, <2>5 DEF SessionSucceeds
<1>12. CASE Receive
  <2>1. sat' \in Sats
    BY <1>0, <1>12, GoesType DEF Receive, Places
  <2>2. left' \in 0 .. Bound
    BY <1>0, <1>12, <1>u DEF Receive
  <2>3. modem' \in Modems
    <3>1. \/ modem' = [modem EXCEPT !.handed = IF @ = 0 THEN 1 ELSE 2]
          \/ modem' = modem
      BY <1>12 DEF Receive
    <3>2. (IF modem.handed = 0 THEN 1 ELSE 2) \in 0 .. 2
      OBVIOUS
    <3> QED BY <1>0, <3>1, <3>2 DEF Modems
  <2> QED BY <1>0, <1>12, <2>1, <2>2, <2>3 DEF Receive
<1>13. CASE SwitchOff
  <2>1. sat' \in Sats
    BY <1>13, SatelliteAssumption DEF SwitchOff, Idle, Sats, Places
  <2>2. modem' \in Modems
    BY <1>13, <1>e DEF SwitchOff, NoMessages, Modems
  <2>3. hist' \in Hists
    BY <1>0, <1>13 DEF SwitchOff
  <2> QED BY <1>0, <1>13, <2>1, <2>2, <2>3 DEF SwitchOff
<1>14. CASE UNCHANGED vars
  BY <1>0, <1>14 DEF vars
<1> QED
  BY <1>1, <1>2, <1>3, <1>4, <1>5, <1>6, <1>7, <1>8, <1>9, <1>10, <1>11, <1>12, <1>13, <1>14
  DEF Next, Others, satellite_handle_commands, satellite_send_buffer

-----------------------------------------------------------------------------
(* The modem                                                               *)

LEMMA ModemInit == Init => ModemFollows
BY DEF Init, ModemFollows, Idle, NoMessages, At

LEMMA ModemStep == TypeOK /\ ModemFollows /\ [Next]_vars => ModemFollows'
<1> SUFFICES ASSUME TypeOK, ModemFollows, [Next]_vars
             PROVE  ModemFollows'
  OBVIOUS
<1>0. sat \in Sats /\ modem \in Modems /\ hist \in Hists /\ que \in Seq(CmdEntries)
  BY TypeParts DEF TypeOK, Sats, Modems, Places
<1> USE DEF At, link
<1>1. ASSUME NEW e, Put(e), UNCHANGED <<sat, modem, buf>>
      PROVE  ModemFollows'
  <2>1. hist'.doubt = hist.doubt /\ hist'.again = hist.again
    BY <1>0, <1>1, PutHist
  <2> QED BY <1>1, <2>1 DEF ModemFollows, Numbers
<1>2. CASE PostMessage
  BY <1>1, <1>2 DEF PostMessage
<1>3. CASE PostSend
  BY <1>1, <1>3 DEF PostSend
<1>4. CASE SetEnabled
  BY <1>1, <1>4 DEF SetEnabled
<1>5. CASE SetRetry
  BY <1>5 DEF SetRetry, ModemFollows, Numbers
<1>6. CASE AddMessage
  BY <1>6 DEF AddMessage, Takes, ModemFollows
<1>7. CASE StartSend
  BY <1>0, <1>7 DEF StartSend, Takes, Goes, ModemFollows, Sats
<1>8. CASE Test
  BY <1>8 DEF Test, Takes, ModemFollows
<1>9. CASE SwitchOn
  BY <1>0, <1>9 DEF SwitchOn, Goes, ModemFollows, Sats
<1>10. CASE Write
  <2>1. modem.out = <<>> /\ modem.handed = 0
    BY <1>10 DEF Write, ModemFollows, NoMessages
  <2>2. CASE Goes("off") /\ UNCHANGED modem
    BY <1>0, <2>1, <2>2 DEF Goes, Sats, ModemFollows
  <2>3. CASE Goes("send") /\ modem' = [modem EXCEPT !.out = buf]
    <3>1. modem'.out = buf /\ modem'.handed = 0
      BY <1>0, <2>1, <2>3 DEF Modems
    <3> QED BY <1>0, <1>10, <2>3, <3>1 DEF Write, Goes, Sats, ModemFollows
  <2>4. CASE /\ Goes("send") /\ UNCHANGED modem
             /\ hist' = [hist EXCEPT !.doubt = @ \cup Numbers(buf)]
    <3>1. Numbers(buf) \subseteq hist'.doubt
      BY <1>0, <2>4 DEF Hists
    <3> QED BY <1>0, <1>10, <2>1, <2>4, <3>1 DEF Write, Goes, Sats, ModemFollows, Numbers
  <2> QED BY <1>10, <2>2, <2>3, <2>4 DEF Write
<1>11. CASE SessionFails
  <2>1. /\ sat'.at \in {sat.at, "off"} /\ sat'.received = sat.received
        /\ sat.at \in {"send", "more"} /\ buf' = buf
    BY <1>0, <1>11 DEF SessionFails, InSession, Goes, Sats
  <2>2. CASE UNCHANGED <<modem, hist>>
    BY <2>1, <2>2 DEF ModemFollows, Numbers
  <2>3. CASE \E fetches \in BOOLEAN : Session(fetches, FALSE)
    <3>1. /\ modem'.out = modem.out /\ modem'.handed = 0
          /\ hist'.again = hist.again \cup Numbers(modem.out)
          /\ hist'.doubt = hist.doubt
      BY <2>3, SessionFacts
    <3> QED BY <2>1, <3>1 DEF ModemFollows, Numbers
  <2> QED BY <1>11, <2>2, <2>3 DEF SessionFails
<1>12. CASE SessionSucceeds
  <2>1. PICK f \in BOOLEAN :
          /\ \/ Session(f, TRUE) /\ UNCHANGED left
             \/ Session(f, FALSE) /\ Uses("fault")
          /\ AfterSession(f, IF At("send") THEN 1 ELSE sat.received + 1)
    BY <1>12 DEF SessionSucceeds
  <2>2. modem'.handed = 0 /\ Numbers(modem'.out) \subseteq hist'.again
    <3>1. CASE Session(f, TRUE)
      <4>1. modem'.out = <<>> /\ modem'.handed = 0
        BY <3>1, SessionFacts
      <4> QED BY <4>1 DEF Numbers
    <3>2. CASE Session(f, FALSE)
      <4>1. /\ modem'.out = modem.out /\ modem'.handed = 0
            /\ hist'.again = hist.again \cup Numbers(modem.out)
        BY <3>2, SessionFacts
      <4> QED BY <4>1
    <3> QED BY <2>1, <3>1, <3>2
  <2>3. /\ sat'.at \in {"receive", "off"}
        /\ sat'.at = "receive" => sat'.received <= Receives
    BY <2>1 DEF AfterSession
  <2> QED BY <2>2, <2>3 DEF ModemFollows
<1>13. CASE Receive
  <2>1. modem.handed = 0 /\ sat.at = "receive"
    BY <1>13 DEF Receive, ModemFollows
  <2>2. /\ sat'.at \in {"more", "off"} /\ sat'.received = sat.received
        /\ modem'.handed \in {0, 1} /\ modem'.out = modem.out
        /\ hist' = hist
    BY <1>0, <1>13, <2>1 DEF Receive, Goes, Sats, Modems
  <2>3. Numbers(modem'.out) \subseteq hist'.again /\ sat'.received <= Receives
    BY <2>1, <2>2 DEF ModemFollows
  <2> QED BY <2>2, <2>3 DEF ModemFollows
<1>14. CASE SwitchOff
  BY <1>14 DEF SwitchOff, Idle, NoMessages, ModemFollows
<1>15. CASE UNCHANGED vars
  BY <1>15 DEF vars, ModemFollows, Numbers
<1> QED
  BY <1>2, <1>3, <1>4, <1>5, <1>6, <1>7, <1>8, <1>9, <1>10, <1>11, <1>12, <1>13, <1>14, <1>15
  DEF Next, Others, satellite_handle_commands, satellite_send_buffer

-----------------------------------------------------------------------------
(* Numbers                                                                 *)

LEMMA CountedInit == Init => Counted
BY SatelliteAssumption DEF Init, Counted

(* The numbers in the queue after an entry was put.                        *)
LEMMA PutCounted ==
    ASSUME TypeOK, Counted, NEW e \in CmdEntries, Put(e),
           e.no \in {0, hist.made + 1}, e.cmd = "message" \/ e.no = 0
    PROVE  \A i \in DOMAIN que' : /\ que'[i].no <= hist'.made
                                  /\ que'[i].cmd = "message" \/ que'[i].no = 0
<1>1. que \in Seq(CmdEntries) /\ Len(que) <= QueMax /\ hist \in Hists /\ hist.made \in Nat
  BY TypeParts DEF Hists
<1>2. PICK q \in {que, <<>>} : q \in Seq(CmdEntries) /\ que' = Append(q, e)
  BY <1>1, PutFacts
<1>3. hist'.made = IF e.no > 0 THEN hist.made + 1 ELSE hist.made
  BY <1>1, PutHist
<1>4. e.no <= hist'.made /\ hist.made <= hist'.made /\ hist'.made \in Nat
  BY <1>1, <1>3
<1>5. \A i \in DOMAIN q : q[i] \in CmdEntries /\ q[i].no <= hist.made
  <2>1. \A i \in DOMAIN q : q[i] \in CmdEntries
    BY <1>2, ElementOfSeq, LenProperties
  <2>2. \A i \in DOMAIN q : q[i].no <= hist.made
    BY <1>2 DEF Counted
  <2> QED BY <2>1, <2>2
<1>6. \A i \in DOMAIN q : q[i].cmd = "message" \/ q[i].no = 0
  BY <1>2 DEF Counted
<1>7. \A i \in DOMAIN q : q[i].no <= hist'.made
  <2>1. \A c \in CmdEntries : c.no \in Int
    BY SatelliteAssumption DEF CmdEntries
  <2>2. ASSUME NEW n \in Int, n <= hist.made
        PROVE  n <= hist'.made
    BY <1>1, <1>4, <2>2
  <2> QED BY <1>5, <2>1, <2>2
<1> QED BY <1>2, <1>4, <1>6, <1>7, AppendFacts

LEMMA CountedStep == TypeOK /\ Counted /\ TypeOK' /\ [Next]_vars => Counted'
<1> SUFFICES ASSUME TypeOK, Counted, TypeOK', [Next]_vars
             PROVE  Counted'
  OBVIOUS
<1>0. /\ que \in Seq(CmdEntries) /\ buf \in Seq(Entries) /\ hist \in Hists /\ hist.made \in Nat
      /\ left \in Nat /\ left' \in Nat /\ Bound \in Nat
  <2>1. que \in Seq(CmdEntries) /\ buf \in Seq(Entries) /\ hist \in Hists
    BY TypeParts
  <2>2. left \in 0 .. Bound /\ left' \in 0 .. Bound /\ Bound \in Nat
    BY SatelliteAssumption DEF TypeOK
  <2> QED BY <2>1, <2>2 DEF Hists
<1> USE DEF link
<1>u. \A input : Uses(input) => left' = left - 1
  BY DEF Uses
<1>1. ASSUME que' = que \/ (que # <<>> /\ que' = Tail(que)),
             hist'.made = hist.made, left' = left \/ left' = left - 1
      PROVE  /\ hist'.made + left' <= Bound
             /\ \A i \in DOMAIN que' : /\ que'[i].no <= hist'.made
                                       /\ que'[i].cmd = "message" \/ que'[i].no = 0
  <2>1. \A i \in DOMAIN que' : /\ que'[i].no <= hist'.made
                               /\ que'[i].cmd = "message" \/ que'[i].no = 0
    <3>1. CASE que' = que
      BY <1>1, <3>1 DEF Counted
    <3>2. CASE que # <<>> /\ que' = Tail(que)
      BY <1>0, <1>1, <3>2, TailFacts DEF Counted
    <3> QED BY <1>1, <3>1, <3>2
  <2> QED BY <1>0, <1>1, <2>1 DEF Counted
<1>2. ASSUME UNCHANGED <<que, buf>>, hist'.made = hist.made,
             left' = left \/ \E input : Uses(input)
      PROVE  Counted'
  BY <1>1, <1>2, <1>u DEF Counted
<1>3. CASE PostMessage
  <2>1. PICK size \in Sizes : Put(NewMessage(size))
    BY <1>3 DEF PostMessage
  <2>2. left > 0 /\ left' = left - 1 /\ buf' = buf
    BY <1>3 DEF PostMessage, Uses
  <2>3. /\ NewMessage(size).no = hist.made + 1 /\ NewMessage(size).cmd = "message"
        /\ NewMessage(size) \in CmdEntries
    <3>1. hist.made + 1 \in 0 .. Bound /\ size \in 0 .. Cap
      BY <1>0, <2>2, SatelliteAssumption DEF Counted
    <3> QED BY <3>1 DEF NewMessage, CmdEntries
  <2>4. \A i \in DOMAIN que' : /\ que'[i].no <= hist'.made
                               /\ que'[i].cmd = "message" \/ que'[i].no = 0
    BY <2>1, <2>3, PutCounted
  <2>5. hist'.made = hist.made + 1
    BY <1>0, <2>1, <2>3, PutHist
  <2>6. \A i \in DOMAIN buf : buf[i].no <= hist'.made
    <3>1. \A i \in DOMAIN buf : buf[i] \in Entries
      BY <1>0, ElementOfSeq, LenProperties
    <3>2. \A i \in DOMAIN buf : buf[i].no \in 0 .. Bound
      BY <3>1, TypeParts
    <3>3. ASSUME NEW n \in 0 .. Bound, n <= hist.made
          PROVE  n <= hist.made + 1
      BY <1>0, <3>3
    <3> QED BY <2>5, <3>2, <3>3 DEF Counted
  <2> QED BY <1>0, <2>2, <2>4, <2>5, <2>6 DEF Counted
<1>4. ASSUME NEW cmd \in {"send", "order", "enable"}, Put(Command(cmd)),
             UNCHANGED buf, left' = left - 1
      PROVE  Counted'
  <2>1. Command(cmd) \in CmdEntries /\ Command(cmd).no = 0
    BY SatelliteAssumption DEF Command, CmdEntries
  <2>2. \A i \in DOMAIN que' : /\ que'[i].no <= hist'.made
                               /\ que'[i].cmd = "message" \/ que'[i].no = 0
    BY <1>4, <2>1, PutCounted
  <2>3. hist'.made = hist.made
    BY <1>0, <1>4, <2>1, PutHist
  <2> QED BY <1>0, <1>4, <2>2, <2>3 DEF Counted
<1>5. CASE PostSend
  BY <1>4, <1>5, <1>u DEF PostSend
<1>6. CASE SetEnabled
  BY <1>4, <1>6, <1>u DEF SetEnabled
<1>7. CASE SetRetry
  BY <1>2, <1>7 DEF SetRetry
<1>8. CASE AddMessage
  <2>1. que # <<>> /\ que' = Tail(que) /\ Head(que) = que[1] /\ 1 \in DOMAIN que
    BY <1>0, <1>8, TailFacts DEF AddMessage, Takes
  <2>2. hist'.made = hist.made /\ left' = left
    BY <1>0, <1>8 DEF AddMessage, Hists
  <2>3. ASSUME NEW k \in 0 .. Len(buf),
               buf' = Append(Rest(k), [no |-> Head(que).no, size |-> Head(que).size])
        PROVE  \A i \in DOMAIN buf' : buf'[i].no <= hist'.made
    <3> DEFINE m == [no |-> Head(que).no, size |-> Head(que).size]
    <3>1. m \in Entries
      <4>1. Head(que) \in CmdEntries
        BY <1>0, <2>1, ElementOfSeq, LenProperties
      <4> QED BY <4>1 DEF CmdEntries, Entries
    <3>2. m.no <= hist.made
      BY <2>1 DEF Counted
    <3>3. /\ Rest(k) \in Seq(Entries)
          /\ \A i \in DOMAIN Rest(k) : Rest(k)[i] = buf[i + k] /\ i + k \in DOMAIN buf
      BY <1>0, RestFacts DEF Rest
    <3>4. \A i \in DOMAIN Rest(k) : Rest(k)[i].no <= hist.made
      BY <3>3 DEF Counted
    <3> HIDE DEF m
    <3>5. buf' = Append(Rest(k), m)
      BY <2>3 DEF m
    <3> QED BY <2>2, <3>1, <3>2, <3>3, <3>4, <3>5, AppendFacts
  <2>4. \A i \in DOMAIN buf' : buf'[i].no <= hist'.made
    BY <1>8, <2>2, <2>3 DEF AddMessage, Counted
  <2> QED BY <1>1, <2>1, <2>2, <2>4 DEF Counted
<1>9. CASE StartSend
  <2>1. que # <<>> /\ que' = Tail(que) /\ hist' = hist /\ left' = left
    BY <1>9 DEF StartSend, Takes
  <2>2. buf' = buf \/ \E size \in Sizes : buf' = <<[no |-> 0, size |-> size]>>
    BY <1>9 DEF StartSend
  <2>3. \A i \in DOMAIN buf' : buf'[i].no <= hist'.made
    <3>1. ASSUME NEW size \in Sizes, buf' = <<[no |-> 0, size |-> size]>>
          PROVE  \A i \in DOMAIN buf' : buf'[i].no <= hist'.made
      <4>1. \A i \in DOMAIN buf' : buf'[i].no = 0
        BY <3>1
      <4> QED BY <1>0, <2>1, <4>1
    <3> QED BY <2>1, <2>2, <3>1 DEF Counted
  <2> QED BY <1>1, <2>1, <2>3 DEF Counted
<1>10. CASE Test
  <2>1. que # <<>> /\ que' = Tail(que) /\ hist' = hist /\ left' = left /\ buf' = buf
    BY <1>10 DEF Test, Takes
  <2> QED BY <1>1, <2>1 DEF Counted
<1>11. CASE SwitchOn
  BY <1>2, <1>11 DEF SwitchOn
<1>12. CASE Write
  <2>1. hist'.made = hist.made
    BY <1>0, <1>12 DEF Write, Hists
  <2> QED BY <1>2, <1>12, <2>1 DEF Write
<1>13. CASE SessionFails
  <2>1. hist'.made = hist.made
    BY <1>13, SessionFacts DEF SessionFails
  <2> QED BY <1>2, <1>13, <2>1 DEF SessionFails
<1>14. CASE SessionSucceeds
  <2>1. hist'.made = hist.made
    BY <1>14, SessionFacts DEF SessionSucceeds
  <2>2. que' = que /\ (left' = left \/ \E input : Uses(input))
    BY <1>14 DEF SessionSucceeds
  <2>3. buf' = buf \/ buf' = <<>>
    BY <1>14 DEF SessionSucceeds
  <2>4. \A i \in DOMAIN buf' : buf'[i].no <= hist'.made
    BY <2>1, <2>3 DEF Counted
  <2> QED BY <1>1, <1>u, <2>1, <2>2, <2>4 DEF Counted
<1>15. CASE Receive
  BY <1>2, <1>15 DEF Receive
<1>16. CASE SwitchOff
  <2>1. hist'.made = hist.made
    BY <1>0, <1>16 DEF SwitchOff, Hists
  <2> QED BY <1>2, <1>16, <2>1 DEF SwitchOff
<1>17. CASE UNCHANGED vars
  BY <1>17 DEF vars, Counted
<1> QED
  BY <1>3, <1>5, <1>6, <1>7, <1>8, <1>9, <1>10, <1>11, <1>12, <1>13, <1>14, <1>15, <1>16, <1>17
  DEF Next, Others, satellite_handle_commands, satellite_send_buffer

-----------------------------------------------------------------------------
(* Nothing is lost                                                         *)

Kept == Numbers(que) \cup Numbers(buf) \cup Arrived \cup hist.lost \cup hist.doubt

(* What a session adds comes last.                                         *)
LEMMA SessionGateway ==
    ASSUME TypeOK, NEW f \in BOOLEAN, NEW g \in BOOLEAN, Session(f, g)
    PROVE  \/ gateway' = gateway /\ Numbers(modem.out) = {}
           \/ LET n == Len(gateway) + 1
              IN  /\ DOMAIN gateway' = DOMAIN gateway \cup {n}
                  /\ \A i \in DOMAIN gateway : gateway'[i] = gateway[i] /\ i \in Nat /\ i < n
                  /\ n \in Nat
                  /\ DOMAIN gateway'[n] = DOMAIN modem.out
                  /\ \A a \in DOMAIN modem.out :
                        gateway'[n][a] = modem.out[a].no /\ a \in Nat
<1>1. CASE Numbers(modem.out) = {}
  BY <1>1 DEF Session
<1>2. CASE Numbers(modem.out) # {}
  <2>1. gateway' = Append(gateway, Sent)
    BY <1>2 DEF Session
  <2>2. modem.out \in Seq(Entries) /\ gateway \in Seq(Seq(0 .. Bound))
    BY TypeParts
  <2>3. DOMAIN modem.out = 1 .. Len(modem.out) /\ Len(modem.out) \in Nat
    BY <2>2, LenProperties
  <2>4. Sent \in Seq(0 .. Bound)
    <3>1. \A i \in 1 .. Len(modem.out) : modem.out[i] \in Entries
      BY <2>2, ElementOfSeq
    <3>2. \A i \in 1 .. Len(modem.out) : modem.out[i].no \in 0 .. Bound
      BY <3>1, TypeParts
    <3> QED BY <2>3, <3>2, IsASeq DEF Sent
  <2>5. /\ DOMAIN gateway' = DOMAIN gateway \cup {Len(gateway) + 1}
        /\ \A i \in DOMAIN gateway : gateway'[i] = gateway[i] /\ i \in Nat /\ i <= Len(gateway)
        /\ gateway'[Len(gateway) + 1] = Sent
        /\ Len(gateway) \in Nat
    BY <2>1, <2>2, <2>4, AppendFacts
  <2>6. \A i \in DOMAIN gateway : i < Len(gateway) + 1
    BY <2>5
  <2>7. /\ DOMAIN Sent = DOMAIN modem.out
        /\ \A a \in DOMAIN modem.out : Sent[a] = modem.out[a].no /\ a \in Nat
    BY <2>3 DEF Sent
  <2> QED BY <2>5, <2>6, <2>7
<1> QED BY <1>1, <1>2

(* What is in the modem has arrived after a session.                       *)
LEMMA Arrives ==
    ASSUME TypeOK, NEW f \in BOOLEAN, NEW g \in BOOLEAN, Session(f, g)
    PROVE  Arrived \cup Numbers(modem.out) \subseteq Arrived'
<1>1. CASE gateway' = gateway /\ Numbers(modem.out) = {}
  BY <1>1 DEF Arrived
<1>2. CASE ~(gateway' = gateway /\ Numbers(modem.out) = {})
  <2> DEFINE n == Len(gateway) + 1
  <2>1. /\ DOMAIN gateway' = DOMAIN gateway \cup {n}
        /\ \A i \in DOMAIN gateway : gateway'[i] = gateway[i]
        /\ DOMAIN gateway'[n] = DOMAIN modem.out
        /\ \A a \in DOMAIN modem.out : gateway'[n][a] = modem.out[a].no
    BY <1>2, SessionGateway
  <2> HIDE DEF n
  <2>2. Numbers(modem.out) \subseteq {gateway'[n][a] : a \in DOMAIN gateway'[n]}
    BY <2>1 DEF Numbers
  <2> QED BY <2>1, <2>2 DEF Arrived
<1> QED BY <1>1, <1>2

LEMMA LostInit == Init => NothingLost
BY DEF Init, NothingLost

LEMMA LostStep == TypeOK /\ ModemFollows /\ Counted /\ NothingLost /\ [Next]_vars => NothingLost'
<1> SUFFICES ASSUME TypeOK, ModemFollows, Counted, NothingLost, [Next]_vars
             PROVE  NothingLost'
  OBVIOUS
<1>0. /\ que \in Seq(CmdEntries) /\ Len(que) <= QueMax /\ buf \in Seq(Entries)
      /\ hist \in Hists /\ hist.made \in Nat
  BY TypeParts DEF Hists
<1> USE DEF link
<1>1. 1 .. hist.made \subseteq Kept
  BY DEF NothingLost, Kept
<1>2. ASSUME Kept \subseteq Kept', hist'.made = hist.made
      PROVE  NothingLost'
  BY <1>1, <1>2 DEF NothingLost, Kept
<1>3. ASSUME NEW e \in CmdEntries, Put(e), UNCHANGED <<buf, gateway>>
      PROVE  Kept \subseteq Kept' /\ {e.no} \ {0} \subseteq Numbers(que')
  <2>1. PICK q \in {que, <<>>} :
           /\ q \in Seq(CmdEntries)
           /\ que' = Append(q, e)
           /\ Numbers(que) \subseteq Numbers(q) \cup hist'.lost
    BY <1>0, <1>3, PutFacts
  <2>2. Numbers(que') = Numbers(q) \cup ({e.no} \ {0})
    BY <2>1, AppendNumbers
  <2>3. hist.lost \subseteq hist'.lost /\ hist'.doubt = hist.doubt
    BY <1>0, <1>3, PutHist
  <2> QED BY <1>3, <2>1, <2>2, <2>3 DEF Kept, Numbers, Arrived
<1>4. ASSUME NEW e \in CmdEntries, Put(e), UNCHANGED <<buf, gateway>>,
             e.no \in {0, hist.made + 1}
      PROVE  NothingLost'
  <2>1. Kept \subseteq Kept' /\ {e.no} \ {0} \subseteq Numbers(que')
    BY <1>3, <1>4
  <2>2. hist'.made = IF e.no > 0 THEN hist.made + 1 ELSE hist.made
    BY <1>0, <1>4, PutHist
  <2>3. CASE e.no = 0
    BY <1>2, <2>1, <2>2, <2>3
  <2>4. CASE e.no = hist.made + 1
    <3>1. hist'.made = hist.made + 1 /\ e.no # 0
      BY <1>0, <2>2, <2>4
    <3>2. 1 .. hist'.made = 1 .. hist.made \cup {e.no}
      BY <1>0, <2>4, <3>1
    <3>3. e.no \in Kept'
      BY <2>1, <3>1 DEF Kept
    <3> QED BY <1>1, <2>1, <3>2, <3>3 DEF NothingLost, Kept
  <2> QED BY <1>4, <2>3, <2>4
<1>5. CASE PostMessage
  <2>1. PICK size \in Sizes : Put(NewMessage(size))
    BY <1>5 DEF PostMessage
  <2>2. left > 0 /\ left \in Nat
    BY <1>5, SatelliteAssumption DEF PostMessage, Uses, TypeOK
  <2>3. NewMessage(size) \in CmdEntries /\ NewMessage(size).no = hist.made + 1
    <3>1. hist.made + 1 \in 0 .. Bound /\ size \in 0 .. Cap
      BY <1>0, <2>2, SatelliteAssumption DEF Counted
    <3> QED BY <3>1 DEF NewMessage, CmdEntries
  <2> QED BY <1>4, <1>5, <2>1, <2>3 DEF PostMessage
<1>6. ASSUME NEW cmd \in {"send", "order", "enable"}, Put(Command(cmd)),
             UNCHANGED <<buf, gateway>>
      PROVE  NothingLost'
  <2>1. Command(cmd) \in CmdEntries /\ Command(cmd).no = 0
    BY SatelliteAssumption DEF Command, CmdEntries
  <2> QED BY <1>4, <1>6, <2>1
<1>7. CASE PostSend
  BY <1>6, <1>7 DEF PostSend
<1>8. CASE SetEnabled
  BY <1>6, <1>8 DEF SetEnabled
<1>9. CASE SetRetry
  BY <1>2, <1>9 DEF SetRetry, Kept, Numbers, Arrived
<1>10. CASE AddMessage
  <2> DEFINE m == [no |-> Head(que).no, size |-> Head(que).size]
  <2>1. /\ que # <<>> /\ que' = Tail(que) /\ Head(que) \in CmdEntries
        /\ gateway' = gateway
    BY <1>10, TakesFacts DEF AddMessage
  <2>2. m \in Entries /\ m.no = Head(que).no
    BY <2>1 DEF CmdEntries, Entries
  <2>3. Numbers(que) \subseteq Numbers(que') \cup ({m.no} \ {0})
    BY <1>0, <2>1, TailNumbers DEF Numbers
  <2>4. CASE enabled
    <3>1. PICK k \in 0 .. Len(buf) :
             /\ buf' = Append(Rest(k), m)
             /\ hist' = [hist EXCEPT !.lost = @ \cup (Numbers(buf) \ Numbers(Rest(k)))]
      BY <1>10, <2>4 DEF AddMessage
    <3>2. Rest(k) \in Seq(Entries)
      BY <1>0, RestFacts DEF Rest
    <3>3. Numbers(buf') = Numbers(Rest(k)) \cup ({m.no} \ {0})
      BY <2>2, <3>1, <3>2, AppendNumbers
    <3>4. /\ hist'.lost = hist.lost \cup (Numbers(buf) \ Numbers(Rest(k)))
          /\ hist'.doubt = hist.doubt /\ hist'.made = hist.made
      BY <1>0, <3>1 DEF Hists
    <3>5. Kept \subseteq Kept'
      BY <2>1, <2>3, <3>3, <3>4 DEF Kept, Arrived
    <3> QED BY <1>2, <3>4, <3>5
  <2>5. CASE ~enabled
    <3>1. /\ hist'.lost = hist.lost \cup {m.no}
          /\ hist'.doubt = hist.doubt /\ hist'.made = hist.made
          /\ buf' = buf
      BY <1>0, <1>10, <2>2, <2>5 DEF AddMessage, Hists
    <3>2. Numbers(buf') = Numbers(buf) /\ Arrived' = Arrived
      BY <2>1, <3>1 DEF Numbers, Arrived
    <3>3. Kept \subseteq Kept'
      <4> HIDE DEF m
      <4> QED BY <2>3, <3>1, <3>2 DEF Kept
    <3> QED BY <1>2, <3>1, <3>3
  <2> QED BY <2>4, <2>5
<1>11. ASSUME NEW cmd \in {"send", "order", "enable"}, Takes(cmd), UNCHANGED <<gateway, hist>>,
              Numbers(buf) \subseteq Numbers(buf'), Head(que).no = 0
       PROVE  NothingLost'
  <2>1. que # <<>> /\ que' = Tail(que)
    BY <1>11, TakesFacts
  <2>2. Numbers(que) \subseteq Numbers(que')
    BY <1>0, <1>11, <2>1, TailNumbers DEF Numbers
  <2>3. Kept \subseteq Kept' /\ hist'.made = hist.made
    BY <1>11, <2>2 DEF Kept, Arrived
  <2> QED BY <1>2, <2>3
<1>12. ASSUME NEW cmd \in {"send", "order", "enable"}, Takes(cmd)
       PROVE  Head(que).no = 0
  <2>1. que # <<>> /\ Head(que).cmd = cmd
    BY <1>12 DEF Takes
  <2>2. Head(que) = que[1] /\ 1 \in DOMAIN que
    BY <1>0, <2>1, TailFacts
  <2> QED BY <2>1, <2>2 DEF Counted
<1>13. CASE StartSend
  <2>1. PICK cmd \in {"send", "order"} : Takes(cmd)
    BY <1>13 DEF StartSend
  <2>2. UNCHANGED <<gateway, hist>> /\ (buf' = buf \/ buf = <<>>)
    BY <1>13 DEF StartSend
  <2>3. Numbers(buf) \subseteq Numbers(buf')
    BY <2>2 DEF Numbers
  <2>4. Head(que).no = 0
    BY <1>12, <2>1
  <2> QED BY <1>11, <2>1, <2>2, <2>3, <2>4
<1>14. CASE Test
  <2>1. Takes("enable") /\ UNCHANGED <<gateway, hist, buf>>
    BY <1>14 DEF Test
  <2>2. Numbers(buf) \subseteq Numbers(buf')
    BY <2>1 DEF Numbers
  <2>3. Head(que).no = 0
    BY <1>12, <2>1
  <2> QED BY <1>11, <2>1, <2>2, <2>3
<1>15. ASSUME UNCHANGED <<que, buf, gateway>>, hist'.made = hist.made, hist'.lost = hist.lost,
              hist.doubt \subseteq hist'.doubt
       PROVE  NothingLost'
  BY <1>2, <1>15 DEF Kept, Arrived, Numbers
<1>16. CASE SwitchOn
  BY <1>15, <1>16 DEF SwitchOn
<1>17. CASE Write
  <2>1. hist'.made = hist.made /\ hist'.lost = hist.lost /\ hist.doubt \subseteq hist'.doubt
    BY <1>0, <1>17 DEF Write, Hists
  <2> QED BY <1>15, <1>17, <2>1 DEF Write
<1>18. CASE SessionFails
  <2>1. que' = que /\ buf' = buf
    BY <1>18 DEF SessionFails
  <2>2. CASE UNCHANGED <<modem, gateway, hist>>
    BY <1>15, <2>1, <2>2
  <2>3. CASE \E fetches \in BOOLEAN : Session(fetches, FALSE)
    <3>1. /\ Arrived \subseteq Arrived'
          /\ hist'.made = hist.made /\ hist'.lost = hist.lost /\ hist'.doubt = hist.doubt
      BY <2>3, SessionFacts, Arrives
    <3>2. Kept \subseteq Kept'
      BY <2>1, <3>1 DEF Kept, Numbers
    <3> QED BY <1>2, <3>1, <3>2
  <2> QED BY <1>18, <2>2, <2>3 DEF SessionFails
<1>19. CASE SessionSucceeds
  <2>1. /\ Arrived \cup Numbers(modem.out) \subseteq Arrived'
        /\ hist'.made = hist.made /\ hist'.lost = hist.lost /\ hist'.doubt = hist.doubt
    BY <1>19, SessionFacts, Arrives DEF SessionSucceeds
  <2>2. que' = que
    BY <1>19 DEF SessionSucceeds
  <2>3. CASE At("send")
    <3>1. Numbers(buf) \subseteq Numbers(modem.out) \cup hist.doubt
      BY <2>3 DEF ModemFollows, Numbers
    <3>2. Kept \subseteq Kept'
      BY <2>1, <2>2, <3>1 DEF Kept, Numbers
    <3> QED BY <1>2, <2>1, <3>2
  <2>4. CASE ~At("send")
    <3>1. buf' = buf
      BY <1>19, <2>4 DEF SessionSucceeds
    <3>2. Kept \subseteq Kept'
      BY <2>1, <2>2, <3>1 DEF Kept, Numbers
    <3> QED BY <1>2, <2>1, <3>2
  <2> QED BY <2>3, <2>4
<1>20. CASE Receive
  BY <1>15, <1>20 DEF Receive
<1>21. CASE SwitchOff
  <2>1. hist'.made = hist.made /\ hist'.lost = hist.lost /\ hist'.doubt = hist.doubt
    BY <1>0, <1>21 DEF SwitchOff, Hists
  <2> QED BY <1>15, <1>21, <2>1 DEF SwitchOff
<1>22. CASE UNCHANGED vars
  BY <1>15, <1>22 DEF vars
<1> QED
  BY <1>5, <1>7, <1>8, <1>9, <1>10, <1>13, <1>14, <1>16, <1>17, <1>18, <1>19, <1>20, <1>21, <1>22
  DEF Next, Others, satellite_handle_commands, satellite_send_buffer

-----------------------------------------------------------------------------
(* Order                                                                   *)

LEMMA OrderInit == Init => InOrder
BY DEF Init, InOrder, Ordered, Before, Older, OnceAtGateway

(* A new entry is younger than everything else.                            *)
LEMMA PutOrder ==
    ASSUME TypeOK, Counted, InOrder, NEW e \in CmdEntries, Put(e),
           e.no \in {0, hist.made + 1}, UNCHANGED <<buf, gateway>>
    PROVE  InOrder'
<1>0. /\ que \in Seq(CmdEntries) /\ Len(que) <= QueMax /\ hist \in Hists /\ hist.made \in Nat
      /\ buf \in Seq(Entries) /\ gateway \in Seq(Seq(0 .. Bound))
  BY TypeParts DEF Hists
<1>1. PICK q \in {que, <<>>} : q \in Seq(CmdEntries) /\ que' = Append(q, e)
  BY <1>0, PutFacts
<1>2. /\ hist'.made = IF e.no > 0 THEN hist.made + 1 ELSE hist.made
      /\ hist'.again = hist.again
  BY <1>0, PutHist
<1> DEFINE n == Len(q) + 1
<1>3. /\ DOMAIN que' = DOMAIN q \cup {n} /\ que'[n] = e
      /\ \A i \in DOMAIN q : que'[i] = q[i] /\ i \in Nat /\ i < n
      /\ n \in Nat
  BY <1>1, AppendFacts
<1>4. \A i \in DOMAIN q : q[i].no \in Nat /\ q[i].no <= hist.made
  <2>1. \A i \in DOMAIN que : que[i] \in CmdEntries
    BY <1>0, ElementOfSeq, LenProperties
  <2>2. \A i \in DOMAIN que : que[i].no \in 0 .. Bound
    BY <2>1, TypeParts
  <2> QED BY <1>1, <2>2, SatelliteAssumption DEF Counted
<1>5. \A i \in DOMAIN buf : buf[i].no \in Nat /\ buf[i].no <= hist.made
  <2>1. \A i \in DOMAIN buf : buf[i] \in Entries
    BY <1>0, ElementOfSeq, LenProperties
  <2>2. \A i \in DOMAIN buf : buf[i].no \in 0 .. Bound
    BY <2>1, TypeParts
  <2> QED BY <2>2, SatelliteAssumption DEF Counted
<1>6. \A i \in DOMAIN gateway : \A a \in DOMAIN gateway[i] : gateway[i][a] \in Nat
  <2>1. \A i \in DOMAIN gateway : gateway[i] \in Seq(0 .. Bound)
    BY <1>0, ElementOfSeq, LenProperties
  <2>2. \A i \in DOMAIN gateway : \A a \in DOMAIN gateway[i] : gateway[i][a] \in 0 .. Bound
    BY <2>1, ElementOfSeq, LenProperties
  <2> QED BY <2>2, SatelliteAssumption
<1>y. \A m \in Nat : m <= hist.made => e.no = 0 \/ m < e.no
  BY <1>0
<1>z. \A m \in Nat : m <= hist.made => m <= hist'.made
  BY <1>0, <1>2
<1> HIDE DEF n
<1>7. Ordered(q) /\ Before(buf, q) /\ Older(q)
  BY <1>1 DEF InOrder, Ordered, Before, Older
<1>8. Ordered(que')
  <2> SUFFICES ASSUME NEW i \in DOMAIN que', NEW j \in DOMAIN que', i < j
               PROVE  que'[i].no = 0 \/ que'[j].no = 0 \/ que'[i].no < que'[j].no
    BY DEF Ordered
  <2>1. CASE i \in DOMAIN q /\ j \in DOMAIN q
    BY <1>3, <1>7, <2>1 DEF Ordered
  <2>2. CASE i \in DOMAIN q /\ j = n
    BY <1>3, <1>4, <1>y, <2>2
  <2>3. CASE i = n
    <3>1. j \notin DOMAIN q /\ j # n
      BY <1>3, <2>3
    <3> QED BY <1>3, <3>1
  <2> QED BY <1>3, <2>1, <2>2, <2>3
<1>9. Before(buf, que)' /\ Ordered(buf)' /\ Older(buf)'
  <2>1. Before(buf, que)'
    BY <1>3, <1>5, <1>7, <1>y DEF Before
  <2>2. Ordered(buf)'
    BY DEF InOrder, Ordered
  <2>3. Older(buf)'
    BY <1>2 DEF InOrder, Older
  <2> QED BY <2>1, <2>2, <2>3
<1>10. Older(que)'
  <2> SUFFICES ASSUME NEW i \in DOMAIN gateway, NEW a \in DOMAIN gateway[i],
                      gateway[i][a] \notin hist.again \cup {0},
                      NEW j \in DOMAIN que', que'[j].no # 0
               PROVE  gateway[i][a] < que'[j].no
    BY <1>2 DEF Older
  <2>1. gateway[i][a] <= hist.made
    BY DEF InOrder
  <2>2. CASE j \in DOMAIN q
    BY <1>3, <1>7, <2>2 DEF Older
  <2>3. CASE j = n
    BY <1>3, <1>6, <1>y, <2>1, <2>3
  <2> QED BY <1>3, <2>2, <2>3
<1>11. (\A i \in DOMAIN gateway : \A a \in DOMAIN gateway[i] :
          gateway[i][a] \in hist.again \cup {0} \/ gateway[i][a] <= hist.made)'
  BY <1>2, <1>6, <1>z DEF InOrder
<1>12. OnceAtGateway'
  BY <1>2 DEF InOrder, OnceAtGateway
<1> QED BY <1>8, <1>9, <1>10, <1>11, <1>12 DEF InOrder, Ordered

(* The oldest entry leaves the queue, the rest stays as it is.             *)
LEMMA TailOrder ==
    ASSUME TypeOK, InOrder, NEW cmd, Takes(cmd)
    PROVE  /\ Ordered(que)' /\ Before(buf, que') /\ Older(que')
           /\ \A i \in DOMAIN que' : Head(que).no = 0 \/ que'[i].no = 0 \/ Head(que).no < que'[i].no
           /\ \A i \in DOMAIN buf : Head(que).no = 0 \/ buf[i].no = 0 \/ buf[i].no < Head(que).no
<1>1. que \in Seq(CmdEntries) /\ que # <<>> /\ que' = Tail(que)
  BY TypeParts, TakesFacts
<1>2. /\ \A i \in DOMAIN que' : /\ que'[i] = que[i + 1]
                                /\ i \in Nat /\ i + 1 \in DOMAIN que /\ 1 < i + 1
      /\ Head(que) = que[1] /\ 1 \in DOMAIN que
  BY <1>1, TailFacts
<1>3. Ordered(que)'
  <2> SUFFICES ASSUME NEW i \in DOMAIN que', NEW j \in DOMAIN que', i < j
               PROVE  que'[i].no = 0 \/ que'[j].no = 0 \/ que'[i].no < que'[j].no
    BY DEF Ordered
  <2>1. i + 1 < j + 1
    BY <1>2
  <2> QED BY <1>2, <2>1 DEF InOrder, Ordered
<1>4. Before(buf, que')
  BY <1>2 DEF InOrder, Before
<1>5. Older(que')
  BY <1>2 DEF InOrder, Older
<1> QED BY <1>2, <1>3, <1>4, <1>5 DEF InOrder, Ordered, Before

(* A session delivers what is older than the rest, or may have come before.*)
LEMMA SessionOrder ==
    ASSUME TypeOK, Counted, InOrder, NEW f \in BOOLEAN, NEW g \in BOOLEAN, Session(f, g),
           que' = que,
           \/ Numbers(modem.out) \subseteq hist'.again /\ buf' \in {buf, <<>>}
           \/ modem.out = buf /\ buf' = <<>>
    PROVE  InOrder'
<1>0. /\ hist'.made = hist.made /\ hist.again \subseteq hist'.again /\ hist'.again \subseteq Nat
      /\ hist.made \in Nat
  BY SessionFacts, TypeParts DEF Hists
<1>1. CASE gateway' = gateway
  BY <1>0, <1>1 DEF InOrder, Ordered, Before, Older, OnceAtGateway
<1>2. CASE gateway' # gateway
  <2> DEFINE n   == Len(gateway) + 1
             Ex  == hist'.again \cup {0}
  <2>1. /\ DOMAIN gateway' = DOMAIN gateway \cup {n}
        /\ \A i \in DOMAIN gateway : gateway'[i] = gateway[i] /\ i \in Nat /\ i < n
        /\ n \in Nat
        /\ DOMAIN gateway'[n] = DOMAIN modem.out
        /\ \A a \in DOMAIN modem.out : gateway'[n][a] = modem.out[a].no /\ a \in Nat
    BY <1>2, SessionGateway
  <2>2. \A a \in DOMAIN modem.out :
           \/ modem.out[a].no \in Ex
           \/ modem.out = buf /\ buf' = <<>>
    BY DEF Numbers
  <2> HIDE DEF n
  <2>3. (\A i \in DOMAIN gateway : \A a \in DOMAIN gateway[i] :
          gateway[i][a] \in hist.again \cup {0} \/ gateway[i][a] <= hist.made)'
    <3> SUFFICES ASSUME NEW i \in DOMAIN gateway', NEW a \in DOMAIN gateway'[i]
                 PROVE  gateway'[i][a] \in Ex \/ gateway'[i][a] <= hist.made
      BY <1>0
    <3>1. CASE i \in DOMAIN gateway
      BY <1>0, <2>1, <3>1 DEF InOrder
    <3>2. CASE i = n
      BY <2>1, <2>2, <3>2 DEF Counted
    <3> QED BY <2>1, <3>1, <3>2
  <2>4. Older(que)'
    <3> SUFFICES ASSUME NEW i \in DOMAIN gateway', NEW a \in DOMAIN gateway'[i],
                        gateway'[i][a] \notin Ex,
                        NEW j \in DOMAIN que, que[j].no # 0
                 PROVE  gateway'[i][a] < que[j].no
      BY DEF Older
    <3>1. CASE i \in DOMAIN gateway
      BY <1>0, <2>1, <3>1 DEF InOrder, Older
    <3>2. CASE i = n
      <4>1. gateway'[i][a] = buf[a].no /\ a \in DOMAIN buf /\ buf[a].no # 0
        BY <2>1, <2>2, <3>2
      <4> QED BY <4>1 DEF InOrder, Before
    <3> QED BY <2>1, <3>1, <3>2
  <2>5. Older(buf)'
    <3> SUFFICES ASSUME NEW i \in DOMAIN gateway', NEW a \in DOMAIN gateway'[i],
                        gateway'[i][a] \notin Ex, buf' = buf,
                        NEW j \in DOMAIN buf, buf[j].no # 0
                 PROVE  gateway'[i][a] < buf[j].no
      BY DEF Older
    <3>1. CASE i \in DOMAIN gateway
      BY <1>0, <2>1, <3>1 DEF InOrder, Older
    <3>2. CASE i = n
      BY <2>1, <2>2, <3>2
    <3> QED BY <2>1, <3>1, <3>2
  <2>6. OnceAtGateway'
    <3> SUFFICES ASSUME NEW i \in DOMAIN gateway', NEW j \in DOMAIN gateway',
                        NEW a \in DOMAIN gateway'[i], NEW b \in DOMAIN gateway'[j],
                        i < j \/ (i = j /\ a < b),
                        gateway'[i][a] \notin Ex, gateway'[j][b] \notin Ex
                 PROVE  gateway'[i][a] < gateway'[j][b]
      BY DEF OnceAtGateway
    <3>1. CASE i \in DOMAIN gateway /\ j \in DOMAIN gateway
      BY <1>0, <2>1, <3>1 DEF InOrder, OnceAtGateway
    <3>2. CASE i \in DOMAIN gateway /\ j = n
      <4>1. gateway'[j][b] = buf[b].no /\ b \in DOMAIN buf /\ buf[b].no # 0
        BY <2>1, <2>2, <3>2
      <4> QED BY <1>0, <2>1, <3>2, <4>1 DEF InOrder, Older
    <3>3. CASE i = n /\ j = n
      <4>1. /\ gateway'[i][a] = buf[a].no /\ a \in DOMAIN buf /\ buf[a].no # 0
            /\ gateway'[j][b] = buf[b].no /\ b \in DOMAIN buf /\ buf[b].no # 0
        BY <2>1, <2>2, <3>3
      <4>2. a < b
        BY <2>1, <3>3
      <4> QED BY <4>1, <4>2 DEF InOrder, Ordered
    <3>4. CASE i = n /\ j \in DOMAIN gateway
      <4>1. j < i /\ j \in Nat /\ i \in Nat /\ i # j
        BY <2>1, <3>4
      <4>2. ~(i < j)
        BY <4>1
      <4> QED BY <4>1, <4>2
    <3> QED BY <2>1, <3>1, <3>2, <3>3, <3>4
  <2>7. Ordered(que)' /\ Ordered(buf)' /\ Before(buf, que)'
    BY DEF InOrder, Ordered, Before
  <2> QED BY <2>3, <2>4, <2>5, <2>6, <2>7 DEF InOrder
<1> QED BY <1>1, <1>2

LEMMA OrderStep ==
    TypeOK /\ ModemFollows /\ Counted /\ InOrder /\ [Next]_vars => InOrder'
<1> SUFFICES ASSUME TypeOK, ModemFollows, Counted, InOrder, [Next]_vars
             PROVE  InOrder'
  OBVIOUS
<1>0. /\ que \in Seq(CmdEntries) /\ buf \in Seq(Entries) /\ hist \in Hists
      /\ hist.made \in Nat
  BY TypeParts DEF Hists
<1> USE DEF link
<1>1. ASSUME UNCHANGED <<que, buf, gateway>>, hist'.made = hist.made, hist'.again = hist.again
      PROVE  InOrder'
  BY <1>1 DEF InOrder, Ordered, Before, Older, OnceAtGateway
<1>2. CASE PostMessage
  <2>1. PICK size \in Sizes : Put(NewMessage(size))
    BY <1>2 DEF PostMessage
  <2>2. left > 0 /\ left \in Nat
    BY <1>2, SatelliteAssumption DEF PostMessage, Uses, TypeOK
  <2>3. NewMessage(size) \in CmdEntries /\ NewMessage(size).no = hist.made + 1
    <3>1. hist.made + 1 \in 0 .. Bound /\ size \in 0 .. Cap
      BY <1>0, <2>2, SatelliteAssumption DEF Counted
    <3> QED BY <3>1 DEF NewMessage, CmdEntries
  <2> QED BY <1>2, <2>1, <2>3, PutOrder DEF PostMessage
<1>3. ASSUME NEW cmd \in {"send", "order", "enable"}, Put(Command(cmd)),
             UNCHANGED <<buf, gateway>>
      PROVE  InOrder'
  <2>1. Command(cmd) \in CmdEntries /\ Command(cmd).no = 0
    BY SatelliteAssumption DEF Command, CmdEntries
  <2> QED BY <1>3, <2>1, PutOrder
<1>4. CASE PostSend
  BY <1>3, <1>4 DEF PostSend
<1>5. CASE SetEnabled
  BY <1>3, <1>5 DEF SetEnabled
<1>6. CASE SetRetry
  BY <1>1, <1>6 DEF SetRetry
<1>7. ASSUME NEW cmd, Takes(cmd), UNCHANGED <<gateway, hist>>,
             buf' = buf \/ (buf = <<>> /\ \A i \in DOMAIN buf' : buf'[i].no = 0)
      PROVE  InOrder'
  <2>1. Ordered(que)' /\ Before(buf, que') /\ Older(que')
    BY <1>7, TailOrder
  <2>2. Ordered(buf)' /\ Before(buf, que)' /\ Older(buf)' /\ Older(que)'
    BY <1>7, <2>1 DEF InOrder, Ordered, Before, Older
  <2>3. OnceAtGateway' /\ (\A i \in DOMAIN gateway : \A a \in DOMAIN gateway[i] :
          gateway[i][a] \in hist.again \cup {0} \/ gateway[i][a] <= hist.made)'
    BY <1>7 DEF InOrder, OnceAtGateway
  <2> QED BY <2>1, <2>2, <2>3 DEF InOrder
<1>8. CASE AddMessage
  <2> DEFINE m == [no |-> Head(que).no, size |-> Head(que).size]
  <2>1. Takes("message") /\ gateway' = gateway
    BY <1>8 DEF AddMessage
  <2>2. /\ Ordered(que)' /\ Before(buf, que') /\ Older(que')
        /\ \A i \in DOMAIN que' : m.no = 0 \/ que'[i].no = 0 \/ m.no < que'[i].no
        /\ \A i \in DOMAIN buf : m.no = 0 \/ buf[i].no = 0 \/ buf[i].no < m.no
    BY <2>1, TailOrder
  <2>3. hist'.made = hist.made /\ hist'.again = hist.again
    BY <1>0, <1>8 DEF AddMessage, Hists
  <2>4. OnceAtGateway' /\ (\A i \in DOMAIN gateway : \A a \in DOMAIN gateway[i] :
          gateway[i][a] \in hist.again \cup {0} \/ gateway[i][a] <= hist.made)'
    BY <2>1, <2>3 DEF InOrder, OnceAtGateway
  <2>5. Older(que)'
    BY <2>1, <2>2, <2>3 DEF Older
  <2>6. CASE enabled
    <3>1. PICK k \in 0 .. Len(buf) : buf' = Append(Rest(k), m)
      BY <1>8, <2>6 DEF AddMessage
    <3>2. /\ Rest(k) \in Seq(Entries) /\ k \in Nat
          /\ \A i \in DOMAIN Rest(k) : /\ Rest(k)[i] = buf[i + k]
                                       /\ i \in Nat /\ i + k \in DOMAIN buf
      BY <1>0, RestFacts DEF Rest
    <3>3. m \in Entries
      <4>1. Head(que) \in CmdEntries
        BY <2>1, TakesFacts
      <4> QED BY <4>1 DEF CmdEntries, Entries
    <3> DEFINE n == Len(Rest(k)) + 1
    <3> HIDE DEF m
    <3>4. /\ DOMAIN buf' = DOMAIN Rest(k) \cup {n} /\ buf'[n] = m
          /\ \A i \in DOMAIN Rest(k) : buf'[i] = buf[i + k] /\ i \in Nat /\ i < n
          /\ n \in Nat
      BY <3>1, <3>2, <3>3, AppendFacts
    <3> HIDE DEF n
    <3>5. Ordered(buf)'
      <4> SUFFICES ASSUME NEW i \in DOMAIN buf', NEW j \in DOMAIN buf', i < j
                   PROVE  buf'[i].no = 0 \/ buf'[j].no = 0 \/ buf'[i].no < buf'[j].no
        BY DEF Ordered
      <4>1. CASE i \in DOMAIN Rest(k) /\ j \in DOMAIN Rest(k)
        <5>1. i + k < j + k
          BY <3>2, <4>1
        <5> QED BY <3>2, <3>4, <4>1, <5>1 DEF InOrder, Ordered
      <4>2. CASE i \in DOMAIN Rest(k) /\ j = n
        BY <2>2, <3>2, <3>4, <4>2
      <4>3. CASE i = n
        <5>1. j \notin DOMAIN Rest(k) /\ j # n
          BY <3>4, <4>3
        <5> QED BY <3>4, <5>1
      <4> QED BY <3>4, <4>1, <4>2, <4>3
    <3>6. Before(buf, que)'
      BY <2>2, <3>2, <3>4 DEF Before
    <3>7. Older(buf)'
      <4> SUFFICES ASSUME NEW i \in DOMAIN gateway, NEW a \in DOMAIN gateway[i],
                          gateway[i][a] \notin hist.again \cup {0},
                          NEW j \in DOMAIN buf', buf'[j].no # 0
                   PROVE  gateway[i][a] < buf'[j].no
        BY <2>1, <2>3 DEF Older
      <4>1. CASE j \in DOMAIN Rest(k)
        BY <3>2, <3>4, <4>1 DEF InOrder, Older
      <4>2. CASE j = n
        <5>1. que # <<>> /\ Head(que) = que[1] /\ 1 \in DOMAIN que
          BY <1>0, <2>1, TakesFacts, TailFacts
        <5>2. buf'[j].no = que[1].no
          BY <3>4, <4>2, <5>1 DEF m
        <5> QED BY <5>1, <5>2 DEF InOrder, Older
      <4> QED BY <3>4, <4>1, <4>2
    <3> QED BY <2>2, <2>4, <2>5, <3>5, <3>6, <3>7 DEF InOrder
  <2>7. CASE ~enabled
    <3>1. buf' = buf
      BY <1>8, <2>7 DEF AddMessage
    <3>2. Ordered(buf)' /\ Before(buf, que)' /\ Older(buf)'
      BY <2>1, <2>2, <2>3, <3>1 DEF InOrder, Ordered, Before, Older
    <3> QED BY <2>2, <2>4, <2>5, <3>2 DEF InOrder
  <2> QED BY <2>6, <2>7
<1>9. CASE StartSend
  <2>1. PICK cmd \in {"send", "order"} : Takes(cmd)
    BY <1>9 DEF StartSend
  <2>2. UNCHANGED <<gateway, hist>>
    BY <1>9 DEF StartSend
  <2>3. buf' = buf \/ (buf = <<>> /\ \E size \in Sizes : buf' = <<[no |-> 0, size |-> size]>>)
    BY <1>9 DEF StartSend
  <2>4. buf' = buf \/ (buf = <<>> /\ \A i \in DOMAIN buf' : buf'[i].no = 0)
    BY <2>3
  <2> QED BY <1>7, <2>1, <2>2, <2>4
<1>10. CASE Test
  BY <1>7, <1>10 DEF Test
<1>11. CASE SwitchOn
  BY <1>1, <1>11 DEF SwitchOn
<1>12. CASE Write
  <2>1. hist'.made = hist.made /\ hist'.again = hist.again
    BY <1>0, <1>12 DEF Write, Hists
  <2> QED BY <1>1, <1>12, <2>1 DEF Write
<1>13. CASE SessionFails
  <2>1. que' = que /\ buf' = buf
    BY <1>13 DEF SessionFails
  <2>2. CASE UNCHANGED <<modem, gateway, hist>>
    BY <1>1, <2>1, <2>2
  <2>3. CASE \E fetches \in BOOLEAN : Session(fetches, FALSE)
    <3>1. Numbers(modem.out) \subseteq hist'.again
      BY <2>3, SessionFacts
    <3> QED BY <2>1, <2>3, <3>1, SessionOrder
  <2> QED BY <1>13, <2>2, <2>3 DEF SessionFails
<1>14. CASE SessionSucceeds
  <2>1. PICK f \in BOOLEAN, g \in BOOLEAN : Session(f, g)
    BY <1>14 DEF SessionSucceeds
  <2>2. que' = que /\ buf' = IF At("send") THEN <<>> ELSE buf
    BY <1>14 DEF SessionSucceeds
  <2>3. hist.again \subseteq hist'.again
    BY <2>1, SessionFacts
  <2>4. CASE At("send")
    <3>1. modem.out = buf \/ Numbers(modem.out) = {}
      BY <2>4 DEF ModemFollows, Numbers
    <3> QED BY <2>1, <2>2, <2>4, <3>1, SessionOrder
  <2>5. CASE ~At("send")
    <3>1. Numbers(modem.out) \subseteq hist.again
      BY <1>14, <2>5 DEF SessionSucceeds, InSession, At, ModemFollows
    <3> QED BY <2>1, <2>2, <2>3, <2>5, <3>1, SessionOrder
  <2> QED BY <2>4, <2>5
<1>15. CASE Receive
  BY <1>1, <1>15 DEF Receive
<1>16. CASE SwitchOff
  <2>1. hist'.made = hist.made /\ hist'.again = hist.again
    BY <1>0, <1>16 DEF SwitchOff, Hists
  <2> QED BY <1>1, <1>16, <2>1 DEF SwitchOff
<1>17. CASE UNCHANGED vars
  BY <1>1, <1>17 DEF vars
<1> QED
  BY <1>2, <1>4, <1>5, <1>6, <1>8, <1>9, <1>10, <1>11, <1>12, <1>13, <1>14, <1>15, <1>16, <1>17
  DEF Next, Others, satellite_handle_commands, satellite_send_buffer

-----------------------------------------------------------------------------
(* Theorems                                                                *)

LEMMA IInvHolds == Spec => []IInv
<1>1. Init => IInv
  BY TypeInit, ModemInit, CountedInit, LostInit, OrderInit DEF IInv
<1>2. IInv /\ [Next]_vars => IInv'
  BY TypeStep, ModemStep, CountedStep, LostStep, OrderStep DEF IInv
<1> QED BY <1>1, <1>2, PTL DEF Spec

(* Every value has its type, however many commands to the modem fail.      *)
THEOREM SatelliteTypes == Spec => []TypeOK
<1>1. IInv => TypeOK
  BY DEF IInv
<1> QED BY <1>1, IInvHolds, PTL

(* Every message handed to the satellite thread is queued, in its buffer,  *)
(* at the gateway, gave way to a newer one, or was never taken by the      *)
(* modem (satellite.c:706-787, 795-803, 1352-1392).                        *)
THEOREM NoneLost == Spec => []NothingLost
<1>1. IInv => NothingLost
  BY DEF IInv
<1> QED BY <1>1, IInvHolds, PTL

(* Unless an answer was lost or the modem was not emptied, messages arrive *)
(* once and in the order they were made (satellite.c:645-675, 790-803).    *)
THEOREM OnceInOrder == Spec => []OnceAtGateway
<1>1. IInv => OnceAtGateway
  BY DEF IInv, InOrder
<1> QED BY <1>1, IInvHolds, PTL

(* A message from the gateway is handed to the main thread at most once,   *)
(* also when its final OK does not come (satellite.c:455-535, 805-825).    *)
THEOREM HandedAtMostOnce == Spec => []ExecutedOnce
<1>1. IInv => ExecutedOnce
  BY DEF IInv, ModemFollows, ExecutedOnce
<1> QED BY <1>1, IInvHolds, PTL
=============================================================================
