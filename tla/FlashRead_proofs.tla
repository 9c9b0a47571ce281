--------------------------- MODULE FlashRead_proofs --------------------------
(***************************************************************************)
(* Proofs about FlashRead for logs, queues, batches and payloads of every  *)
(* size, any commands and any number of stores and other events.           *)
(***************************************************************************)
EXTENDS FlashRead, Functions, SequenceTheorems, FiniteSetTheorems,
        WellFoundedInduction, TLAPS

Logs  == [ports : Seq(Ports), first : Nat \ {0}]
Mails == [what : {"data", "answer", "other"}, ids : SUBSET Nat, ok : BOOLEAN]
Jobs  == [at : {"idle", "read", "wait"}, command : Commands,
          left : SUBSET Nat, payload : SUBSET Nat, got : Nat]
Servers ==
    [asked : BOOLEAN, command : Commands, wanted : SUBSET Nat, sent : SUBSET Nat,
     lost : SUBSET Nat, answer : {"none", "ok", "failed"}, cut : BOOLEAN, late : BOOLEAN]
Histories == [overwritten : BOOLEAN, dropped : BOOLEAN]
Mades == [stores : 0 .. MaxStores, others : 0 .. MaxOthers]

(* What is put on flash_que: a message is stored under a port of its own,  *)
(* and a command from the head brings the number of messages whole.        *)
Orders ==
    {c \in Commands :
        /\ c.act = "store" => c.port \in Ports
        /\ c.act = "head" => c.len = NumberEnd
        /\ c.act = "continue" => c.len = ContinueLen
        /\ c.act = "confirm" => c = Confirm}

TypeOK ==
    /\ log \in Logs /\ job \in Jobs /\ server \in Servers /\ made \in Mades
    /\ flashQue \in Seq(Orders) /\ lrQue \in Seq(Mails) /\ eventQue \in Seq(Mails)
    /\ upper \in 0 .. Half - 1 /\ history \in Histories

-----------------------------------------------------------------------------
(* Queues                                                                  *)

(* What is in a queue, how often, and the messages of the log in it.       *)
Free(que, S) == Range(que) \cap S = {}
Once(que, S) == \A i, j \in 1 .. Len(que) : que[i] \in S /\ que[j] \in S => i = j
Ids(que)     == UNION {m.ids : m \in Range(que)}

LEMMA EmptyFacts ==
    ASSUME NEW S
    PROVE  <<>> \in Seq(S) /\ Range(<<>>) = {}
BY DEF Range

LEMMA TailFacts ==
    ASSUME NEW S, NEW que \in Seq(S), que # <<>>
    PROVE  /\ Head(que) \in S /\ Tail(que) \in Seq(S)
           /\ Range(que) = {Head(que)} \cup Range(Tail(que))
<1>1. /\ Head(que) \in S /\ Tail(que) \in Seq(S) /\ Len(Tail(que)) = Len(que) - 1
      /\ Head(que) = que[1] /\ \A i \in 1 .. Len(Tail(que)) : Tail(que)[i] = que[i + 1]
  BY HeadTailProperties
<1>2. Len(que) \in Nat /\ Len(que) >= 1
  BY <1>1
<1>3. Range(que) = {que[i] : i \in 1 .. Len(que)}
  BY RangeEquality
<1>4. Range(Tail(que)) = {Tail(que)[i] : i \in 1 .. Len(Tail(que))}
  BY <1>1, RangeEquality
<1>5. ASSUME NEW x \in Range(que) PROVE x \in {Head(que)} \cup Range(Tail(que))
  <2>1. PICK i \in 1 .. Len(que) : x = que[i]
    BY <1>3
  <2>2. CASE i = 1
    BY <1>1, <2>1, <2>2
  <2>3. CASE i # 1
    <3>1. i - 1 \in 1 .. Len(Tail(que)) /\ (i - 1) + 1 = i
      BY <1>1, <1>2, <2>1, <2>3
    <3>2. Tail(que)[i - 1] = x
      BY <1>1, <2>1, <3>1
    <3> QED BY <1>4, <3>1, <3>2
  <2> QED BY <2>2, <2>3
<1>6. ASSUME NEW x \in Range(Tail(que)) PROVE x \in Range(que)
  <2>1. PICK i \in 1 .. Len(Tail(que)) : x = Tail(que)[i]
    BY <1>4
  <2>2. i + 1 \in 1 .. Len(que) /\ x = que[i + 1]
    BY <1>1, <1>2, <2>1
  <2> QED BY <1>3, <2>2
<1>7. Head(que) \in Range(que)
  <2>1. 1 \in 1 .. Len(que)
    BY <1>2
  <2> QED BY <1>1, <1>3, <2>1
<1> QED BY <1>1, <1>5, <1>6, <1>7

LEMMA AppendFacts ==
    ASSUME NEW S, NEW que \in Seq(S), NEW m \in S
    PROVE  /\ Append(que, m) \in Seq(S)
           /\ Range(Append(que, m)) = Range(que) \cup {m}
<1> DEFINE new == Append(que, m)
<1>1. /\ new \in Seq(S) /\ Len(new) = Len(que) + 1
      /\ \A i \in 1 .. Len(que) : new[i] = que[i]
      /\ new[Len(que) + 1] = m
  BY AppendProperties
<1>2. Range(que) = {que[i] : i \in 1 .. Len(que)} /\ Range(new) = {new[i] : i \in 1 .. Len(new)}
  BY <1>1, RangeEquality
<1>3. Len(que) \in Nat
  OBVIOUS
<1> HIDE DEF new
<1>4. 1 .. Len(new) = (1 .. Len(que)) \cup {Len(que) + 1}
  BY <1>1, <1>3
<1>5. Range(new) = Range(que) \cup {m}
  BY <1>1, <1>2, <1>4
<1> QED BY <1>1, <1>5 DEF new

LEMMA SingleFacts ==
    ASSUME NEW S, NEW m \in S
    PROVE  /\ <<m>> \in Seq(S) /\ Range(<<m>>) = {m}
           /\ \A T : Once(<<m>>, T)
BY DEF Range, Once

(* thread_put_message() keeps what was there or only what it puts.         *)
LEMMA PutFacts ==
    ASSUME NEW S, NEW que \in Seq(S), NEW m \in S, NEW max \in Nat \ {0}
    PROVE  /\ PutMessage(que, max, m) \in Seq(S)
           /\ Range(PutMessage(que, max, m)) \subseteq Range(que) \cup {m}
           /\ m \in Range(PutMessage(que, max, m))
           /\ que = <<>> => PutMessage(que, max, m) = <<m>>
<1>1. CASE Len(que) < max
  <2>1. PutMessage(que, max, m) = Append(que, m)
    BY <1>1 DEF PutMessage
  <2>2. que = <<>> => Append(que, m) = <<m>>
    OBVIOUS
  <2> QED BY <2>1, <2>2, AppendFacts
<1>2. CASE ~(Len(que) < max)
  <2>1. PutMessage(que, max, m) = <<m>>
    BY <1>2 DEF PutMessage
  <2> QED BY <2>1, SingleFacts
<1> QED BY <1>1, <1>2

LEMMA PutEmpty ==
    ASSUME NEW max \in Nat \ {0}, NEW m
    PROVE  PutMessage(<<>>, max, m) = <<m>>
BY DEF PutMessage

LEMMA OnceEmpty == \A T : Once(<<>>, T)
BY DEF Once

LEMMA OnceFree ==
    ASSUME NEW S, NEW que \in Seq(S), NEW T, Free(que, T)
    PROVE  Once(que, T)
<1>1. Range(que) = {que[i] : i \in 1 .. Len(que)}
  BY RangeEquality
<1> QED BY <1>1 DEF Free, Once

LEMMA OnceTail ==
    ASSUME NEW S, NEW que \in Seq(S), que # <<>>, NEW T, Once(que, T)
    PROVE  /\ Once(Tail(que), T)
           /\ Head(que) \in T => Free(Tail(que), T)
<1>1. /\ Tail(que) \in Seq(S) /\ Len(Tail(que)) = Len(que) - 1 /\ Head(que) = que[1]
      /\ \A i \in 1 .. Len(Tail(que)) : Tail(que)[i] = que[i + 1]
  BY HeadTailProperties
<1>2. Len(que) \in Nat /\ Len(que) >= 1
  BY <1>1
<1>3. \A i \in 1 .. Len(Tail(que)) : i + 1 \in 1 .. Len(que) /\ i + 1 # 1 /\ i \in Int
  BY <1>1, <1>2
<1>4. Once(Tail(que), T)
  <2> SUFFICES ASSUME NEW i \in 1 .. Len(Tail(que)), NEW j \in 1 .. Len(Tail(que)),
                      Tail(que)[i] \in T, Tail(que)[j] \in T
               PROVE  i = j
    BY DEF Once
  <2>1. i + 1 = j + 1
    BY <1>1, <1>3 DEF Once
  <2> QED BY <1>3, <2>1
<1>5. ASSUME Head(que) \in T PROVE Free(Tail(que), T)
  <2>1. Range(Tail(que)) = {Tail(que)[i] : i \in 1 .. Len(Tail(que))}
    BY <1>1, RangeEquality
  <2>2. 1 \in 1 .. Len(que)
    BY <1>2
  <2>3. ASSUME NEW i \in 1 .. Len(Tail(que)), Tail(que)[i] \in T PROVE FALSE
    BY <1>1, <1>3, <1>5, <2>2, <2>3 DEF Once
  <2> QED BY <2>1, <2>3 DEF Free
<1> QED BY <1>4, <1>5

LEMMA OncePut ==
    ASSUME NEW S, NEW que \in Seq(S), NEW m \in S, NEW max, NEW T, Once(que, T),
           m \in T => Free(que, T)
    PROVE  Once(PutMessage(que, max, m), T)
<1>1. CASE Len(que) < max
  <2> DEFINE new == Append(que, m)
  <2>1. /\ Len(new) = Len(que) + 1 /\ new[Len(que) + 1] = m
        /\ \A i \in 1 .. Len(que) : new[i] = que[i]
    BY AppendProperties
  <2>2. Range(que) = {que[i] : i \in 1 .. Len(que)}
    BY RangeEquality
  <2>3. Len(que) \in Nat
    OBVIOUS
  <2> HIDE DEF new
  <2>4. \A i \in 1 .. Len(new) : i \in 1 .. Len(que) \/ i = Len(que) + 1
    BY <2>1, <2>3
  <2>5. Once(new, T)
    BY <2>1, <2>2, <2>4 DEF Once, Free
  <2> QED BY <1>1, <2>5 DEF PutMessage, new
<1>2. CASE ~(Len(que) < max)
  BY <1>2, SingleFacts DEF PutMessage
<1> QED BY <1>1, <1>2

LEMMA IdsOfTwo ==
    ASSUME NEW a, NEW b, NEW h, Range(a) = {h} \cup Range(b)
    PROVE  Ids(a) = h.ids \cup Ids(b)
BY DEF Ids

(* prv_put_event_in_que() puts at the end, and loses the first at most.    *)
LEMMA PutEventFacts ==
    ASSUME eventQue \in Seq(Mails), NEW e \in Mails
    PROVE  /\ PutEvent(eventQue, e) \in Seq(Mails)
           /\ Displaced \subseteq Nat
           /\ Range(PutEvent(eventQue, e)) \subseteq Range(eventQue) \cup {e}
           /\ eventQue = <<>> => PutEvent(eventQue, e) = <<e>>
           /\ \E front \in Seq(Mails) :
                 PutEvent(eventQue, e) = Append(front, e) /\ Range(front) \subseteq Range(eventQue)
           /\ Ids(PutEvent(eventQue, e)) \cup Displaced = Ids(eventQue) \cup e.ids
<1> DEFINE kept == IF Len(eventQue) < EventQueMax THEN eventQue ELSE Tail(eventQue)
<1>1. /\ kept \in Seq(Mails) /\ Range(kept) \subseteq Range(eventQue) /\ Displaced \subseteq Nat
      /\ Ids(kept) \cup Displaced = Ids(eventQue)
  <2>1. CASE Len(eventQue) < EventQueMax
    BY <2>1 DEF Displaced
  <2>2. CASE ~(Len(eventQue) < EventQueMax)
    <3>1. eventQue # <<>>
      BY <2>2, SizeAssumption
    <3>2. /\ Head(eventQue) \in Mails /\ Tail(eventQue) \in Seq(Mails)
          /\ Range(eventQue) = {Head(eventQue)} \cup Range(Tail(eventQue))
      BY <3>1, TailFacts
    <3>3. Ids(eventQue) = Head(eventQue).ids \cup Ids(Tail(eventQue))
      BY <3>2, IdsOfTwo
    <3>4. Head(eventQue).ids \subseteq Nat
      BY <3>2 DEF Mails
    <3> QED BY <2>2, <3>2, <3>3, <3>4 DEF Displaced
  <2> QED BY <2>1, <2>2
<1>2. PutEvent(eventQue, e) = Append(kept, e)
  BY DEF PutEvent
<1>3. eventQue = <<>> => kept = <<>>
  BY SizeAssumption
<1> HIDE DEF kept
<1>4. Append(kept, e) \in Seq(Mails) /\ Range(Append(kept, e)) = Range(kept) \cup {e}
  BY <1>1, AppendFacts
<1>5. kept = <<>> => Append(kept, e) = <<e>>
  OBVIOUS
<1>6. Ids(Append(kept, e)) = e.ids \cup Ids(kept)
  <2>1. Range(Append(kept, e)) = {e} \cup Range(kept)
    BY <1>4
  <2> QED BY <2>1, IdsOfTwo
<1> QED BY <1>1, <1>2, <1>3, <1>4, <1>5, <1>6

-----------------------------------------------------------------------------
(* The log                                                                 *)

LEMMA Finiteness ==
    ASSUME log \in Logs, NEW port
    PROVE  /\ IsFiniteSet(Messages) /\ Messages \subseteq 1 .. Len(log.ports) /\ Count \in Nat
           /\ On(port) \subseteq Messages /\ IsFiniteSet(On(port))
           /\ Cardinality(On(port)) \in Nat /\ Cardinality(On(port)) <= Count
<1>1. log.first \in Nat /\ log.first >= 1 /\ Len(log.ports) \in Nat
  BY DEF Logs
<1> DEFINE first == log.first
           last == Len(log.ports)
<1> HIDE DEF first, last
<1>2. first \in Nat /\ first >= 1 /\ last \in Nat
  BY <1>1 DEF first, last
<1>3. IsFiniteSet(first .. last) /\ first .. last \subseteq 1 .. last
  BY <1>2, FS_Interval
<1>4. IsFiniteSet(Messages) /\ Messages \subseteq 1 .. Len(log.ports)
  BY <1>3 DEF Messages, first, last
<1>5. On(port) \subseteq Messages
  BY DEF On
<1> QED BY <1>4, <1>5, FS_Subset, FS_CardinalityType DEF Count

LEMMA WindowFacts ==
    ASSUME log \in Logs, NEW port, NEW start, NEW n
    PROVE  /\ Window(port, start, n) \subseteq 1 .. Len(log.ports)
           /\ Window(port, start, n) \in SUBSET Nat
           /\ IsFiniteSet(Window(port, start, n))
           /\ Cardinality(Window(port, start, n)) \in Nat
           /\ Cardinality(Window(port, start, n)) <= Count
<1>1. Window(port, start, n) \subseteq On(port)
  BY DEF Window
<1>2. On(port) \subseteq Messages /\ Messages \subseteq 1 .. Len(log.ports) /\ IsFiniteSet(Messages)
  BY Finiteness
<1>3. 1 .. Len(log.ports) \subseteq Nat
  BY DEF Logs
<1>4. Window(port, start, n) \subseteq Messages
  BY <1>1, <1>2
<1>5. /\ IsFiniteSet(Window(port, start, n))
      /\ Cardinality(Window(port, start, n)) <= Count
  BY <1>2, <1>4, FS_Subset DEF Count
<1> QED BY <1>2, <1>3, <1>4, <1>5, FS_CardinalityType

(* Storing a message leaves all there are in their places.                 *)
LEMMA StoredFacts ==
    ASSUME log \in Logs, NEW port \in Ports
    PROVE  /\ Stored(log, port) \in Logs
           /\ Len(Stored(log, port).ports) = Len(log.ports) + 1
<1> DEFINE m == Len(log.ports) + 1
           first == IF BlockOf(m) - BlockOf(log.first) = NBlocks
                    THEN log.first + PerBlock ELSE log.first
<1>1. log.ports \in Seq(Ports) /\ log.first \in Nat \ {0}
  BY DEF Logs
<1>2. Append(log.ports, port) \in Seq(Ports) /\ Len(Append(log.ports, port)) = Len(log.ports) + 1
  BY <1>1
<1>3. PerBlock \in Nat \ {0}
  BY SizeAssumption
<1>4. first \in Nat \ {0}
  BY <1>1, <1>3
<1>5. Stored(log, port) = [ports |-> Append(log.ports, port), first |-> first]
  BY DEF Stored
<1> HIDE DEF m, first
<1> QED BY <1>2, <1>4, <1>5 DEF Logs

(* The message that is read next is one that is left.                      *)
LEMMA NextFacts ==
    ASSUME log \in Logs, NEW left, left \subseteq 1 .. Len(log.ports), left # {}
    PROVE  NextOf(left) \in left
<1>1. PerBlock \in Nat \ {0} /\ Len(log.ports) \in Nat
  BY SizeAssumption DEF Logs
<1>2. \A m \in left : BlockOf(m) \in Nat /\ BlockOf(m) <= Len(log.ports) /\ m \in Nat
  BY <1>1 DEF BlockOf
<1> DEFINE Depth(m) == Len(log.ports) - BlockOf(m)
           depths == {Depth(m) : m \in left}
<1>3. \A m \in left : Depth(m) \in Nat
  BY <1>1, <1>2
<1>4. depths \subseteq Nat /\ depths # {}
  BY <1>3
<1>5. IsWellFoundedOn(OpToRel(<, Nat), Nat)
  BY NatLessThanWellFounded
<1> HIDE DEF depths
<1>6. PICK d \in depths : \A e \in depths : ~(<<e, d>> \in OpToRel(<, Nat))
  BY <1>4, <1>5, WFMin, Zenon
<1>7. \A e \in depths : ~(e < d)
  BY <1>4, <1>6 DEF OpToRel
<1> DEFINE newest == {m \in left : Depth(m) = d}
<1>8. newest \subseteq Nat /\ newest # {}
  BY <1>2 DEF depths
<1>9. PICK m \in newest : \A k \in newest : ~(<<k, m>> \in OpToRel(<, Nat))
  BY <1>5, <1>8, WFMin, Zenon
<1>10. \A k \in newest : ~(k < m)
  BY <1>8, <1>9 DEF OpToRel
<1>11. \A k \in left \ {m} : Before(m, k)
  <2> SUFFICES ASSUME NEW k \in left \ {m} PROVE Before(m, k)
    OBVIOUS
  <2>1. /\ m \in left /\ k \in left /\ k # m /\ m \in Nat /\ k \in Nat
        /\ BlockOf(m) \in Nat /\ BlockOf(k) \in Nat /\ Len(log.ports) \in Nat
        /\ Depth(m) = d /\ ~(Depth(k) < d)
    BY <1>1, <1>2, <1>7 DEF depths
  <2>2. CASE Depth(k) = d
    <3>1. ~(k < m)
      BY <1>10, <2>1, <2>2
    <3> QED BY <2>1, <2>2, <3>1 DEF Before
  <2>3. CASE Depth(k) # d
    BY <2>1, <2>3 DEF Before
  <2> QED BY <2>2, <2>3
<1> QED BY <1>9, <1>11 DEF NextOf

-----------------------------------------------------------------------------
(* Types                                                                   *)

LEMMA WordFacts == Word \in Nat \ {0}
BY WordAssumption, SizeAssumption

LEMMA CommandType ==
    ASSUME NEW act \in Acts, NEW port \in Ports \cup {AnyPort}, NEW s \in Int, NEW n \in Int,
           NEW len \in Lens
    PROVE  /\ Command(act, port, s, n, len) \in Commands
           /\ Command(act, port, s, n, len).act = act
           /\ Command(act, port, s, n, len).port = port
           /\ Command(act, port, s, n, len).len = len
<1>1. s % Word \in 0 .. Word - 1 /\ n % Word \in 0 .. Word - 1
  BY WordFacts
<1>2. Command(act, port, s, n, len) =
        [act |-> act, port |-> port, start |-> s % Word, n |-> n % Word, len |-> len]
  BY DEF Command
<1> QED BY <1>1, <1>2 DEF Commands

LEMMA ContinueType ==
    ASSUME log \in Logs, NEW c \in Commands, NEW got \in Nat
    PROVE  /\ ContinueCommand(c, got) \in Orders /\ ContinueCommand(c, got) \in Commands
           /\ ContinueCommand(c, got).act = "continue"
<1>1. c.port \in Ports \cup {AnyPort} /\ c.start \in Nat /\ c.n \in Nat
  BY WordFacts DEF Commands
<1>2. Count \in Nat
  BY Finiteness
<1>3. (Count - c.start) % Word \in Nat
  BY <1>1, <1>2, WordFacts
<1>4. Remaining(c) \in Nat
  BY <1>1, <1>3 DEF Remaining
<1>5. /\ "continue" \in Acts /\ ContinueLen \in Lens
      /\ c.start - got \in Int /\ Remaining(c) - got \in Int
  BY <1>1, <1>4 DEF Acts, Lens
<1> DEFINE s == c.start - got
           n == Remaining(c) - got
<1>6. ContinueCommand(c, got) = Command("continue", c.port, s, n, ContinueLen)
  BY DEF ContinueCommand
<1> HIDE DEF s, n
<1>7. s \in Int /\ n \in Int
  BY <1>5 DEF s, n
<1>8. /\ ContinueCommand(c, got) \in Commands /\ ContinueCommand(c, got).act = "continue"
      /\ ContinueCommand(c, got).len = ContinueLen
  <2> DEFINE port == c.port
  <2>1. port \in Ports \cup {AnyPort} /\ "continue" \in Acts /\ ContinueLen \in Lens
    BY <1>1, <1>5
  <2>2. ContinueCommand(c, got) = Command("continue", port, s, n, ContinueLen)
    BY <1>6
  <2> HIDE DEF port
  <2> QED BY <1>7, <2>1, <2>2, CommandType
<1> QED BY <1>8 DEF Orders

LEMMA ConfirmType == Confirm \in Commands /\ Confirm \in Orders /\ Confirm.act = "confirm"
<1>1. Confirm \in Commands /\ Confirm.act = "confirm"
  BY CommandType DEF Confirm, Acts, Lens
<1> QED BY <1>1 DEF Orders

LEMMA GetAllType ==
    ASSUME log \in Logs, NEW port \in Ports \cup {AnyPort}
    PROVE  /\ GetAllCommand(port) \in Orders /\ GetAllCommand(port) \in Commands
           /\ GetAllCommand(port).act = "continue"
<1>1. Cardinality(On(port)) - 1 \in Int
  BY Finiteness
<1>2. "continue" \in Acts /\ ContinueLen \in Lens
  BY DEF Acts, Lens
<1>3. /\ GetAllCommand(port) \in Commands /\ GetAllCommand(port).act = "continue"
      /\ GetAllCommand(port).len = ContinueLen
  BY <1>1, <1>2, CommandType DEF GetAllCommand
<1> QED BY <1>3 DEF Orders

LEMMA StoreType ==
    ASSUME NEW c \in StoreCommands
    PROVE  c \in Orders /\ c.act = "store"
<1>1. PICK p \in Ports, n \in Nat, len \in Lens : c = Command("store", p, 0, n, len)
  <2>1. \A u \in Uppers : u * Half \in Nat
    BY HalfAssumption
  <2> QED BY <2>1 DEF StoreCommands, Lens
<1>2. c \in Commands /\ c.act = "store" /\ c.port = p
  BY <1>1, CommandType DEF Acts
<1> QED BY <1>2 DEF Orders

LEMMA RequestType ==
    ASSUME NEW c \in Requests
    PROVE  c \in Orders /\ c \in Commands /\ c.act \in {"all", "head"}
BY RequestAssumption DEF Orders

(* A number of messages is put together from its halves.                   *)
LEMMA Joined ==
    ASSUME NEW u \in 0 .. Half - 1, NEW r \in 0 .. Half - 1
    PROVE  (u * Half) + r \in 0 .. Word - 1
<1>1. Half \in Nat /\ Half > 0 /\ Word = Half * Half /\ u \in Nat /\ u <= Half - 1
      /\ r \in Nat /\ r <= Half - 1
  BY HalfAssumption
<1>2. u * Half <= (Half - 1) * Half
  BY <1>1
<1>3. (Half - 1) * Half = Half * Half - Half
  BY <1>1
<1>4. u * Half \in Nat
  BY <1>1
<1> QED BY <1>1, <1>2, <1>3, <1>4

LEMMA Halves ==
    ASSUME NEW n \in 0 .. Word - 1
    PROVE  /\ n \div Half \in 0 .. Half - 1 /\ n % Half \in 0 .. Half - 1
           /\ ((n \div Half) * Half) + (n % Half) = n
<1>1. Half \in Nat /\ Half > 0 /\ Word = Half * Half
  BY HalfAssumption
<1>2. n \in Nat /\ n < Half * Half
  BY <1>1
<1> DEFINE q == n \div Half
           r == n % Half
<1>3. q \in Int /\ r \in 0 .. Half - 1 /\ n = Half * q + r
  BY <1>1, <1>2
<1> HIDE DEF q, r
<1>4. q >= 0
  <2>1. ASSUME q <= -1 PROVE FALSE
    <3>1. Half * q <= -Half
      BY <1>1, <1>3, <2>1
    <3> QED BY <1>1, <1>2, <1>3, <3>1
  <2> QED BY <1>3, <2>1
<1>5. q <= Half - 1
  <2>1. ASSUME q >= Half PROVE FALSE
    <3>1. Half * q >= Half * Half
      BY <1>1, <1>3, <2>1
    <3>2. Half * q \in Int /\ Half * Half \in Int
      BY <1>1, <1>3
    <3> QED BY <1>1, <1>2, <1>3, <3>1, <3>2
  <2> QED BY <1>1, <1>3, <2>1
<1>6. q * Half = Half * q
  BY <1>1, <1>3
<1> QED BY <1>1, <1>3, <1>4, <1>5, <1>6 DEF q, r

(* A command is received as one of the same kind, with its number if the   *)
(* buffer holds the upper half of that.                                    *)
LEMMA ReceivedFacts ==
    ASSUME upper \in 0 .. Half - 1, NEW c \in Commands
    PROVE  /\ Received(c) \in Commands /\ UpperAfter(c) \in 0 .. Half - 1
           /\ Received(c).act = c.act /\ Received(c).port = c.port
           /\ Received(c).start = c.start /\ Received(c).len = c.len
           /\ c.len = NumberEnd \/ upper = c.n \div Half => Received(c) = c
<1>1. c.n \in 0 .. Word - 1 /\ c.len \in Lens
  BY DEF Commands
<1>2. /\ c.n \div Half \in 0 .. Half - 1 /\ c.n % Half \in 0 .. Half - 1
      /\ ((c.n \div Half) * Half) + (c.n % Half) = c.n
  BY <1>1, Halves
<1> DEFINE number == (upper * Half) + (c.n % Half)
<1>3. number \in 0 .. Word - 1
  BY <1>2, Joined
<1>4. upper = c.n \div Half => number = c.n
  BY <1>2
<1>5. Received(c) = IF c.len < NumberEnd THEN [c EXCEPT !.n = number] ELSE c
  BY DEF Received
<1>6. UpperAfter(c) \in 0 .. Half - 1
  BY <1>2 DEF UpperAfter
<1>7. c.len = NumberEnd => ~(c.len < NumberEnd)
  BY DEF NumberEnd
<1> HIDE DEF number
<1>8. [c EXCEPT !.n = c.n] = c
  BY DEF Commands
<1> QED BY <1>3, <1>4, <1>5, <1>6, <1>7, <1>8 DEF Commands

LEMMA MailTypes ==
    /\ \A ids \in SUBSET Nat : Payload(ids) \in Mails
    /\ \A ok \in BOOLEAN : Answer(ok) \in Mails
    /\ Foreign \in Mails
BY DEF Payload, Answer, Foreign, Mails

LEMMA IdleType == Idle \in Jobs
BY ConfirmType DEF Idle, Jobs

LEMMA Sizes ==
    /\ FlashQueMax \in Nat \ {0} /\ LrQueMax \in Nat \ {0} /\ EventQueMax \in Nat
    /\ MaxStores \in Nat /\ MaxOthers \in Nat
BY SizeAssumption

LEMMA ReadingType ==
    ASSUME log \in Logs, NEW c \in Commands
    PROVE  Reading(c) \in Jobs /\ Reading(c).left \subseteq 1 .. Len(log.ports)
<1> DEFINE window == Window(c.port, StartFor(c.start), NumberFor(c.start, BatchOf(c)))
<1>1. window \subseteq 1 .. Len(log.ports) /\ window \in SUBSET Nat
  BY WindowFacts
<1>2. Reading(c) = [at |-> "read", command |-> c, payload |-> {}, got |-> 0, left |-> window]
  BY DEF Reading
<1> HIDE DEF window
<1> QED BY <1>1, <1>2 DEF Jobs

(* A message moves from what is left to the payload.                       *)
LEMMA TakenFacts ==
    ASSUME log \in Logs, job \in Jobs, job.left \subseteq 1 .. Len(log.ports), job.left # {},
           NEW at \in {"read", "wait"}, NEW payload \in SUBSET Nat
    PROVE  /\ Taken(at, payload) \in Jobs
           /\ Taken(at, payload).at = at
           /\ Taken(at, payload).command = job.command
           /\ Taken(at, payload).left \subseteq job.left
           /\ Taken(at, payload).payload \cup Taken(at, payload).left = payload \cup job.left
           /\ Taken(at, payload).got + Cardinality(Taken(at, payload).left)
                = job.got + Cardinality(job.left)
<1> DEFINE m == NextOf(job.left)
<1>1. m \in job.left
  BY NextFacts
<1>2. m \in Nat /\ IsFiniteSet(job.left) /\ Cardinality(job.left) \in Nat
  <2>1. Len(log.ports) \in Nat
    BY DEF Logs
  <2>2. IsFiniteSet(1 .. Len(log.ports))
    BY <2>1, FS_Interval
  <2> QED BY <1>1, <2>1, <2>2, FS_Subset, FS_CardinalityType
<1>3. Cardinality(job.left \ {m}) = Cardinality(job.left) - 1
  BY <1>1, <1>2, FS_RemoveElement
<1>4. Taken(at, payload) =
        [job EXCEPT !.at = at, !.left = @ \ {m}, !.payload = payload \cup {m}, !.got = @ + 1]
  BY DEF Taken
<1>9. job.left \in SUBSET Nat /\ job.got \in Nat
  BY DEF Jobs
<1> HIDE DEF m
<1>5. job.left \ {m} \in SUBSET Nat /\ payload \cup {m} \in SUBSET Nat /\ job.got + 1 \in Nat
      /\ job.got \in Nat
  BY <1>9, <1>2
<1>6. Taken(at, payload) \in Jobs
  BY <1>4, <1>5 DEF Jobs
<1>7. /\ Taken(at, payload).at = at /\ Taken(at, payload).command = job.command
      /\ Taken(at, payload).left = job.left \ {m}
      /\ Taken(at, payload).payload = payload \cup {m}
      /\ Taken(at, payload).got = job.got + 1
  BY <1>4 DEF Jobs
<1>8. Taken(at, payload).payload \cup Taken(at, payload).left = payload \cup job.left
  BY <1>1, <1>7
<1> QED BY <1>2, <1>3, <1>5, <1>6, <1>7, <1>8

(* What is wanted or still to be read was stored.                          *)
Held ==
    /\ job.left \subseteq 1 .. Len(log.ports)
    /\ server.wanted \subseteq 1 .. Len(log.ports)

LEMMA Fields ==
    ASSUME TypeOK
    PROVE  /\ log \in Logs /\ Len(log.ports) \in Nat
           /\ job.at \in {"idle", "read", "wait"} /\ job.command \in Commands
           /\ job.left \in SUBSET Nat /\ job.payload \in SUBSET Nat /\ job.got \in Nat
           /\ server.asked \in BOOLEAN /\ server.command \in Commands
           /\ server.wanted \in SUBSET Nat /\ server.sent \in SUBSET Nat
           /\ server.lost \in SUBSET Nat /\ server.answer \in {"none", "ok", "failed"}
           /\ server.cut \in BOOLEAN /\ server.late \in BOOLEAN
           /\ made.stores \in 0 .. MaxStores /\ made.others \in 0 .. MaxOthers
           /\ upper \in 0 .. Half - 1
<1>1. /\ log \in Logs /\ job \in Jobs /\ server \in Servers /\ made \in Mades
      /\ upper \in 0 .. Half - 1
  BY DEF TypeOK
<1>2. log \in Logs /\ Len(log.ports) \in Nat
  BY <1>1 DEF Logs
<1>3. /\ job.at \in {"idle", "read", "wait"} /\ job.command \in Commands
      /\ job.left \in SUBSET Nat /\ job.payload \in SUBSET Nat /\ job.got \in Nat
  BY <1>1, Zenon DEF Jobs
<1>4. /\ server.asked \in BOOLEAN /\ server.command \in Commands
      /\ server.wanted \in SUBSET Nat /\ server.sent \in SUBSET Nat
      /\ server.lost \in SUBSET Nat /\ server.answer \in {"none", "ok", "failed"}
      /\ server.cut \in BOOLEAN /\ server.late \in BOOLEAN
  BY <1>1, Zenon DEF Servers
<1>5. made.stores \in 0 .. MaxStores /\ made.others \in 0 .. MaxOthers
  BY <1>1, Zenon DEF Mades
<1> QED BY <1>1, <1>2, <1>3, <1>4, <1>5, Zenon

(* The command at the head of flash_que is taken off.                      *)
LEMMA ServedFacts ==
    ASSUME TypeOK, NEW act, Serves(act)
    PROVE  /\ job.at = "idle" /\ flashQue # <<>>
           /\ Incoming \in Orders /\ Incoming \in Commands /\ Incoming.act = act
           /\ Incoming.port \in Ports \cup {AnyPort}
           /\ Tail(flashQue) \in Seq(Orders)
           /\ Range(flashQue) = {Incoming} \cup Range(Tail(flashQue))
           /\ Received(Incoming) \in Commands /\ Received(Incoming).act = act
           /\ UpperAfter(Incoming) \in 0 .. Half - 1
           /\ act = "head" => Received(Incoming) = Incoming
<1>1. job.at = "idle" /\ flashQue # <<>> /\ Incoming.act = act
  BY DEF Serves
<1>2. /\ Incoming \in Orders /\ Tail(flashQue) \in Seq(Orders)
      /\ Range(flashQue) = {Incoming} \cup Range(Tail(flashQue))
  BY <1>1, TailFacts DEF TypeOK, Incoming
<1>3. Incoming \in Commands
  BY <1>2 DEF Orders
<1>4. Incoming.port \in Ports \cup {AnyPort}
  BY <1>3 DEF Commands
<1>5. /\ Received(Incoming) \in Commands /\ Received(Incoming).act = Incoming.act
      /\ UpperAfter(Incoming) \in 0 .. Half - 1
      /\ Incoming.len = NumberEnd => Received(Incoming) = Incoming
  BY <1>3, Fields, ReceivedFacts
<1>6. act = "head" => Incoming.len = NumberEnd
  BY <1>1, <1>2 DEF Orders
<1> QED BY <1>1, <1>2, <1>3, <1>4, <1>5, <1>6

LEMMA PutFlashFacts ==
    ASSUME NEW que \in Seq(Orders), NEW c \in Orders
    PROVE  /\ PutFlash(que, c) \in Seq(Orders)
           /\ Range(PutFlash(que, c)) \subseteq Range(que) \cup {c}
           /\ c \in Range(PutFlash(que, c))
BY PutFacts, Sizes DEF PutFlash

LEMMA WantsFacts ==
    ASSUME TypeOK, NEW ids \in SUBSET (1 .. Len(log.ports)), Wants(ids)
    PROVE  /\ server' \in Servers /\ server'.wanted = ids
           /\ server'.asked = server.asked /\ server'.command = server.command
           /\ server'.sent = server.sent /\ server'.lost = server.lost
           /\ server'.answer = server.answer /\ server'.cut = server.cut
           /\ server'.late = server.late
<1>1. server \in Servers /\ server' = [server EXCEPT !.wanted = ids]
  BY DEF TypeOK, Wants
<1>2. ids \in SUBSET Nat
  BY Fields
<1> QED BY <1>1, <1>2 DEF Servers

(* Some of a batch is read, or it is put off, or refused.                  *)
LEMMA BeginTypes ==
    ASSUME TypeOK, Held, NEW act, Serves(act), BeginRead(Received(Incoming))
    PROVE  /\ flashQue' \in Seq(Orders) /\ lrQue' \in Seq(Mails) /\ upper' \in 0 .. Half - 1
           /\ job' \in Jobs /\ job'.left \subseteq 1 .. Len(log.ports)
<1> DEFINE c == Received(Incoming)
<1>1. c \in Commands /\ Tail(flashQue) \in Seq(Orders) /\ log \in Logs
  BY ServedFacts, Fields
<1>2. /\ job \in Jobs /\ lrQue \in Seq(Mails) /\ job.left \subseteq 1 .. Len(log.ports)
      /\ upper \in 0 .. Half - 1
  BY DEF TypeOK, Held
<1> HIDE DEF c
<1>3. ContinueCommand(c, 0) \in Orders /\ ContinueCommand(c, 0).n \in 0 .. Word - 1
  BY <1>1, ContinueType DEF Commands
<1>4. /\ PutFlash(Tail(flashQue), ContinueCommand(c, 0)) \in Seq(Orders)
      /\ ContinueCommand(c, 0).n \div Half \in 0 .. Half - 1
  BY <1>1, <1>3, PutFlashFacts, Halves
<1>5. PutMessage(lrQue, LrQueMax, Answer(FALSE)) \in Seq(Mails)
  BY <1>2, MailTypes, PutFacts, Sizes
<1>6. Reading(c) \in Jobs /\ Reading(c).left \subseteq 1 .. Len(log.ports)
  BY <1>1, ReadingType
<1>7. UpperAfter(c) \in 0 .. Half - 1
  BY <1>1, <1>2, ReceivedFacts
<1>8. BeginRead(c)
  BY DEF c
<1> QED BY <1>1, <1>2, <1>4, <1>5, <1>6, <1>7, <1>8 DEF BeginRead, ComeBack, PutContinue

LEMMA SendTypes ==
    ASSUME TypeOK, SendPayload
    PROVE  lrQue' \in Seq(Mails)
<1>1. Payload(job.payload) \in Mails
  BY Fields, MailTypes
<1> QED BY <1>1, PutFacts, Sizes DEF SendPayload, TypeOK

LEMMA InitType == Init => TypeOK /\ Held
<1> SUFFICES ASSUME Init PROVE TypeOK /\ Held
  OBVIOUS
<1>1. log \in Logs
  BY PortAssumption DEF Init, Logs
<1>2. job \in Jobs /\ job.left = {}
  BY IdleType DEF Init, Idle
<1>3. server \in Servers /\ server.wanted = {}
  BY ConfirmType DEF Init, Servers
<1>4. made \in Mades
  BY Sizes DEF Init, Mades
<1>5. flashQue \in Seq(Orders) /\ lrQue \in Seq(Mails) /\ eventQue \in Seq(Mails)
  BY EmptyFacts DEF Init
<1>6. upper \in 0 .. Half - 1 /\ history \in Histories
  BY HalfAssumption DEF Init, Histories
<1> QED BY <1>1, <1>2, <1>3, <1>4, <1>5, <1>6 DEF TypeOK, Held

LEMMA TypeStep ==
    ASSUME TypeOK, Held, Next
    PROVE  TypeOK' /\ Held'
<1> DEFINE F == /\ log \in Logs /\ Len(log.ports) \in Nat
                /\ job \in Jobs /\ server \in Servers /\ made \in Mades
                /\ flashQue \in Seq(Orders) /\ lrQue \in Seq(Mails) /\ eventQue \in Seq(Mails)
                /\ job.left \subseteq 1 .. Len(log.ports)
                /\ server.wanted \subseteq 1 .. Len(log.ports)
                /\ upper \in 0 .. Half - 1 /\ history \in Histories
<1>0. F
  BY Fields DEF TypeOK, Held
<1> SUFFICES F'
  BY Zenon DEF TypeOK, Held
<1>1. CASE HandleStore
  <2>1. Serves("store") /\ log' = Stored(log, Incoming.port) /\ flashQue' = Tail(flashQue)
        /\ history' = [history EXCEPT !.overwritten = @ \/ Overwrites(Incoming)]
        /\ upper' = UpperAfter(Incoming) /\ UNCHANGED <<lrQue, eventQue, job, server, made>>
    BY <1>1 DEF HandleStore
  <2>2. Tail(flashQue) \in Seq(Orders) /\ UpperAfter(Incoming) \in 0 .. Half - 1
    BY <2>1, ServedFacts
  <2>6. history' \in Histories
    BY <1>0, <2>1 DEF Histories, Overwrites
  <2>5. Incoming.port \in Ports
    <3>1. Incoming \in Orders /\ Incoming.act = "store"
      BY <2>1, ServedFacts
    <3> QED BY <3>1, Zenon DEF Orders
  <2>3. log' \in Logs /\ Len(log'.ports) = Len(log.ports) + 1
    BY <1>0, <2>1, <2>5, StoredFacts
  <2>4. Len(log'.ports) \in Nat /\ 1 .. Len(log.ports) \subseteq 1 .. Len(log'.ports)
    BY <1>0, <2>3
  <2> QED BY <1>0, <2>1, <2>2, <2>3, <2>4, <2>6
<1>2. CASE IgnoreConfirm
  <2>1. Serves("confirm") /\ flashQue' = Tail(flashQue)
        /\ UNCHANGED <<log, upper, history, lrQue, eventQue, job, server, made>>
    BY <1>2 DEF IgnoreConfirm
  <2>2. Tail(flashQue) \in Seq(Orders)
    BY <2>1, ServedFacts
  <2> QED BY <1>0, <2>1, <2>2
<1>3. CASE HandleGetAll
  <2> DEFINE c == GetAllCommand(Incoming.port)
  <2>1. /\ Serves("all") /\ flashQue' = PutFlash(Tail(flashQue), c) /\ upper' = c.n \div Half
        /\ Wants(On(Incoming.port)) /\ UNCHANGED <<log, history, lrQue, eventQue, job, made>>
    BY <1>3 DEF HandleGetAll, PutContinue
  <2>2. Tail(flashQue) \in Seq(Orders) /\ Incoming.port \in Ports \cup {AnyPort}
    BY <2>1, ServedFacts
  <2>3. On(Incoming.port) \subseteq 1 .. Len(log.ports)
    BY <1>0, Finiteness
  <2>4. c \in Orders /\ c \in Commands
    BY <1>0, <2>2, GetAllType
  <2> HIDE DEF c
  <2>5. flashQue' \in Seq(Orders)
    BY <2>1, <2>2, <2>4, PutFlashFacts
  <2>6. server' \in Servers /\ server'.wanted = On(Incoming.port)
    BY <2>1, <2>3, WantsFacts
  <2>7. upper' \in 0 .. Half - 1
    <3>1. c.n \in 0 .. Word - 1
      BY <2>4 DEF Commands
    <3> QED BY <2>1, <3>1, Halves
  <2> QED BY <1>0, <2>1, <2>3, <2>5, <2>6, <2>7
<1>4. CASE HandleGetFromHead
  <2>1. /\ Serves("head") /\ BeginRead(Received(Incoming)) /\ UNCHANGED <<log, history, eventQue, made>>
        /\ Wants(Window(Incoming.port, Incoming.start, Incoming.n))
    BY <1>4 DEF HandleGetFromHead
  <2>2. Window(Incoming.port, Incoming.start, Incoming.n) \subseteq 1 .. Len(log.ports)
    BY <1>0, WindowFacts
  <2>3. server' \in Servers /\ server'.wanted = Window(Incoming.port, Incoming.start, Incoming.n)
    BY <2>1, <2>2, WantsFacts
  <2> QED BY <1>0, <2>1, <2>2, <2>3, BeginTypes
<1>5. CASE HandleContinue
  <2>1. /\ Serves("continue") /\ BeginRead(Received(Incoming))
        /\ UNCHANGED <<log, history, eventQue, server, made>>
    BY <1>5 DEF HandleContinue
  <2> QED BY <1>0, <2>1, BeginTypes
<1>6. CASE StopReading
  <2>1. /\ job' = [job EXCEPT !.left = {}] /\ server' = [server EXCEPT !.cut = TRUE]
        /\ UNCHANGED <<log, flashQue, upper, history, lrQue, eventQue, made>>
    BY <1>6 DEF StopReading
  <2>2. job' \in Jobs /\ job'.left = {}
    BY <1>0, <2>1 DEF Jobs
  <2>3. server' \in Servers /\ server'.wanted = server.wanted
    BY <1>0, <2>1 DEF Servers
  <2> QED BY <1>0, <2>1, <2>2, <2>3
<1>7. CASE ReadMessage
  <2>1. /\ job' = Taken("read", job.payload) /\ job.left # {}
        /\ UNCHANGED <<log, flashQue, upper, history, lrQue, eventQue, server, made>>
    BY <1>7 DEF ReadMessage, NextMessage
  <2>2. job.payload \in SUBSET Nat
    BY Fields
  <2>3. job' \in Jobs /\ job'.left \subseteq job.left
    BY <1>0, <2>1, <2>2, TakenFacts
  <2> QED BY <1>0, <2>1, <2>3
<1>8. CASE ReadMessageIntoNext
  <2>1. /\ job' = Taken("wait", {}) /\ job.left # {} /\ SendPayload
        /\ UNCHANGED <<log, flashQue, upper, history, eventQue, server, made>>
    BY <1>8 DEF ReadMessageIntoNext, NextMessage, SendPayload
  <2>2. job' \in Jobs /\ job'.left \subseteq job.left
    BY <1>0, <2>1, TakenFacts
  <2> QED BY <1>0, <2>1, <2>2, SendTypes
<1>9. CASE EndOfBlock
  <2>1. /\ job' = [job EXCEPT !.at = "wait", !.payload = {}] /\ SendPayload
        /\ UNCHANGED <<log, flashQue, upper, history, eventQue, server, made>>
    BY <1>9 DEF EndOfBlock, SendPayload
  <2>2. job' \in Jobs /\ job'.left = job.left
    BY <1>0, <2>1 DEF Jobs
  <2> QED BY <1>0, <2>1, <2>2, SendTypes
<1>10. CASE AwaitConfirm
  <2>1. /\ flashQue # <<>> /\ flashQue' = Tail(flashQue) /\ job' = [job EXCEPT !.at = Resumes(Incoming)]
        /\ UNCHANGED <<log, upper, history, lrQue, eventQue, server, made>>
    BY <1>10 DEF AwaitConfirm
  <2>2. Tail(flashQue) \in Seq(Orders)
    BY <1>0, <2>1, TailFacts
  <2>3. job' \in Jobs /\ job'.left = job.left
    BY <1>0, <2>1 DEF Jobs, Resumes
  <2> QED BY <1>0, <2>1, <2>2, <2>3
<1>11. CASE AwaitTimeout
  <2>1. /\ job' = [job EXCEPT !.at = "read"] /\ server' = [server EXCEPT !.late = TRUE]
        /\ UNCHANGED <<log, flashQue, upper, history, lrQue, eventQue, made>>
    BY <1>11 DEF AwaitTimeout
  <2>2. job' \in Jobs /\ job'.left = job.left
    BY <1>0, <2>1 DEF Jobs
  <2>3. server' \in Servers /\ server'.wanted = server.wanted
    BY <1>0, <2>1 DEF Servers
  <2> QED BY <1>0, <2>1, <2>2, <2>3
<1>12. CASE FinishBatch
  <2> DEFINE c == ContinueCommand(job.command, job.got)
  <2>1. /\ job' = Idle /\ UNCHANGED <<log, history, eventQue, server, made>>
        /\ \/ flashQue' = PutFlash(flashQue, c) /\ upper' = c.n \div Half /\ lrQue' = lrQue
           \/ /\ lrQue' = PutMessage(lrQue, LrQueMax, Answer(TRUE))
              /\ flashQue' = flashQue /\ upper' = upper
    BY <1>12 DEF FinishBatch, PutContinue
  <2>2. c \in Orders /\ c.n \in 0 .. Word - 1
    BY <1>0, Fields, ContinueType DEF Commands
  <2> HIDE DEF c
  <2>3. PutFlash(flashQue, c) \in Seq(Orders) /\ c.n \div Half \in 0 .. Half - 1
    BY <1>0, <2>2, PutFlashFacts, Halves
  <2>4. PutMessage(lrQue, LrQueMax, Answer(TRUE)) \in Seq(Mails)
    BY <1>0, MailTypes, PutFacts, Sizes
  <2>5. job' \in Jobs /\ job'.left = {}
    BY <2>1, IdleType DEF Idle
  <2> QED BY <1>0, <2>1, <2>3, <2>4, <2>5
<1>13. CASE Communication
  <2>1. /\ lrQue # <<>> /\ lrQue' = Tail(lrQue) /\ eventQue' = PutEvent(eventQue, Head(lrQue))
        /\ flashQue' \in {PutFlash(flashQue, Confirm), flashQue}
        /\ server' = [server EXCEPT !.lost = @ \cup Displaced] /\ UNCHANGED <<log, upper, job, made>>
        /\ \E now \in BOOLEAN : history' = [history EXCEPT !.dropped = @ \/ now]
    BY <1>13 DEF Communication, Drops, AnswerDisplaced, CommandPurged
  <2>2. Head(lrQue) \in Mails /\ Tail(lrQue) \in Seq(Mails)
    BY <1>0, <2>1, TailFacts
  <2>3. PutEvent(eventQue, Head(lrQue)) \in Seq(Mails) /\ Displaced \subseteq Nat
    BY <1>0, <2>2, PutEventFacts
  <2>4. PutFlash(flashQue, Confirm) \in Seq(Orders)
    BY <1>0, ConfirmType, PutFlashFacts
  <2>5. server' \in Servers /\ server'.wanted = server.wanted
    BY <1>0, <2>1, <2>3 DEF Servers
  <2>6. history' \in Histories
    BY <1>0, <2>1 DEF Histories
  <2> QED BY <1>0, <2>1, <2>2, <2>3, <2>4, <2>5, <2>6
<1>14. CASE Engine
  <2>1. /\ eventQue # <<>> /\ eventQue' = Tail(eventQue)
        /\ server' = [server EXCEPT
              !.sent = @ \cup Head(eventQue).ids,
              !.answer = IF Head(eventQue).what # "answer" THEN @
                         ELSE IF Head(eventQue).ok THEN "ok" ELSE "failed"]
        /\ UNCHANGED <<log, flashQue, upper, history, lrQue, job, made>>
    BY <1>14 DEF Engine
  <2>2. Head(eventQue) \in Mails /\ Tail(eventQue) \in Seq(Mails)
    BY <1>0, <2>1, TailFacts
  <2>3. Head(eventQue).ids \subseteq Nat
    BY <2>2 DEF Mails
  <2>4. server' \in Servers /\ server'.wanted = server.wanted
    BY <1>0, <2>1, <2>3 DEF Servers
  <2> QED BY <1>0, <2>1, <2>2, <2>4
<1>15. CASE Request
  <2>1. PICK c \in Requests :
          /\ flashQue' = PutFlash(flashQue, c)
          /\ server' = [server EXCEPT !.asked = TRUE, !.command = c]
    BY <1>15 DEF Request
  <2>2. UNCHANGED <<log, upper, history, lrQue, eventQue, job, made>>
    BY <1>15 DEF Request
  <2>3. c \in Commands /\ c \in Orders
    BY RequestType
  <2>4. flashQue' \in Seq(Orders)
    BY <1>0, <2>1, <2>3, PutFlashFacts
  <2>5. server' \in Servers /\ server'.wanted = server.wanted
    BY <1>0, <2>1, <2>3 DEF Servers
  <2> QED BY <1>0, <2>2, <2>4, <2>5
<1>16. CASE Store
  <2>1. PICK c \in StoreCommands : flashQue' = PutFlash(flashQue, c)
    BY <1>16 DEF Store
  <2>2. /\ made.stores < MaxStores /\ made' = [made EXCEPT !.stores = @ + 1]
        /\ UNCHANGED <<log, upper, lrQue, eventQue, job, server>>
        /\ history' = [history EXCEPT !.dropped = @ \/ CommandPurged]
    BY <1>16 DEF Store, Drops
  <2>3. flashQue' \in Seq(Orders)
    BY <1>0, <2>1, StoreType, PutFlashFacts
  <2>4. history' \in Histories
    BY <1>0, <2>2 DEF Histories, CommandPurged
  <2>6. made.stores + 1 \in 0 .. MaxStores
    BY <2>2, Fields, Sizes
  <2>7. made' \in Mades
    BY <1>0, <2>2, <2>6 DEF Mades
  <2> QED BY <1>0, <2>2, <2>3, <2>4, <2>7
<1>17. CASE Other
  <2>1. /\ made.others < MaxOthers /\ made' = [made EXCEPT !.others = @ + 1]
        /\ UNCHANGED <<log, flashQue, upper, job>>
        /\ \E now \in BOOLEAN : history' = [history EXCEPT !.dropped = @ \/ now]
        /\ \/ /\ lrQue' = PutMessage(lrQue, LrQueMax, Foreign)
              /\ eventQue' = eventQue /\ server' = server
           \/ /\ eventQue' = PutEvent(eventQue, Foreign)
              /\ server' = [server EXCEPT !.lost = @ \cup Displaced] /\ lrQue' = lrQue
    BY <1>17 DEF Other, SendOther, CallEngine, Drops, AnswerPurged, AnswerDisplaced
  <2>2. PutEvent(eventQue, Foreign) \in Seq(Mails) /\ Displaced \subseteq Nat
    BY <1>0, MailTypes, PutEventFacts
  <2>3. PutMessage(lrQue, LrQueMax, Foreign) \in Seq(Mails)
    BY <1>0, MailTypes, PutFacts, Sizes
  <2>4. server' \in Servers /\ server'.wanted = server.wanted
    <3>1. server' = server \/ server' = [server EXCEPT !.lost = @ \cup Displaced]
      BY <2>1
    <3>2. CASE server' = server
      BY <1>0, <3>2
    <3>3. CASE server' = [server EXCEPT !.lost = @ \cup Displaced]
      BY <1>0, <2>2, <3>3 DEF Servers
    <3> QED BY <3>1, <3>2, <3>3
  <2>5. made.others + 1 \in 0 .. MaxOthers
    BY <2>1, Fields, Sizes
  <2>6. made' \in Mades /\ history' \in Histories
    BY <1>0, <2>1, <2>5 DEF Mades, Histories
  <2> QED BY <1>0, <2>1, <2>2, <2>3, <2>4, <2>6
<1> QED
  BY <1>1, <1>2, <1>3, <1>4, <1>5, <1>6, <1>7, <1>8, <1>9, <1>10, <1>11, <1>12, <1>13,
     <1>14, <1>15, <1>16, <1>17 DEF Next, FlashThread

-----------------------------------------------------------------------------
(* A payload and its confirm                                               *)

Datas == {m \in Mails : m.what = "data"}

NoneUnderWay == Free(lrQue, Datas) /\ Free(flashQue, {Confirm})

(* Until a wait times out, at most one payload or one confirm is under     *)
(* way, and none but while the flash thread waits.                         *)
OneUnderWay ==
    ~server.late =>
        /\ Once(lrQue, Datas) /\ Once(flashQue, {Confirm})
        /\ Free(lrQue, Datas) \/ Free(flashQue, {Confirm})
        /\ job.at # "wait" => NoneUnderWay

LEMMA FreeFacts ==
    ASSUME NEW S, NEW que \in Seq(S), NEW T
    PROVE  /\ Free(<<>>, T)
           /\ que # <<>> /\ Free(que, T) => Free(Tail(que), T)
           /\ \A m \in S, max \in Nat \ {0} :
                 m \notin T /\ Free(que, T) => Free(PutMessage(que, max, m), T)
<1>1. Free(<<>>, T)
  BY EmptyFacts DEF Free
<1>2. ASSUME que # <<>>, Free(que, T) PROVE Free(Tail(que), T)
  BY <1>2, TailFacts DEF Free
<1>3. ASSUME NEW m \in S, NEW max \in Nat \ {0}, m \notin T, Free(que, T)
      PROVE  Free(PutMessage(que, max, m), T)
  BY <1>3, PutFacts DEF Free
<1> QED BY <1>1, <1>2, <1>3

LEMMA FreePutFlash ==
    ASSUME NEW que \in Seq(Orders), NEW c \in Orders, NEW T, c \notin T, Free(que, T)
    PROVE  Free(PutFlash(que, c), T)
BY FreeFacts, Sizes DEF PutFlash

LEMMA MailKinds ==
    /\ \A ids \in SUBSET Nat : Payload(ids) \in Datas
    /\ \A ok \in BOOLEAN : Answer(ok) \notin Datas
    /\ Foreign \notin Datas
BY DEF Payload, Answer, Foreign, Datas, Mails

(* Whatever keeps both kinds away keeps the invariant.                     *)
LEMMA NoneKept ==
    ASSUME TypeOK', NoneUnderWay'
    PROVE  OneUnderWay'
<1>1. flashQue' \in Seq(Orders) /\ lrQue' \in Seq(Mails)
  BY DEF TypeOK
<1>2. Free(lrQue', Datas) /\ Free(flashQue', {Confirm})
  BY DEF NoneUnderWay
<1>3. Once(lrQue', Datas) /\ Once(flashQue', {Confirm})
  BY <1>1, <1>2, OnceFree
<1> QED BY <1>2, <1>3 DEF OneUnderWay, NoneUnderWay

LEMMA UnderWayKept ==
    ASSUME OneUnderWay, UNCHANGED <<flashQue, lrQue>>,
           job'.at = job.at, server'.late = server.late
    PROVE  OneUnderWay'
BY DEF OneUnderWay, NoneUnderWay

LEMMA BeginKeepsNone ==
    ASSUME TypeOK, NEW act, Serves(act), BeginRead(Received(Incoming)), NoneUnderWay
    PROVE  NoneUnderWay'
<1> DEFINE c == Received(Incoming)
<1>1. /\ flashQue # <<>> /\ c \in Commands /\ Tail(flashQue) \in Seq(Orders) /\ log \in Logs
  BY ServedFacts, Fields
<1>2. flashQue \in Seq(Orders) /\ lrQue \in Seq(Mails)
  BY DEF TypeOK
<1>3. Free(Tail(flashQue), {Confirm})
  BY <1>1, <1>2, FreeFacts DEF NoneUnderWay
<1> HIDE DEF c
<1>4. ContinueCommand(c, 0) \in Orders /\ ContinueCommand(c, 0) # Confirm
  BY <1>1, ContinueType, ConfirmType
<1>5. Free(PutFlash(Tail(flashQue), ContinueCommand(c, 0)), {Confirm})
  BY <1>1, <1>3, <1>4, FreePutFlash
<1>6. Free(PutMessage(lrQue, LrQueMax, Answer(FALSE)), Datas)
  BY <1>2, MailTypes, MailKinds, FreeFacts, Sizes DEF NoneUnderWay
<1>7. BeginRead(c)
  BY DEF c
<1> QED BY <1>3, <1>5, <1>6, <1>7 DEF BeginRead, ComeBack, PutContinue, NoneUnderWay

LEMMA UnderWayStep ==
    ASSUME TypeOK, TypeOK', OneUnderWay, Next
    PROVE  OneUnderWay'
<1>0. /\ flashQue \in Seq(Orders) /\ lrQue \in Seq(Mails) /\ log \in Logs
      /\ job \in Jobs /\ server \in Servers
  BY DEF TypeOK
<1> SUFFICES ASSUME ~server'.late PROVE OneUnderWay'
  BY DEF OneUnderWay
<1>1. CASE HandleStore \/ IgnoreConfirm
  <2>1. /\ job.at # "wait" /\ flashQue # <<>> /\ flashQue' = Tail(flashQue)
        /\ UNCHANGED <<lrQue, job, server>>
    BY <1>1 DEF HandleStore, IgnoreConfirm, Serves
  <2>2. NoneUnderWay
    BY <2>1 DEF OneUnderWay
  <2>3. NoneUnderWay'
    BY <1>0, <2>1, <2>2, FreeFacts DEF NoneUnderWay
  <2> QED BY <2>3, NoneKept
<1>2. CASE HandleGetAll
  <2>1. /\ Serves("all") /\ lrQue' = lrQue /\ server' = [server EXCEPT !.wanted = On(Incoming.port)]
        /\ flashQue' = PutFlash(Tail(flashQue), GetAllCommand(Incoming.port))
    BY <1>2 DEF HandleGetAll, Wants, PutContinue
  <2>2. /\ job.at # "wait" /\ flashQue # <<>> /\ Tail(flashQue) \in Seq(Orders)
        /\ Incoming.port \in Ports \cup {AnyPort}
    BY <2>1, ServedFacts
  <2>3. server.late = server'.late
    BY <1>0, <2>1 DEF Servers
  <2>4. NoneUnderWay
    BY <2>2, <2>3 DEF OneUnderWay
  <2>7. GetAllCommand(Incoming.port) \in Orders /\ GetAllCommand(Incoming.port) # Confirm
    BY <1>0, <2>2, GetAllType, ConfirmType
  <2>8. Free(Tail(flashQue), {Confirm})
    BY <1>0, <2>2, <2>4, FreeFacts DEF NoneUnderWay
  <2>9. NoneUnderWay'
    BY <2>1, <2>2, <2>4, <2>7, <2>8, FreePutFlash DEF NoneUnderWay
  <2> QED BY <2>9, NoneKept
<1>3. CASE HandleGetFromHead \/ HandleContinue
  <2>1. /\ \E act \in {"head", "continue"} : Serves(act) /\ BeginRead(Received(Incoming))
        /\ \/ server' = server
           \/ Wants(Window(Incoming.port, Incoming.start, Incoming.n))
    BY <1>3 DEF HandleGetFromHead, HandleContinue
  <2>2. server'.late = server.late
    BY <1>0, <2>1 DEF Servers, Wants
  <2>3. job.at # "wait"
    BY <2>1 DEF Serves
  <2>4. NoneUnderWay
    BY <2>2, <2>3 DEF OneUnderWay
  <2>5. NoneUnderWay'
    BY <2>1, <2>4, BeginKeepsNone
  <2> QED BY <2>5, NoneKept
<1>4. CASE StopReading \/ ReadMessage
  <2>1. /\ job.at = "read" /\ UNCHANGED <<flashQue, lrQue>>
        /\ server' \in {server, [server EXCEPT !.cut = TRUE]}
        /\ job' \in {[job EXCEPT !.left = {}], Taken("read", job.payload)}
    BY <1>4 DEF StopReading, ReadMessage, NextMessage
  <2>2. server'.late = server.late
    BY <1>0, <2>1 DEF Servers
  <2>3. job'.at = "read"
    BY <1>0, <2>1 DEF Jobs, Taken
  <2> QED BY <2>1, <2>2, <2>3, UnderWayKept
<1>5. CASE ReadMessageIntoNext \/ EndOfBlock
  <2>1. /\ job.at = "read" /\ UNCHANGED <<flashQue, server>>
        /\ lrQue' = PutMessage(lrQue, LrQueMax, Payload(job.payload))
        /\ job' \in {[job EXCEPT !.at = "wait", !.payload = {}], Taken("wait", {})}
    BY <1>5 DEF ReadMessageIntoNext, EndOfBlock, NextMessage, SendPayload
  <2>2. job'.at = "wait"
    BY <1>0, <2>1 DEF Jobs, Taken
  <2>3. Free(lrQue, Datas) /\ Free(flashQue, {Confirm})
    BY <2>1 DEF OneUnderWay, NoneUnderWay
  <2>4. Payload(job.payload) \in Mails
    BY Fields, MailTypes
  <2>5. Once(lrQue', Datas)
    BY <1>0, <2>1, <2>3, <2>4, OncePut, OnceFree
  <2>6. Once(flashQue, {Confirm})
    BY <1>0, <2>3, OnceFree
  <2> QED BY <2>1, <2>2, <2>3, <2>5, <2>6 DEF OneUnderWay
<1>6. CASE AwaitConfirm
  <2>1. /\ job.at = "wait" /\ flashQue # <<>> /\ flashQue' = Tail(flashQue)
        /\ job' = [job EXCEPT !.at = Resumes(Incoming)] /\ UNCHANGED <<lrQue, server>>
    BY <1>6 DEF AwaitConfirm
  <2>2. /\ Incoming \in Orders /\ Range(flashQue) = {Incoming} \cup Range(Tail(flashQue))
    BY <1>0, <2>1, TailFacts DEF Incoming
  <2>3. /\ Once(lrQue, Datas) /\ Once(flashQue, {Confirm})
        /\ Free(lrQue, Datas) \/ Free(flashQue, {Confirm})
    BY <2>1 DEF OneUnderWay
  <2>4. /\ Once(Tail(flashQue), {Confirm})
        /\ Incoming = Confirm => Free(Tail(flashQue), {Confirm})
    BY <1>0, <2>1, <2>3, OnceTail DEF Incoming
  <2>5. CASE Incoming.act = "confirm"
    <3>1. Incoming = Confirm
      BY <2>2, <2>5 DEF Orders
    <3>2. Free(lrQue, Datas)
      BY <2>2, <2>3, <3>1 DEF Free
    <3>3. NoneUnderWay'
      BY <2>1, <2>4, <3>1, <3>2 DEF NoneUnderWay
    <3> QED BY <3>3, NoneKept
  <2>6. CASE Incoming.act # "confirm"
    <3>1. job'.at = "wait"
      BY <1>0, <2>1, <2>6 DEF Jobs, Resumes
    <3>2. Free(flashQue, {Confirm}) => Free(flashQue', {Confirm})
      BY <1>0, <2>1, FreeFacts
    <3> QED BY <2>1, <2>3, <2>4, <3>1, <3>2 DEF OneUnderWay
  <2> QED BY <2>5, <2>6
<1>7. CASE AwaitTimeout
  <2>1. server' = [server EXCEPT !.late = TRUE]
    BY <1>7 DEF AwaitTimeout
  <2>2. server'.late
    BY <1>0, <2>1 DEF Servers
  <2> QED BY <2>2
<1>8. CASE FinishBatch
  <2>1. /\ job.at = "read" /\ server' = server
        /\ \/ flashQue' = PutFlash(flashQue, ContinueCommand(job.command, job.got)) /\ lrQue' = lrQue
           \/ lrQue' = PutMessage(lrQue, LrQueMax, Answer(TRUE)) /\ flashQue' = flashQue
    BY <1>8 DEF FinishBatch, PutContinue
  <2>2. Free(lrQue, Datas) /\ Free(flashQue, {Confirm})
    BY <2>1 DEF OneUnderWay, NoneUnderWay
  <2>3. /\ ContinueCommand(job.command, job.got) \in Orders
        /\ ContinueCommand(job.command, job.got) # Confirm
    BY <1>0, Fields, ContinueType, ConfirmType
  <2>4. Free(PutFlash(flashQue, ContinueCommand(job.command, job.got)), {Confirm})
    BY <1>0, <2>2, <2>3, FreePutFlash
  <2>5. Free(PutMessage(lrQue, LrQueMax, Answer(TRUE)), Datas)
    BY <1>0, <2>2, MailTypes, MailKinds, FreeFacts, Sizes
  <2>6. NoneUnderWay'
    BY <2>1, <2>2, <2>4, <2>5 DEF NoneUnderWay
  <2> QED BY <2>6, NoneKept
<1>9. CASE Communication
  <2>1. /\ lrQue # <<>> /\ lrQue' = Tail(lrQue) /\ UNCHANGED <<log, job, made>>
        /\ flashQue' = IF Head(lrQue).what = "data" THEN PutFlash(flashQue, Confirm) ELSE flashQue
        /\ server' = [server EXCEPT !.lost = @ \cup Displaced]
    BY <1>9 DEF Communication
  <2>2. server'.late = server.late
    BY <1>0, <2>1 DEF Servers
  <2>3. /\ Once(lrQue, Datas) /\ Once(flashQue, {Confirm})
        /\ Free(lrQue, Datas) \/ Free(flashQue, {Confirm})
        /\ job.at # "wait" => Free(lrQue, Datas) /\ Free(flashQue, {Confirm})
    BY <2>2 DEF OneUnderWay, NoneUnderWay
  <2>4. /\ Once(Tail(lrQue), Datas) /\ (Free(lrQue, Datas) => Free(Tail(lrQue), Datas))
        /\ Head(lrQue) \in Datas => Free(Tail(lrQue), Datas)
    BY <1>0, <2>1, <2>3, OnceTail, FreeFacts
  <2>5. Head(lrQue) \in Mails /\ Range(lrQue) = {Head(lrQue)} \cup Range(Tail(lrQue))
    BY <1>0, <2>1, TailFacts
  <2>6. CASE Head(lrQue).what = "data"
    <3>1. Head(lrQue) \in Datas
      BY <2>5, <2>6 DEF Datas
    <3>2. ~Free(lrQue, Datas)
      BY <2>5, <3>1 DEF Free
    <3>3. job.at = "wait" /\ Free(flashQue, {Confirm})
      BY <2>3, <3>2
    <3>4. Once(PutFlash(flashQue, Confirm), {Confirm})
      BY <1>0, <3>3, ConfirmType, OnceFree, OncePut DEF PutFlash
    <3> QED BY <2>1, <2>4, <2>6, <3>1, <3>3, <3>4 DEF OneUnderWay
  <2>7. CASE Head(lrQue).what # "data"
    BY <2>1, <2>3, <2>4, <2>7 DEF OneUnderWay, NoneUnderWay
  <2> QED BY <2>6, <2>7
<1>10. CASE Engine
  <2>1. /\ UNCHANGED <<flashQue, lrQue, job>>
        /\ server' = [server EXCEPT
              !.sent = @ \cup Head(eventQue).ids,
              !.answer = IF Head(eventQue).what # "answer" THEN @
                         ELSE IF Head(eventQue).ok THEN "ok" ELSE "failed"]
    BY <1>10 DEF Engine
  <2>2. server'.late = server.late
    BY <1>0, <2>1 DEF Servers
  <2> QED BY <2>1, <2>2, UnderWayKept
<1>11. CASE Request \/ Store
  <2>1. PICK c : c \in Orders /\ c # Confirm /\ flashQue' = PutFlash(flashQue, c)
    <3>1. CASE Request
      <4>1. PICK c \in Requests : flashQue' = PutFlash(flashQue, c)
        BY <3>1 DEF Request
      <4>2. c \in Orders /\ c # Confirm
        BY <4>1, RequestType, ConfirmType
      <4> QED BY <4>1, <4>2
    <3>2. CASE Store
      <4>1. PICK c \in StoreCommands : flashQue' = PutFlash(flashQue, c)
        BY <3>2 DEF Store
      <4> QED BY <4>1, StoreType, ConfirmType
    <3> QED BY <1>11, <3>1, <3>2
  <2>2. /\ UNCHANGED <<lrQue, job>>
        /\ server' = server \/ \E c2 \in Requests : server' = [server EXCEPT !.asked = TRUE, !.command = c2]
    BY <1>11 DEF Request, Store
  <2>3. server'.late = server.late
    BY <1>0, <2>2 DEF Servers
  <2>4. Free(flashQue, {Confirm}) => Free(flashQue', {Confirm})
    BY <1>0, <2>1, FreePutFlash
  <2>5. Once(flashQue, {Confirm}) => Once(flashQue', {Confirm})
    BY <1>0, <2>1, OncePut DEF PutFlash
  <2> QED BY <2>2, <2>3, <2>4, <2>5 DEF OneUnderWay, NoneUnderWay
<1>12. CASE CallEngine
  <2>1. UNCHANGED <<flashQue, lrQue, job>> /\ server' = [server EXCEPT !.lost = @ \cup Displaced]
    BY <1>12 DEF CallEngine
  <2>2. server'.late = server.late
    BY <1>0, <2>1 DEF Servers
  <2> QED BY <2>1, <2>2, UnderWayKept
<1>13. CASE SendOther
  <2>1. UNCHANGED <<flashQue, job, server>> /\ lrQue' = PutMessage(lrQue, LrQueMax, Foreign)
    BY <1>13 DEF SendOther
  <2>2. Free(lrQue, Datas) => Free(lrQue', Datas)
    BY <1>0, <2>1, MailTypes, MailKinds, FreeFacts, Sizes
  <2>3. Once(lrQue, Datas) => Once(lrQue', Datas)
    BY <1>0, <2>1, MailTypes, MailKinds, OncePut
  <2> QED BY <2>1, <2>2, <2>3 DEF OneUnderWay, NoneUnderWay
<1> QED
  BY <1>1, <1>2, <1>3, <1>4, <1>5, <1>6, <1>7, <1>8, <1>9, <1>10, <1>11, <1>12, <1>13
  DEF Next, FlashThread, Other

LEMMA LockStepFollows == TypeOK /\ OneUnderWay => LockStep
<1> SUFFICES ASSUME TypeOK, OneUnderWay, ~server.late
             PROVE  Cardinality(UnderWay) <= (IF job.at = "wait" THEN 1 ELSE 0)
  BY DEF LockStep
<1>0. flashQue \in Seq(Orders) /\ lrQue \in Seq(Mails)
  BY DEF TypeOK
<1>1. Range(lrQue) = {lrQue[i] : i \in 1 .. Len(lrQue)}
      /\ Range(flashQue) = {flashQue[i] : i \in 1 .. Len(flashQue)}
  BY <1>0, RangeEquality
<1> DEFINE data == {i \in 1 .. Len(lrQue) : lrQue[i].what = "data"}
           confirms == {j \in 1 .. Len(flashQue) : flashQue[j] = Confirm}
<1>2. \A i \in 1 .. Len(lrQue) : lrQue[i] \in Mails
  BY <1>0
<1>3. \A i \in data : lrQue[i] \in Datas /\ i \in 1 .. Len(lrQue)
  BY <1>2 DEF Datas
<1>4. (\A i, j \in data : i = j) /\ (\A i, j \in confirms : i = j)
  BY <1>3 DEF OneUnderWay, Once
<1>5. (Free(lrQue, Datas) => data = {}) /\ (Free(flashQue, {Confirm}) => confirms = {})
  BY <1>1, <1>3 DEF Free
<1>6. data = {} \/ confirms = {}
  BY <1>5 DEF OneUnderWay
<1>7. UnderWay = data \cup {-i : i \in confirms}
  BY DEF UnderWay
<1> HIDE DEF data, confirms
<1>8. \A x, y \in UnderWay : x = y
  BY <1>4, <1>6, <1>7
<1>9. CASE UnderWay = {}
  <2>1. Cardinality(UnderWay) = 0
    BY <1>9, FS_EmptySet
  <2> QED BY <2>1
<1>10. CASE UnderWay # {}
  <2>1. job.at = "wait"
    BY <1>5, <1>7, <1>10 DEF OneUnderWay, NoneUnderWay
  <2>2. PICK x \in UnderWay : UnderWay = {x}
    <3>1. PICK x : x \in UnderWay
      BY <1>10
    <3>2. UnderWay = {x}
      BY <1>8, <3>1
    <3> QED BY <3>1, <3>2
  <2>3. Cardinality(UnderWay) = 1
    BY <2>2, FS_Singleton
  <2> QED BY <2>1, <2>3
<1> QED BY <1>9, <1>10

-----------------------------------------------------------------------------
(* A command from the head                                                 *)

Asking  == {c \in Commands : c.act \in {"all", "head", "continue"}}
Anew    == {c \in Commands : c.act \in {"all", "head"}}
Answers == {m \in Mails : m.what = "answer"}
Yes     == {m \in Answers : m.ok}

(* Before the server asks there is nothing to send but what others send.   *)
Unasked ==
    ~server.asked =>
        /\ Free(flashQue, Asking) /\ job = Idle
        /\ server.command = Confirm /\ server.answer = "none" /\ server.sent = {}
        /\ Range(lrQue) \subseteq {Foreign} /\ Range(eventQue) \subseteq {Foreign}
        /\ made.others = 0 => lrQue = <<>> /\ eventQue = <<>>

(* A command from the head that nothing has disturbed waits in flash_que,  *)
(* finds no room in event_que ever, asked for more than there was, is      *)
(* being read, is over, or has failed.                                     *)
Clean == server.command.act = "head" /\ Undisturbed /\ made.others = 0

Silent == job = Idle /\ lrQue = <<>> /\ eventQue = <<>> /\ server.answer = "none"

Pending ==
    /\ Silent /\ server.sent = {}
    /\ Range(flashQue) \cap Asking \subseteq {server.command}
    /\ Once(flashQue, Asking)

Starved == EventQueMax = 2 /\ Silent

Off == Cardinality(server.wanted) # server.command.n /\ Free(flashQue, Anew)

Under ==
    /\ job.at \in {"read", "wait"} /\ job.command = server.command
    /\ Free(flashQue, Asking)
    /\ server.answer = "none" /\ Free(eventQue, Answers) /\ Range(lrQue) \subseteq Datas
    /\ Cardinality(server.wanted) = server.command.n
    /\ server.wanted = server.sent \cup Ids(eventQue) \cup Ids(lrQue) \cup job.payload \cup job.left
    /\ job.got + Cardinality(job.left) = Cardinality(server.wanted)

AnswerQueued  == lrQue = <<Answer(TRUE)>> /\ Free(eventQue, Answers) /\ server.answer = "none"
AnswerIsLast  ==
    /\ lrQue = <<>> /\ server.answer = "none"
    /\ \E front \in Seq(Mails) : Free(front, Answers) /\ eventQue = Append(front, Answer(TRUE))
AnswerArrived == lrQue = <<>> /\ eventQue = <<>>

Over ==
    /\ job = Idle /\ Free(flashQue, Asking)
    /\ server.wanted = server.sent \cup Ids(eventQue)
    /\ AnswerQueued \/ AnswerIsLast \/ AnswerArrived

Failed ==
    /\ job = Idle /\ Free(flashQue, Asking) /\ server.answer # "ok"
    /\ Free(lrQue, Yes) /\ Free(eventQue, Yes)

Phases == Clean => Pending \/ Starved \/ Off \/ Under \/ Over \/ Failed

(* What a step does to what the server knows.                              *)
LEMMA ServerStep ==
    ASSUME TypeOK, Held, Next, ~Request
    PROVE  /\ server'.asked = server.asked /\ server'.command = server.command
           /\ server.cut => server'.cut
           /\ server.late => server'.late
           /\ server.lost \subseteq server'.lost
           /\ ~Engine => server'.sent = server.sent /\ server'.answer = server.answer
           /\ ~HandleGetAll /\ ~HandleGetFromHead => server'.wanted = server.wanted
           /\ made'.others = made.others \/ Other
<1>0. server \in Servers /\ log \in Logs
  BY DEF TypeOK
<1>1. CASE HandleGetAll \/ HandleGetFromHead
  <2>1. PICK ids : Wants(ids)
    BY <1>1 DEF HandleGetAll, HandleGetFromHead
  <2>2. server' = [server EXCEPT !.wanted = ids] /\ made' = made
    BY <1>1, <2>1 DEF HandleGetAll, HandleGetFromHead, Wants
  <2> QED BY <1>0, <1>1, <2>2 DEF Servers
<1>2. CASE StopReading
  <2>1. server' = [server EXCEPT !.cut = TRUE] /\ made' = made
    BY <1>2 DEF StopReading
  <2> QED BY <1>0, <2>1 DEF Servers
<1>3. CASE AwaitTimeout
  <2>1. server' = [server EXCEPT !.late = TRUE] /\ made' = made
    BY <1>3 DEF AwaitTimeout
  <2> QED BY <1>0, <2>1 DEF Servers
<1>4. CASE Communication \/ CallEngine
  <2>1. server' = [server EXCEPT !.lost = @ \cup Displaced] /\ (made' = made \/ Other)
    BY <1>4 DEF Communication, CallEngine, Other
  <2> QED BY <1>0, <2>1 DEF Servers
<1>9. CASE SendOther
  BY <1>9 DEF SendOther, Other
<1>5. CASE Engine
  <2>1. /\ server' = [server EXCEPT
              !.sent = @ \cup Head(eventQue).ids,
              !.answer = IF Head(eventQue).what # "answer" THEN @
                         ELSE IF Head(eventQue).ok THEN "ok" ELSE "failed"]
        /\ made' = made
    BY <1>5 DEF Engine
  <2> QED BY <1>0, <1>5, <2>1 DEF Servers
<1>6. CASE HandleStore \/ IgnoreConfirm \/ HandleContinue \/ ReadMessage \/ AwaitConfirm \/ FinishBatch
  BY <1>6 DEF HandleStore, IgnoreConfirm, HandleContinue, ReadMessage, AwaitConfirm, FinishBatch
<1>7. CASE ReadMessageIntoNext \/ EndOfBlock
  BY <1>7 DEF ReadMessageIntoNext, EndOfBlock, SendPayload
<1>8. CASE Store
  <2>1. server' = server /\ made' = [made EXCEPT !.stores = @ + 1]
    BY <1>8 DEF Store
  <2>2. made'.others = made.others
    BY <2>1 DEF TypeOK, Mades
  <2> QED BY <2>1, <2>2
<1> QED
  BY <1>1, <1>2, <1>3, <1>4, <1>5, <1>6, <1>7, <1>8, <1>9 DEF Next, FlashThread, Other

(* What another thread sends or calls for is counted.                      *)
LEMMA OtherCounts ==
    ASSUME TypeOK, Other
    PROVE  made'.others # 0 /\ made'.stores = made.stores
<1>1. made' = [made EXCEPT !.others = @ + 1] /\ made \in Mades
  BY DEF Other, SendOther, CallEngine, TypeOK
<1>2. made'.others = made.others + 1 /\ made'.stores = made.stores
  BY <1>1 DEF Mades
<1>3. made.others \in Nat
  BY Fields, Sizes
<1> QED BY <1>2, <1>3

(* What goes undisturbed was undisturbed before.                           *)
LEMMA CleanBefore ==
    ASSUME TypeOK, Held, Next, ~Request, Clean'
    PROVE  /\ Clean /\ ~StopReading /\ ~AwaitTimeout /\ ~Other
           /\ server.lost = {} /\ server'.lost = {} /\ ~server.late /\ ~server'.late
           /\ server'.command = server.command /\ server.command.act = "head"
<1>0. /\ server'.command.act = "head" /\ ~server'.cut /\ ~server'.late /\ server'.lost = {}
      /\ made'.others = 0
  BY DEF Clean, Undisturbed
<1>1. ~StopReading
  <2> SUFFICES ASSUME StopReading PROVE FALSE
    OBVIOUS
  <2>1. server' = [server EXCEPT !.cut = TRUE]
    BY DEF StopReading
  <2> QED BY <1>0, <2>1 DEF TypeOK, Servers
<1>2. ~AwaitTimeout
  <2> SUFFICES ASSUME AwaitTimeout PROVE FALSE
    OBVIOUS
  <2>1. server' = [server EXCEPT !.late = TRUE]
    BY DEF AwaitTimeout
  <2> QED BY <1>0, <2>1 DEF TypeOK, Servers
<1>3. ~Other
  BY <1>0, OtherCounts
<1>4. /\ server'.command = server.command /\ ~server.cut /\ ~server.late /\ server.lost = {}
      /\ made.others = 0
  BY <1>0, <1>3, ServerStep
<1> QED BY <1>0, <1>1, <1>2, <1>3, <1>4 DEF Clean, Undisturbed

(* While the flash thread is idle, no batch is read.                       *)
LEMMA IdleSteps ==
    ASSUME job = Idle, Next
    PROVE  \/ HandleStore \/ IgnoreConfirm \/ HandleGetAll \/ HandleGetFromHead \/ HandleContinue
           \/ Communication \/ Engine \/ Request \/ Store \/ Other
<1>1. job.at = "idle"
  BY DEF Idle
<1> QED
  BY <1>1 DEF Next, FlashThread, StopReading, ReadMessage, ReadMessageIntoNext, EndOfBlock,
     AwaitConfirm, AwaitTimeout, FinishBatch, NextMessage

LEMMA ReadSteps ==
    ASSUME job.at \in {"read", "wait"}, Next
    PROVE  \/ StopReading \/ ReadMessage \/ ReadMessageIntoNext \/ EndOfBlock \/ AwaitConfirm
           \/ AwaitTimeout \/ FinishBatch
           \/ Communication \/ Engine \/ Request \/ Store \/ Other
BY DEF Next, FlashThread, HandleStore, IgnoreConfirm, HandleGetAll, HandleGetFromHead,
   HandleContinue, Serves

LEMMA NothingAsked ==
    ASSUME TypeOK, Free(flashQue, Asking)
    PROVE  ~HandleGetAll /\ ~HandleGetFromHead /\ ~HandleContinue
<1> SUFFICES ASSUME NEW act \in {"all", "head", "continue"}, Serves(act) PROVE FALSE
  BY DEF HandleGetAll, HandleGetFromHead, HandleContinue
<1>1. Incoming \in Asking /\ Range(flashQue) = {Incoming} \cup Range(Tail(flashQue))
  BY ServedFacts DEF Asking
<1> QED BY <1>1 DEF Free

LEMMA StoreCommand ==
    ASSUME NEW c \in StoreCommands
    PROVE  c \in Orders /\ c \notin Asking /\ c \notin Anew /\ c.act = "store"
BY StoreType DEF Asking, Anew

(* What the other steps take off flash_que, or put on it, asks for nothing.*)
LEMMA QuietSteps ==
    ASSUME TypeOK,
           HandleStore \/ IgnoreConfirm \/ AwaitConfirm \/ Communication \/ Store
    PROVE  /\ Range(flashQue') \cap Asking \subseteq Range(flashQue)
           /\ \A T \in {Asking, Anew} :
                 /\ Free(flashQue, T) => Free(flashQue', T)
                 /\ Once(flashQue, T) => Once(flashQue', T)
<1>0. flashQue \in Seq(Orders)
  BY DEF TypeOK
<1>1. CASE HandleStore \/ IgnoreConfirm \/ AwaitConfirm
  <2>1. flashQue # <<>> /\ flashQue' = Tail(flashQue)
    BY <1>1 DEF HandleStore, IgnoreConfirm, AwaitConfirm, Serves
  <2> QED BY <1>0, <2>1, TailFacts, FreeFacts, OnceTail
<1>2. ASSUME NEW c \in Orders, c \notin Asking, c \notin Anew, flashQue' = PutFlash(flashQue, c)
      PROVE  /\ Range(flashQue') \cap Asking \subseteq Range(flashQue)
             /\ \A T \in {Asking, Anew} :
                   /\ Free(flashQue, T) => Free(flashQue', T)
                   /\ Once(flashQue, T) => Once(flashQue', T)
  <2>1. Range(flashQue') \subseteq Range(flashQue) \cup {c}
    BY <1>0, <1>2, PutFlashFacts
  <2>2. \A T \in {Asking, Anew} : Free(flashQue, T) => Free(flashQue', T)
    BY <1>0, <1>2, FreePutFlash
  <2>3. \A T \in {Asking, Anew} : Once(flashQue, T) => Once(flashQue', T)
    BY <1>0, <1>2, OncePut DEF PutFlash
  <2> QED BY <1>2, <2>1, <2>2, <2>3
<1>3. CASE Communication
  <2>1. flashQue' = PutFlash(flashQue, Confirm) \/ flashQue' = flashQue
    BY <1>3 DEF Communication
  <2>2. Confirm \in Orders /\ Confirm \notin Asking /\ Confirm \notin Anew
    BY ConfirmType DEF Asking, Anew
  <2> QED BY <1>2, <2>1, <2>2
<1>4. CASE Store
  <2>1. PICK c \in StoreCommands : flashQue' = PutFlash(flashQue, c)
    BY <1>4 DEF Store
  <2> QED BY <1>2, <2>1, StoreCommand
<1> QED BY <1>1, <1>3, <1>4

LEMMA UnaskedStep ==
    ASSUME TypeOK, Held, Unasked, Next
    PROVE  Unasked'
<1> SUFFICES ASSUME ~server'.asked PROVE Unasked'
  BY DEF Unasked
<1>0. eventQue \in Seq(Mails) /\ lrQue \in Seq(Mails) /\ server \in Servers
  BY DEF TypeOK
<1>1. ~Request
  <2> SUFFICES ASSUME Request PROVE FALSE
    OBVIOUS
  <2>1. \E c : server' = [server EXCEPT !.asked = TRUE, !.command = c]
    BY DEF Request
  <2>2. server'.asked
    BY <1>0, <2>1 DEF Servers
  <2> QED BY <2>2
<1>2. ~server.asked /\ server'.command = server.command
  BY <1>1, ServerStep
<1>3. /\ Free(flashQue, Asking) /\ job = Idle
      /\ server.command = Confirm /\ server.answer = "none" /\ server.sent = {}
      /\ Range(lrQue) \subseteq {Foreign} /\ Range(eventQue) \subseteq {Foreign}
      /\ made.others = 0 => lrQue = <<>> /\ eventQue = <<>>
  BY <1>2 DEF Unasked
<1>4. HandleStore \/ IgnoreConfirm \/ Communication \/ Engine \/ Store \/ Other
  BY <1>1, <1>3, IdleSteps, NothingAsked
<1>8. ~Other => made'.others = made.others
  BY <1>1, ServerStep
<1>5. CASE HandleStore \/ IgnoreConfirm \/ Store
  <2>1. UNCHANGED <<eventQue, lrQue, job, server>>
    BY <1>5 DEF HandleStore, IgnoreConfirm, Store
  <2>2. made'.others = 0 => made.others = 0
    BY <1>8, OtherCounts
  <2>3. Free(flashQue', Asking)
    BY <1>3, <1>5, QuietSteps
  <2> QED BY <1>3, <2>1, <2>2, <2>3 DEF Unasked
<1>6. CASE Engine
  <2>1. /\ eventQue # <<>> /\ eventQue' = Tail(eventQue)
        /\ server' = [server EXCEPT
              !.sent = @ \cup Head(eventQue).ids,
              !.answer = IF Head(eventQue).what # "answer" THEN @
                         ELSE IF Head(eventQue).ok THEN "ok" ELSE "failed"]
        /\ UNCHANGED <<log, flashQue, lrQue, job, made>>
    BY <1>6 DEF Engine
  <2>2. Range(eventQue) = {Head(eventQue)} \cup Range(Tail(eventQue))
    BY <1>0, <2>1, TailFacts
  <2>3. Head(eventQue) = Foreign
    BY <1>3, <2>2
  <2>4. Head(eventQue).ids = {} /\ Head(eventQue).what = "other"
    BY <2>3 DEF Foreign
  <2>5. server'.sent = {} /\ server'.answer = "none" /\ server'.command = Confirm
    BY <1>0, <1>3, <2>1, <2>4 DEF Servers
  <2> QED BY <1>3, <2>1, <2>2, <2>5 DEF Unasked
<1>7. CASE CallEngine
  <2>1. /\ eventQue' = PutEvent(eventQue, Foreign) /\ UNCHANGED <<flashQue, lrQue, job>>
        /\ server' = [server EXCEPT !.lost = @ \cup Displaced]
    BY <1>7 DEF CallEngine
  <2>2. Range(eventQue') \subseteq Range(eventQue) \cup {Foreign}
    BY <1>0, <2>1, MailTypes, PutEventFacts
  <2>3. made'.others # 0
    BY <1>7, OtherCounts DEF Other
  <2>4. server'.sent = {} /\ server'.answer = "none" /\ server'.command = Confirm
    BY <1>0, <1>3, <2>1 DEF Servers
  <2> QED BY <1>3, <2>1, <2>2, <2>3, <2>4 DEF Unasked
<1>9. CASE SendOther
  <2>1. lrQue' = PutMessage(lrQue, LrQueMax, Foreign) /\ UNCHANGED <<flashQue, eventQue, job, server>>
    BY <1>9 DEF SendOther
  <2>2. Range(lrQue') \subseteq Range(lrQue) \cup {Foreign}
    BY <1>0, <2>1, MailTypes, PutFacts, Sizes
  <2>3. made'.others # 0
    BY <1>9, OtherCounts DEF Other
  <2> QED BY <1>3, <2>1, <2>2, <2>3 DEF Unasked
<1>10. CASE Communication
  <2>1. /\ lrQue # <<>> /\ lrQue' = Tail(lrQue) /\ eventQue' = PutEvent(eventQue, Head(lrQue))
        /\ server' = [server EXCEPT !.lost = @ \cup Displaced] /\ UNCHANGED <<job, made>>
    BY <1>10 DEF Communication
  <2>2. Head(lrQue) \in Mails /\ Range(lrQue) = {Head(lrQue)} \cup Range(Tail(lrQue))
    BY <1>0, <2>1, TailFacts
  <2>3. Range(eventQue') \subseteq Range(eventQue) \cup {Head(lrQue)}
    BY <1>0, <2>1, <2>2, PutEventFacts
  <2>4. Range(lrQue') \subseteq {Foreign} /\ Range(eventQue') \subseteq {Foreign}
    BY <1>3, <2>1, <2>2, <2>3
  <2>5. made'.others # 0
    BY <1>3, <2>1
  <2>6. Free(flashQue', Asking)
    BY <1>3, <1>10, QuietSteps
  <2>7. server'.sent = {} /\ server'.answer = "none" /\ server'.command = Confirm
    BY <1>0, <1>3, <2>1 DEF Servers
  <2> QED BY <1>3, <2>1, <2>4, <2>5, <2>6, <2>7 DEF Unasked
<1> QED BY <1>4, <1>5, <1>6, <1>7, <1>9, <1>10 DEF Other

(* A command from the head starts by waiting.                              *)
LEMMA RequestStep ==
    ASSUME TypeOK, Unasked, Request
    PROVE  Phases'
<1>1. PICK c \in Requests :
          /\ flashQue' = PutFlash(flashQue, c)
          /\ server' = [server EXCEPT !.asked = TRUE, !.command = c]
  BY DEF Request
<1>2. ~server.asked /\ UNCHANGED <<log, lrQue, eventQue, job, made>>
  BY DEF Request
<1>3. /\ Free(flashQue, Asking) /\ job = Idle
      /\ server.answer = "none" /\ server.sent = {}
      /\ made.others = 0 => lrQue = <<>> /\ eventQue = <<>>
  BY <1>2 DEF Unasked
<1>4. flashQue \in Seq(Orders) /\ server \in Servers
  BY DEF TypeOK
<1>5. c \in Orders
  BY RequestType
<1>6. server'.answer = "none" /\ server'.sent = {} /\ server'.command = c
  BY <1>1, <1>3, <1>4 DEF Servers
<1>7. Range(flashQue') \cap Asking \subseteq {c}
  <2>1. Range(flashQue') \subseteq Range(flashQue) \cup {c}
    BY <1>1, <1>4, <1>5, PutFlashFacts
  <2> QED BY <1>3, <2>1 DEF Free
<1>8. Once(flashQue', Asking)
  BY <1>1, <1>3, <1>4, <1>5, OnceFree, OncePut DEF PutFlash
<1>9. made'.others = 0 => Pending'
  BY <1>2, <1>3, <1>6, <1>7, <1>8 DEF Pending, Silent
<1> QED BY <1>9 DEF Phases, Clean

LEMMA SilentSteps ==
    ASSUME Silent, Next, ~Request, ~Other
    PROVE  /\ \/ HandleStore \/ IgnoreConfirm \/ HandleGetAll
              \/ HandleGetFromHead \/ HandleContinue \/ Store
           /\ UNCHANGED eventQue
           /\ HandleStore \/ IgnoreConfirm \/ HandleGetAll \/ Store => UNCHANGED <<lrQue, job>>
<1>1. job = Idle /\ lrQue = <<>> /\ eventQue = <<>>
  BY DEF Silent
<1>2. ~Communication /\ ~Engine
  BY <1>1 DEF Communication, Engine
<1>3. \/ HandleStore \/ IgnoreConfirm \/ HandleGetAll
      \/ HandleGetFromHead \/ HandleContinue \/ Store
  BY <1>1, <1>2, IdleSteps
<1> QED
  BY <1>3 DEF HandleStore, IgnoreConfirm, HandleGetAll, HandleGetFromHead, HandleContinue, Store

(* A command that waits is taken up, and either all it names is read or it *)
(* fails.                                                                  *)
LEMMA PendingStep ==
    ASSUME TypeOK, Held, Next, ~Request, Clean', Pending
    PROVE  Phases'
<1>0. /\ flashQue \in Seq(Orders) /\ log \in Logs /\ lrQue \in Seq(Mails)
      /\ server \in Servers
  BY DEF TypeOK
<1>1. /\ Silent /\ server.sent = {} /\ job = Idle /\ lrQue = <<>> /\ eventQue = <<>>
      /\ server.answer = "none"
      /\ Range(flashQue) \cap Asking \subseteq {server.command} /\ Once(flashQue, Asking)
  BY DEF Pending, Silent
<1>2. ~Other /\ server'.command = server.command /\ server.command.act = "head"
  BY CleanBefore
<1>3. ~Engine
  BY <1>1 DEF Engine
<1>4. server'.sent = {} /\ server'.answer = "none"
  BY <1>1, <1>3, ServerStep
<1>5. ASSUME NEW act \in {"all", "head", "continue"}, Serves(act)
      PROVE  Incoming = server.command /\ Incoming \in Asking /\ act = "head"
  <2>1. /\ Incoming \in Commands /\ Incoming.act = act
        /\ Range(flashQue) = {Incoming} \cup Range(Tail(flashQue))
    BY <1>5, ServedFacts
  <2>2. Incoming \in Asking
    BY <2>1 DEF Asking
  <2> QED BY <1>1, <1>2, <2>1, <2>2
<1>6. ~HandleGetAll /\ ~HandleContinue
  BY <1>5 DEF HandleGetAll, HandleContinue
<1>7. CASE HandleStore \/ IgnoreConfirm \/ Store
  <2>1. UNCHANGED <<lrQue, eventQue, job>>
    BY <1>1, <1>2, <1>7, SilentSteps
  <2>2. /\ Range(flashQue') \cap Asking \subseteq Range(flashQue)
        /\ Once(flashQue', Asking)
    BY <1>1, <1>7, QuietSteps
  <2>3. Range(flashQue') \cap Asking \subseteq {server.command}
    BY <1>1, <2>2
  <2>4. Pending'
    BY <1>1, <1>2, <1>4, <2>1, <2>2, <2>3 DEF Pending, Silent
  <2> QED BY <2>4 DEF Phases
<1>8. CASE HandleGetFromHead
  <2> DEFINE c == server.command
  <2>1. /\ Serves("head") /\ BeginRead(Received(Incoming)) /\ UNCHANGED <<log, eventQue, made>>
        /\ Wants(Window(Incoming.port, Incoming.start, Incoming.n))
    BY <1>8 DEF HandleGetFromHead
  <2>2. Incoming = c /\ Incoming \in Asking /\ Received(Incoming) = c
    BY <1>5, <2>1, ServedFacts
  <2>3. /\ flashQue # <<>> /\ c \in Commands /\ Tail(flashQue) \in Seq(Orders)
    BY <2>1, <2>2, ServedFacts
  <2>4. Free(Tail(flashQue), Asking)
    BY <1>0, <1>1, <2>2, <2>3, OnceTail DEF Incoming
  <2>5. server'.wanted = Window(c.port, c.start, c.n)
    <3>1. Window(c.port, c.start, c.n) \subseteq 1 .. Len(log.ports)
      BY <1>0, WindowFacts
    <3> QED BY <2>1, <2>2, <3>1, WantsFacts
  <2>6. CASE Busy /\ UNCHANGED <<lrQue, job>>
    <3>1. EventQueMax = 2
      BY <1>1, <2>6, SizeAssumption DEF Busy
    <3>2. Starved'
      BY <1>1, <1>4, <2>1, <2>6, <3>1 DEF Starved, Silent
    <3> QED BY <3>2 DEF Phases
  <2>7. CASE /\ lrQue' = PutMessage(lrQue, LrQueMax, Answer(FALSE))
             /\ flashQue' = Tail(flashQue) /\ UNCHANGED job
    <3>1. Answer(FALSE) \in Mails /\ Answer(FALSE) \notin Yes
      BY MailTypes DEF Yes, Answer
    <3>2. Free(lrQue, Yes) /\ Free(eventQue, Yes)
      BY <1>1, EmptyFacts DEF Free
    <3>3. Free(lrQue', Yes)
      BY <1>0, <2>7, <3>1, <3>2, FreeFacts, Sizes
    <3>4. Failed'
      BY <1>1, <1>4, <2>1, <2>4, <2>7, <3>2, <3>3 DEF Failed
    <3> QED BY <3>4 DEF Phases
  <2>8. CASE /\ StartFor(c.start) < Cardinality(On(c.port)) /\ job' = Reading(c)
             /\ flashQue' = Tail(flashQue) /\ UNCHANGED lrQue
    <3>1. CASE Cardinality(server'.wanted) # c.n
      <4>1. Free(flashQue', Anew)
        BY <2>4, <2>8 DEF Free, Anew, Asking
      <4>2. Off'
        BY <1>2, <3>1, <4>1 DEF Off
      <4> QED BY <4>2 DEF Phases
    <3>2. CASE Cardinality(server'.wanted) = c.n
      <4>1. /\ Count \in Nat /\ Cardinality(On(c.port)) \in Nat
            /\ Cardinality(On(c.port)) <= Count
        BY <1>0, Finiteness
      <4>2. Cardinality(server'.wanted) <= Count
        BY <1>0, <2>5, WindowFacts
      <4>3. c.start \in Nat /\ c.n \in Nat /\ BatchOf(c) = c.n
        BY <1>2, <2>3, WordFacts DEF Commands, BatchOf
      <4>4. StartFor(c.start) = c.start
        BY <2>8, <4>1, <4>3 DEF StartFor
      <4>5. NumberFor(c.start, BatchOf(c)) = c.n
        BY <3>2, <4>1, <4>2, <4>3 DEF NumberFor
      <4>6. /\ job'.at = "read" /\ job'.command = c /\ job'.payload = {} /\ job'.got = 0
            /\ job'.left = server'.wanted
        BY <2>5, <2>8, <4>4, <4>5 DEF Reading
      <4>7. Cardinality(server'.wanted) \in Nat
        BY <3>2, <4>3
      <4>8. Ids(eventQue') = {} /\ Ids(lrQue') = {}
        BY <1>1, <2>1, <2>8, EmptyFacts DEF Ids
      <4>9. Free(eventQue', Answers) /\ Range(lrQue') \subseteq Datas
        BY <1>1, <2>1, <2>8, EmptyFacts DEF Free
      <4>10. job'.got + Cardinality(job'.left) = Cardinality(server'.wanted)
        BY <4>6, <4>7
      <4>11. server'.wanted = server'.sent \cup Ids(eventQue') \cup Ids(lrQue')
                                \cup job'.payload \cup job'.left
        BY <1>4, <4>6, <4>8
      <4>12. Free(flashQue', Asking)
        BY <2>4, <2>8
      <4>13. Under'
        BY <1>2, <1>4, <3>2, <4>6, <4>9, <4>10, <4>11, <4>12 DEF Under
      <4> QED BY <4>13 DEF Phases
    <3> QED BY <3>1, <3>2
  <2> QED BY <2>1, <2>2, <2>6, <2>7, <2>8 DEF BeginRead
<1> QED BY <1>1, <1>2, <1>6, <1>7, <1>8, SilentSteps

LEMMA StarvedStep ==
    ASSUME TypeOK, Held, Next, ~Request, Clean', Starved
    PROVE  Phases'
<1>1. EventQueMax = 2 /\ Silent /\ job = Idle /\ lrQue = <<>> /\ eventQue = <<>>
      /\ server.answer = "none"
  BY DEF Starved, Silent
<1>2. ~Other
  BY CleanBefore
<1>3. ~Engine
  BY <1>1 DEF Engine
<1>4. server'.answer = "none"
  BY <1>1, <1>3, ServerStep
<1>5. Busy
  BY <1>1 DEF Busy
<1>6. HandleGetFromHead \/ HandleContinue => UNCHANGED <<lrQue, job>>
  BY <1>5 DEF HandleGetFromHead, HandleContinue, BeginRead
<1>7. UNCHANGED <<lrQue, job, eventQue>>
  BY <1>1, <1>2, <1>6, SilentSteps
<1>8. Starved'
  BY <1>1, <1>4, <1>7 DEF Starved, Silent
<1> QED BY <1>8 DEF Phases

(* Once the command is taken up no other asks for anything anew.           *)
LEMMA AnewFree ==
    ASSUME TypeOK, Held, Next, ~Request, Free(flashQue, Anew)
    PROVE  ~HandleGetAll /\ ~HandleGetFromHead /\ Free(flashQue', Anew)
<1>0. flashQue \in Seq(Orders) /\ log \in Logs /\ job \in Jobs
  BY DEF TypeOK
<1>1. ASSUME NEW act \in {"all", "head"}, Serves(act) PROVE FALSE
  <2>1. Incoming \in Anew /\ Range(flashQue) = {Incoming} \cup Range(Tail(flashQue))
    BY <1>1, ServedFacts DEF Anew
  <2> QED BY <2>1 DEF Free
<1>2. ~HandleGetAll /\ ~HandleGetFromHead
  BY <1>1 DEF HandleGetAll, HandleGetFromHead
<1>3. CASE HandleStore \/ IgnoreConfirm \/ AwaitConfirm \/ Communication \/ Store
  BY <1>2, <1>3, QuietSteps
<1>4. CASE HandleContinue
  <2> DEFINE c == Received(Incoming)
  <2>1. Serves("continue") /\ BeginRead(c)
    BY <1>4 DEF HandleContinue
  <2>2. flashQue # <<>> /\ c \in Commands /\ Tail(flashQue) \in Seq(Orders)
    BY <2>1, ServedFacts
  <2> HIDE DEF c
  <2>3. Free(Tail(flashQue), Anew)
    BY <1>0, <2>2, FreeFacts
  <2>4. ContinueCommand(c, 0) \in Orders /\ ContinueCommand(c, 0) \notin Anew
    BY <1>0, <2>2, ContinueType DEF Anew
  <2>5. Free(PutFlash(Tail(flashQue), ContinueCommand(c, 0)), Anew)
    BY <2>2, <2>3, <2>4, FreePutFlash
  <2> QED BY <1>2, <2>1, <2>3, <2>5 DEF BeginRead, ComeBack, PutContinue
<1>5. CASE \/ StopReading \/ ReadMessage \/ ReadMessageIntoNext \/ EndOfBlock
           \/ AwaitTimeout \/ Engine \/ Other
  <2>1. flashQue' = flashQue
    BY <1>5 DEF StopReading, ReadMessage, ReadMessageIntoNext, EndOfBlock, SendPayload,
       AwaitTimeout, Engine, Other, SendOther, CallEngine
  <2> QED BY <1>2, <2>1
<1>6. CASE FinishBatch
  <2>1. \/ flashQue' = PutFlash(flashQue, ContinueCommand(job.command, job.got))
        \/ flashQue' = flashQue
    BY <1>6 DEF FinishBatch, PutContinue
  <2>2. /\ ContinueCommand(job.command, job.got) \in Orders
        /\ ContinueCommand(job.command, job.got) \notin Anew
    BY <1>0, Fields, ContinueType DEF Anew
  <2> QED BY <1>0, <1>2, <2>1, <2>2, FreePutFlash
<1> QED BY <1>2, <1>3, <1>4, <1>5, <1>6 DEF Next, FlashThread

(* What is wanted is settled when the command is taken up.                 *)
LEMMA OffStep ==
    ASSUME TypeOK, Held, Next, ~Request, Clean', Off
    PROVE  Phases'
<1>1. Cardinality(server.wanted) # server.command.n /\ Free(flashQue, Anew)
  BY DEF Off
<1>2. server'.command = server.command
  BY CleanBefore
<1>3. ~HandleGetAll /\ ~HandleGetFromHead /\ Free(flashQue', Anew)
  BY <1>1, AnewFree
<1>4. server'.wanted = server.wanted
  BY <1>3, ServerStep
<1>5. Off'
  BY <1>1, <1>2, <1>3, <1>4 DEF Off
<1> QED BY <1>5 DEF Phases

(* What moves between the queues is not lost on the way.                   *)
LEMMA CommunicationMoves ==
    ASSUME TypeOK, Held, Communication, server'.lost = {}
    PROVE  /\ lrQue # <<>> /\ Head(lrQue) \in Mails
           /\ Range(lrQue) = {Head(lrQue)} \cup Range(Tail(lrQue))
           /\ lrQue' = Tail(lrQue) /\ job' = job
           /\ Range(eventQue') \subseteq Range(eventQue) \cup {Head(lrQue)}
           /\ \E front \in Seq(Mails) : /\ eventQue' = Append(front, Head(lrQue))
                                        /\ Range(front) \subseteq Range(eventQue)
           /\ Ids(eventQue') \cup Ids(lrQue') = Ids(eventQue) \cup Ids(lrQue)
           /\ Ids(eventQue') = Ids(eventQue) \cup Head(lrQue).ids
           /\ server'.sent = server.sent /\ server'.answer = server.answer
           /\ server'.wanted = server.wanted
<1>0. /\ eventQue \in Seq(Mails) /\ lrQue \in Seq(Mails) /\ server \in Servers
  BY DEF TypeOK
<1>1. /\ lrQue # <<>> /\ lrQue' = Tail(lrQue) /\ eventQue' = PutEvent(eventQue, Head(lrQue))
      /\ server' = [server EXCEPT !.lost = @ \cup Displaced] /\ job' = job
  BY DEF Communication
<1>2. Head(lrQue) \in Mails /\ Range(lrQue) = {Head(lrQue)} \cup Range(Tail(lrQue))
  BY <1>0, <1>1, TailFacts
<1>3. /\ server'.sent = server.sent /\ server'.answer = server.answer
      /\ server'.wanted = server.wanted /\ server'.lost = server.lost \cup Displaced
  BY <1>0, <1>1 DEF Servers
<1>4. Displaced = {}
  BY <1>3
<1>5. /\ Range(eventQue') \subseteq Range(eventQue) \cup {Head(lrQue)}
      /\ \E front \in Seq(Mails) : /\ eventQue' = Append(front, Head(lrQue))
                                   /\ Range(front) \subseteq Range(eventQue)
      /\ Ids(eventQue') \cup Displaced = Ids(eventQue) \cup Head(lrQue).ids
  BY <1>0, <1>1, <1>2, PutEventFacts
<1>6. Ids(lrQue) = Head(lrQue).ids \cup Ids(lrQue')
  <2>1. Ids(lrQue) = Head(lrQue).ids \cup Ids(Tail(lrQue))
    BY <1>2, IdsOfTwo
  <2>2. Ids(lrQue') = Ids(Tail(lrQue))
    BY <1>1 DEF Ids
  <2> QED BY <2>1, <2>2
<1>7. Ids(eventQue') = Ids(eventQue) \cup Head(lrQue).ids
  BY <1>4, <1>5
<1>8. Ids(eventQue') \cup Ids(lrQue') = Ids(eventQue) \cup Ids(lrQue)
  BY <1>6, <1>7
<1> QED BY <1>1, <1>2, <1>3, <1>5, <1>7, <1>8

LEMMA EngineMoves ==
    ASSUME TypeOK, Engine
    PROVE  /\ eventQue # <<>> /\ eventQue' = Tail(eventQue) /\ Head(eventQue) \in Mails
           /\ Range(eventQue) = {Head(eventQue)} \cup Range(Tail(eventQue))
           /\ UNCHANGED <<flashQue, lrQue, job>>
           /\ server'.sent \cup Ids(eventQue') = server.sent \cup Ids(eventQue)
           /\ server'.wanted = server.wanted
           /\ Head(eventQue) \notin Answers => server'.answer = server.answer
           /\ Head(eventQue) \in Answers \ Yes => server'.answer = "failed"
<1>0. eventQue \in Seq(Mails) /\ server \in Servers
  BY DEF TypeOK
<1>1. /\ eventQue # <<>> /\ eventQue' = Tail(eventQue)
      /\ server' = [server EXCEPT
            !.sent = @ \cup Head(eventQue).ids,
            !.answer = IF Head(eventQue).what # "answer" THEN @
                       ELSE IF Head(eventQue).ok THEN "ok" ELSE "failed"]
      /\ UNCHANGED <<flashQue, lrQue, job>>
  BY DEF Engine
<1>2. Head(eventQue) \in Mails /\ Range(eventQue) = {Head(eventQue)} \cup Range(Tail(eventQue))
  BY <1>0, <1>1, TailFacts
<1> DEFINE h == Head(eventQue)
<1>3. /\ server'.sent = server.sent \cup h.ids /\ server'.wanted = server.wanted
      /\ server'.answer = IF h.what # "answer" THEN server.answer
                          ELSE IF h.ok THEN "ok" ELSE "failed"
  BY <1>0, <1>1 DEF Servers
<1> HIDE DEF h
<1>4. h \in Mails
  BY <1>2 DEF h
<1>5. (h \notin Answers => h.what # "answer") /\ (h \in Answers \ Yes => h.what = "answer" /\ ~h.ok)
  BY <1>4 DEF Answers, Yes
<1>6. Ids(eventQue) = h.ids \cup Ids(eventQue')
  BY <1>1, <1>2, IdsOfTwo DEF h
<1>7. server'.sent \cup Ids(eventQue') = server.sent \cup Ids(eventQue)
  BY <1>3, <1>6
<1>8. /\ h \notin Answers => server'.answer = server.answer
      /\ h \in Answers \ Yes => server'.answer = "failed"
  BY <1>3, <1>5
<1> QED BY <1>1, <1>2, <1>3, <1>7, <1>8 DEF h

(* A batch that is read ends with all of it sent or on its way.            *)
LEMMA UnderStep ==
    ASSUME TypeOK, Held, OneUnderWay, Next, ~Request, Clean', Under
    PROVE  Phases'
<1>0. /\ flashQue \in Seq(Orders) /\ lrQue \in Seq(Mails) /\ eventQue \in Seq(Mails)
      /\ log \in Logs /\ job \in Jobs /\ job.left \subseteq 1 .. Len(log.ports)
  BY DEF TypeOK, Held
<1>1. /\ job.at \in {"read", "wait"} /\ job.command = server.command
      /\ Free(flashQue, Asking)
      /\ server.answer = "none" /\ Free(eventQue, Answers) /\ Range(lrQue) \subseteq Datas
      /\ Cardinality(server.wanted) = server.command.n
      /\ server.wanted = server.sent \cup Ids(eventQue) \cup Ids(lrQue) \cup job.payload \cup job.left
      /\ job.got + Cardinality(job.left) = Cardinality(server.wanted)
  BY DEF Under
<1>2. /\ server'.command = server.command /\ server.command.act = "head" /\ ~server.late
      /\ ~StopReading /\ ~AwaitTimeout /\ ~Other
  BY CleanBefore
<1>3. ~HandleGetAll /\ ~HandleGetFromHead
  BY <1>1, NothingAsked
<1>4. server'.wanted = server.wanted
  BY <1>3, ServerStep
<1>5. ~Engine => server'.sent = server.sent /\ server'.answer = "none"
  BY <1>1, ServerStep
<1>6. job.at = "read" => lrQue = <<>>
  <2> SUFFICES ASSUME job.at = "read" PROVE lrQue = <<>>
    OBVIOUS
  <2>1. Free(lrQue, Datas)
    BY <1>2 DEF OneUnderWay, NoneUnderWay
  <2>2. Range(lrQue) = {}
    BY <1>1, <2>1 DEF Free
  <2>3. ASSUME lrQue # <<>> PROVE FALSE
    <3>1. Range(lrQue) = {Head(lrQue)} \cup Range(Tail(lrQue))
      BY <1>0, <2>3, TailFacts
    <3> QED BY <2>2, <3>1
  <2> QED BY <2>3
<1>7. ASSUME NEW payload \in SUBSET Nat, lrQue = <<>>,
             lrQue' = PutMessage(lrQue, LrQueMax, Payload(payload))
      PROVE  Range(lrQue') \subseteq Datas /\ Ids(lrQue') = payload /\ Ids(lrQue) = {}
  <2>1. Payload(payload) \in Mails /\ Payload(payload) \in Datas
    BY MailTypes, MailKinds
  <2>2. lrQue' = <<Payload(payload)>>
    <3>1. LrQueMax \in Nat \ {0}
      BY Sizes
    <3>2. PutMessage(<<>>, LrQueMax, Payload(payload)) = <<Payload(payload)>>
      BY <3>1, PutEmpty
    <3> QED BY <1>7, <3>2, Zenon
  <2>3. Range(lrQue') = {Payload(payload)}
    BY <2>1, <2>2, SingleFacts
  <2>4. Payload(payload).ids = payload
    BY DEF Payload
  <2>5. Ids(lrQue') = payload
    BY <2>3, <2>4 DEF Ids
  <2>6. Ids(lrQue) = {}
    BY <1>7, EmptyFacts DEF Ids
  <2> QED BY <2>1, <2>3, <2>5, <2>6
<1>8. CASE ReadMessage
  <2>1. /\ job.at = "read" /\ job.left # {} /\ job' = Taken("read", job.payload)
        /\ UNCHANGED <<flashQue, lrQue, eventQue, server>>
    BY <1>8 DEF ReadMessage, NextMessage
  <2>2. job.payload \in SUBSET Nat
    BY Fields
  <2>3. /\ job'.at = "read" /\ job'.command = job.command
        /\ job'.payload \cup job'.left = job.payload \cup job.left
        /\ job'.got + Cardinality(job'.left) = job.got + Cardinality(job.left)
    BY <1>0, <2>1, <2>2, TakenFacts
  <2>4. server.wanted = server.sent \cup Ids(eventQue) \cup Ids(lrQue) \cup job'.payload \cup job'.left
    BY <1>1, <2>3
  <2>5. Under'
    BY <1>1, <2>1, <2>3, <2>4 DEF Under
  <2> QED BY <2>5 DEF Phases
<1>9. CASE ReadMessageIntoNext
  <2>1. /\ job.at = "read" /\ job.left # {} /\ job' = Taken("wait", {})
        /\ lrQue' = PutMessage(lrQue, LrQueMax, Payload(job.payload))
        /\ UNCHANGED <<flashQue, eventQue, server>>
    BY <1>9 DEF ReadMessageIntoNext, NextMessage, SendPayload
  <2>2. job.payload \in SUBSET Nat
    BY Fields
  <2>3. /\ job'.at = "wait" /\ job'.command = job.command
        /\ job'.payload \cup job'.left = {} \cup job.left
        /\ job'.got + Cardinality(job'.left) = job.got + Cardinality(job.left)
    BY <1>0, <2>1, TakenFacts
  <2>4. Range(lrQue') \subseteq Datas /\ Ids(lrQue') = job.payload /\ Ids(lrQue) = {}
    BY <1>6, <1>7, <2>1, <2>2
  <2>5. server.wanted = server.sent \cup Ids(eventQue) \cup Ids(lrQue') \cup job'.payload \cup job'.left
    BY <1>1, <2>3, <2>4
  <2>6. Under'
    BY <1>1, <2>1, <2>3, <2>4, <2>5 DEF Under
  <2> QED BY <2>6 DEF Phases
<1>10. CASE EndOfBlock
  <2>1. /\ job.at = "read" /\ job' = [job EXCEPT !.at = "wait", !.payload = {}]
        /\ lrQue' = PutMessage(lrQue, LrQueMax, Payload(job.payload))
        /\ UNCHANGED <<flashQue, eventQue, server>>
    BY <1>10 DEF EndOfBlock, SendPayload
  <2>2. job.payload \in SUBSET Nat
    BY Fields
  <2>3. /\ job'.at = "wait" /\ job'.command = job.command /\ job'.payload = {}
        /\ job'.left = job.left /\ job'.got = job.got
    BY <1>0, <2>1 DEF Jobs
  <2>4. Range(lrQue') \subseteq Datas /\ Ids(lrQue') = job.payload /\ Ids(lrQue) = {}
    BY <1>6, <1>7, <2>1, <2>2
  <2>5. server.wanted = server.sent \cup Ids(eventQue) \cup Ids(lrQue') \cup job'.payload \cup job'.left
    BY <1>1, <2>3, <2>4
  <2>6. Under'
    BY <1>1, <2>1, <2>3, <2>4, <2>5 DEF Under
  <2> QED BY <2>6 DEF Phases
<1>11. CASE AwaitConfirm
  <2>1. /\ job' = [job EXCEPT !.at = Resumes(Incoming)]
        /\ UNCHANGED <<lrQue, eventQue, server>>
    BY <1>11 DEF AwaitConfirm
  <2>2. /\ job'.at \in {"read", "wait"} /\ job'.command = job.command
        /\ job'.payload = job.payload /\ job'.left = job.left /\ job'.got = job.got
    BY <1>0, <2>1 DEF Jobs, Resumes
  <2>3. Free(flashQue', Asking)
    BY <1>1, <1>11, QuietSteps
  <2>4. Under'
    BY <1>1, <2>1, <2>2, <2>3 DEF Under
  <2> QED BY <2>4 DEF Phases
<1>12. CASE FinishBatch
  <2>1. /\ job.at = "read" /\ job.left = {} /\ job.payload = {} /\ job' = Idle
        /\ eventQue' = eventQue /\ server' = server
        /\ ~(job.got > 0 /\ job.got < Remaining(job.command)) =>
              /\ lrQue' = PutMessage(lrQue, LrQueMax, Answer(TRUE)) /\ flashQue' = flashQue
    BY <1>12 DEF FinishBatch, PutContinue
  <2>2. Cardinality(job.left) = 0
    BY <2>1, FS_EmptySet
  <2>3. job.got \in Nat
    BY Fields
  <2>4. job.got = server.command.n
    BY <1>1, <2>2, <2>3
  <2>5. Remaining(job.command) = server.command.n
    BY <1>1, <1>2 DEF Remaining
  <2>6. lrQue' = PutMessage(lrQue, LrQueMax, Answer(TRUE)) /\ flashQue' = flashQue
    <3>1. ~(job.got < Remaining(job.command))
      BY <2>3, <2>4, <2>5
    <3> QED BY <2>1, <3>1, Zenon
  <2>7. lrQue' = <<Answer(TRUE)>>
    <3>1. LrQueMax \in Nat \ {0}
      BY Sizes
    <3>2. PutMessage(<<>>, LrQueMax, Answer(TRUE)) = <<Answer(TRUE)>>
      BY <3>1, PutEmpty
    <3>3. lrQue = <<>>
      BY <1>6, <2>1, Zenon
    <3> QED BY <2>6, <3>2, <3>3, Zenon
  <2>8. Ids(lrQue) = {}
    BY <1>6, <2>1, EmptyFacts DEF Ids
  <2>9. server.wanted = server.sent \cup Ids(eventQue)
    BY <1>1, <2>1, <2>8
  <2>10. Over'
    BY <1>1, <2>1, <2>6, <2>7, <2>9 DEF Over, AnswerQueued
  <2> QED BY <2>10 DEF Phases
<1>13. CASE Communication
  <2>1. /\ Head(lrQue) \in Mails /\ Range(lrQue) = {Head(lrQue)} \cup Range(Tail(lrQue))
        /\ lrQue' = Tail(lrQue) /\ job' = job
        /\ Range(eventQue') \subseteq Range(eventQue) \cup {Head(lrQue)}
        /\ Ids(eventQue') \cup Ids(lrQue') = Ids(eventQue) \cup Ids(lrQue)
        /\ server'.sent = server.sent /\ server'.answer = server.answer
    BY <1>13, CommunicationMoves, CleanBefore
  <2>2. Free(flashQue', Asking)
    BY <1>1, <1>13, QuietSteps
  <2>3. Head(lrQue) \in Datas /\ Range(lrQue') \subseteq Datas
    BY <1>1, <2>1
  <2>4. Head(lrQue) \notin Answers
    BY <2>3 DEF Datas, Answers
  <2>5. Free(eventQue', Answers)
    BY <1>1, <2>1, <2>4 DEF Free
  <2>6. server.wanted = server.sent \cup Ids(eventQue') \cup Ids(lrQue') \cup job.payload \cup job.left
    BY <1>1, <2>1
  <2>7. Under'
    BY <1>1, <1>2, <1>4, <2>1, <2>2, <2>3, <2>5, <2>6 DEF Under
  <2> QED BY <2>7 DEF Phases
<1>14. CASE Engine
  <2>1. /\ eventQue' = Tail(eventQue)
        /\ Range(eventQue) = {Head(eventQue)} \cup Range(Tail(eventQue))
        /\ UNCHANGED <<flashQue, lrQue, job>>
        /\ server'.sent \cup Ids(eventQue') = server.sent \cup Ids(eventQue)
        /\ Head(eventQue) \notin Answers => server'.answer = server.answer
    BY <1>14, EngineMoves
  <2>2. Head(eventQue) \notin Answers /\ Free(eventQue', Answers)
    BY <1>1, <2>1 DEF Free
  <2>3. server.wanted = server'.sent \cup Ids(eventQue') \cup Ids(lrQue) \cup job.payload \cup job.left
    BY <1>1, <2>1
  <2>4. Under'
    BY <1>1, <1>2, <1>4, <2>1, <2>2, <2>3 DEF Under
  <2> QED BY <2>4 DEF Phases
<1>15. CASE Store
  <2>1. UNCHANGED <<lrQue, eventQue, job, server>>
    BY <1>15 DEF Store
  <2>2. Free(flashQue', Asking)
    BY <1>1, <1>15, QuietSteps
  <2>3. Under'
    BY <1>1, <2>1, <2>2 DEF Under
  <2> QED BY <2>3 DEF Phases
<1> QED
  BY <1>1, <1>2, <1>8, <1>9, <1>10, <1>11, <1>12, <1>13, <1>14, <1>15, ReadSteps

(* The answer comes after all that was sent.                               *)
LEMMA OverStep ==
    ASSUME TypeOK, Held, Next, ~Request, Clean', Over
    PROVE  Phases'
<1>0. /\ flashQue \in Seq(Orders) /\ lrQue \in Seq(Mails) /\ eventQue \in Seq(Mails)
  BY DEF TypeOK
<1>1. /\ job = Idle /\ Free(flashQue, Asking)
      /\ server.wanted = server.sent \cup Ids(eventQue)
      /\ AnswerQueued \/ AnswerIsLast \/ AnswerArrived
  BY DEF Over
<1>2. ~Other
  BY CleanBefore
<1>3. ~HandleGetAll /\ ~HandleGetFromHead /\ ~HandleContinue
  BY <1>1, NothingAsked
<1>4. server'.wanted = server.wanted
  BY <1>3, ServerStep
<1>5. /\ Answer(TRUE) \in Mails /\ Answer(TRUE) \in Answers /\ Answer(TRUE).ids = {}
      /\ Answer(TRUE).what # "data"
  BY MailTypes DEF Answers, Answer
<1>6. CASE HandleStore \/ IgnoreConfirm \/ Store
  <2>1. UNCHANGED <<lrQue, eventQue, job, server>>
    BY <1>6 DEF HandleStore, IgnoreConfirm, Store
  <2>2. Free(flashQue', Asking)
    BY <1>1, <1>6, QuietSteps
  <2>3. Over'
    BY <1>1, <2>1, <2>2 DEF Over, AnswerQueued, AnswerIsLast, AnswerArrived
  <2> QED BY <2>3 DEF Phases
<1>7. CASE Communication
  <2>1. /\ lrQue # <<>> /\ lrQue' = Tail(lrQue) /\ job' = job
        /\ \E front \in Seq(Mails) : /\ eventQue' = Append(front, Head(lrQue))
                                     /\ Range(front) \subseteq Range(eventQue)
        /\ Ids(eventQue') = Ids(eventQue) \cup Head(lrQue).ids
        /\ server'.sent = server.sent /\ server'.answer = server.answer
    BY <1>7, CommunicationMoves, CleanBefore
  <2>2. AnswerQueued
    BY <1>1, <2>1 DEF AnswerIsLast, AnswerArrived
  <2>3. lrQue = <<Answer(TRUE)>> /\ Free(eventQue, Answers) /\ server.answer = "none"
    BY <2>2 DEF AnswerQueued
  <2>4. Head(lrQue) = Answer(TRUE) /\ lrQue' = <<>>
    BY <2>1, <2>3
  <2>5. Free(flashQue', Asking)
    BY <1>1, <1>7, QuietSteps
  <2>6. server'.wanted = server'.sent \cup Ids(eventQue')
    BY <1>1, <1>4, <1>5, <2>1, <2>4
  <2>7. PICK front \in Seq(Mails) : /\ eventQue' = Append(front, Answer(TRUE))
                                    /\ Range(front) \subseteq Range(eventQue)
    BY <2>1, <2>4
  <2>8. Free(front, Answers)
    BY <2>3, <2>7 DEF Free
  <2>9. AnswerIsLast'
    BY <2>1, <2>3, <2>4, <2>7, <2>8 DEF AnswerIsLast
  <2>10. Over'
    BY <1>1, <2>1, <2>5, <2>6, <2>9 DEF Over
  <2> QED BY <2>10 DEF Phases
<1>8. CASE Engine
  <2>1. /\ eventQue # <<>> /\ eventQue' = Tail(eventQue)
        /\ Range(eventQue) = {Head(eventQue)} \cup Range(Tail(eventQue))
        /\ UNCHANGED <<flashQue, lrQue, job>>
        /\ server'.sent \cup Ids(eventQue') = server.sent \cup Ids(eventQue)
        /\ Head(eventQue) \notin Answers => server'.answer = server.answer
    BY <1>8, EngineMoves
  <2>2. server'.wanted = server'.sent \cup Ids(eventQue')
    BY <1>1, <1>4, <2>1
  <2>3. (AnswerQueued \/ AnswerIsLast \/ AnswerArrived)'
    <3>1. CASE AnswerQueued
      <4>1. lrQue = <<Answer(TRUE)>> /\ Free(eventQue, Answers) /\ server.answer = "none"
        BY <3>1 DEF AnswerQueued
      <4>2. Head(eventQue) \notin Answers /\ Free(eventQue', Answers)
        BY <2>1, <4>1 DEF Free
      <4>3. AnswerQueued'
        BY <2>1, <4>1, <4>2 DEF AnswerQueued
      <4> QED BY <4>3
    <3>2. CASE AnswerIsLast
      <4>1. lrQue = <<>> /\ server.answer = "none"
        BY <3>2 DEF AnswerIsLast
      <4>2. PICK front \in Seq(Mails) : Free(front, Answers) /\ eventQue = Append(front, Answer(TRUE))
        BY <3>2 DEF AnswerIsLast
      <4>3. CASE front = <<>>
        <5>1. Tail(eventQue) = <<>>
          BY <1>5, <4>2, <4>3, HeadTailAppend
        <5>2. AnswerArrived'
          BY <2>1, <4>1, <5>1 DEF AnswerArrived
        <5> QED BY <5>2
      <4>4. CASE front # <<>>
        <5>1. /\ Head(eventQue) = Head(front)
              /\ Tail(eventQue) = Append(Tail(front), Answer(TRUE))
          BY <1>5, <4>2, <4>4, HeadTailAppend
        <5>2. /\ Tail(front) \in Seq(Mails)
              /\ Range(front) = {Head(front)} \cup Range(Tail(front))
          BY <4>4, TailFacts
        <5>3. Head(front) \notin Answers /\ Free(Tail(front), Answers)
          BY <4>2, <5>2 DEF Free
        <5>4. AnswerIsLast'
          BY <2>1, <4>1, <5>1, <5>2, <5>3 DEF AnswerIsLast
        <5> QED BY <5>4
      <4> QED BY <4>3, <4>4
    <3>3. CASE AnswerArrived
      BY <2>1, <3>3 DEF AnswerArrived
    <3> QED BY <1>1, <3>1, <3>2, <3>3
  <2>4. Over'
    BY <1>1, <2>1, <2>2, <2>3 DEF Over
  <2> QED BY <2>4 DEF Phases
<1> QED BY <1>1, <1>2, <1>3, <1>6, <1>7, <1>8, IdleSteps

(* A command that failed is never answered with success.                   *)
LEMMA FailedStep ==
    ASSUME TypeOK, Held, Next, ~Request, Failed
    PROVE  Failed'
<1>0. /\ flashQue \in Seq(Orders) /\ lrQue \in Seq(Mails) /\ eventQue \in Seq(Mails)
  BY DEF TypeOK
<1>1. /\ job = Idle /\ Free(flashQue, Asking) /\ server.answer # "ok"
      /\ Free(lrQue, Yes) /\ Free(eventQue, Yes)
  BY DEF Failed
<1>2. ~HandleGetAll /\ ~HandleGetFromHead /\ ~HandleContinue
  BY <1>1, NothingAsked
<1>3. CASE HandleStore \/ IgnoreConfirm \/ Store
  <2>1. UNCHANGED <<lrQue, eventQue, job, server>>
    BY <1>3 DEF HandleStore, IgnoreConfirm, Store
  <2>2. Free(flashQue', Asking)
    BY <1>1, <1>3, QuietSteps
  <2> QED BY <1>1, <2>1, <2>2 DEF Failed
<1>4. CASE Communication
  <2>1. /\ lrQue # <<>> /\ lrQue' = Tail(lrQue) /\ eventQue' = PutEvent(eventQue, Head(lrQue))
        /\ job' = job
    BY <1>4 DEF Communication
  <2>2. Head(lrQue) \in Mails /\ Range(lrQue) = {Head(lrQue)} \cup Range(Tail(lrQue))
    BY <1>0, <2>1, TailFacts
  <2>3. Range(eventQue') \subseteq Range(eventQue) \cup {Head(lrQue)}
    BY <1>0, <2>1, <2>2, PutEventFacts
  <2>4. Free(lrQue', Yes) /\ Free(eventQue', Yes)
    BY <1>1, <2>1, <2>2, <2>3 DEF Free
  <2>5. Free(flashQue', Asking)
    BY <1>1, <1>4, QuietSteps
  <2>6. server'.answer = server.answer
    <3>1. server' = [server EXCEPT !.lost = @ \cup Displaced] /\ server \in Servers
      BY <1>4 DEF Communication, TypeOK
    <3> QED BY <3>1 DEF Servers
  <2> QED BY <1>1, <2>1, <2>4, <2>5, <2>6 DEF Failed
<1>5. CASE Engine
  <2>1. /\ eventQue' = Tail(eventQue)
        /\ Range(eventQue) = {Head(eventQue)} \cup Range(Tail(eventQue))
        /\ UNCHANGED <<flashQue, lrQue, job>>
        /\ Head(eventQue) \notin Answers => server'.answer = server.answer
        /\ Head(eventQue) \in Answers \ Yes => server'.answer = "failed"
    BY <1>5, EngineMoves
  <2>2. Head(eventQue) \notin Yes /\ Free(eventQue', Yes)
    BY <1>1, <2>1 DEF Free
  <2>3. server'.answer # "ok"
    BY <1>1, <2>1, <2>2
  <2> QED BY <1>1, <2>1, <2>2, <2>3 DEF Failed
<1>6. CASE CallEngine
  <2>1. /\ eventQue' = PutEvent(eventQue, Foreign) /\ UNCHANGED <<flashQue, lrQue, job>>
        /\ server' = [server EXCEPT !.lost = @ \cup Displaced] /\ server \in Servers
    BY <1>6 DEF CallEngine, TypeOK
  <2>2. Range(eventQue') \subseteq Range(eventQue) \cup {Foreign}
    BY <1>0, <2>1, MailTypes, PutEventFacts
  <2>3. Foreign \notin Yes
    BY DEF Foreign, Yes, Answers
  <2>4. Free(eventQue', Yes)
    BY <1>1, <2>2, <2>3 DEF Free
  <2>5. server'.answer = server.answer
    BY <2>1 DEF Servers
  <2> QED BY <1>1, <2>1, <2>4, <2>5 DEF Failed
<1>7. CASE SendOther
  <2>1. /\ lrQue' = PutMessage(lrQue, LrQueMax, Foreign)
        /\ UNCHANGED <<flashQue, eventQue, job, server>>
    BY <1>7 DEF SendOther
  <2>2. Foreign \in Mails /\ Foreign \notin Yes
    BY MailTypes DEF Foreign, Yes, Answers
  <2>3. Free(lrQue', Yes)
    BY <1>0, <1>1, <2>1, <2>2, FreeFacts, Sizes
  <2> QED BY <1>1, <2>1, <2>3 DEF Failed
<1> QED BY <1>1, <1>2, <1>3, <1>4, <1>5, <1>6, <1>7, IdleSteps DEF Other

-----------------------------------------------------------------------------
(* The stores that wait in flash_que                                       *)

Stores(que) == {i \in 1 .. Len(que) : que[i].act = "store"}
Queued == Cardinality(Stores(flashQue))

LEMMA StoresFinite ==
    ASSUME NEW S, NEW que \in Seq(S)
    PROVE  IsFiniteSet(Stores(que)) /\ Cardinality(Stores(que)) \in Nat
<1>1. IsFiniteSet(1 .. Len(que))
  BY FS_Interval
<1>2. Stores(que) \in SUBSET (1 .. Len(que))
  BY DEF Stores
<1> QED BY <1>1, <1>2, FS_Subset, FS_CardinalityType

(* Taking a store off makes one fewer.                                     *)
LEMMA TailStores ==
    ASSUME NEW S, NEW que \in Seq(S), que # <<>>
    PROVE  /\ Cardinality(Stores(Tail(que))) <= Cardinality(Stores(que))
           /\ Head(que).act = "store" =>
                 Cardinality(Stores(Tail(que))) + 1 <= Cardinality(Stores(que))
<1>1. /\ Tail(que) \in Seq(S) /\ Len(Tail(que)) = Len(que) - 1 /\ Head(que) = que[1]
      /\ \A i \in 1 .. Len(Tail(que)) : Tail(que)[i] = que[i + 1]
  BY HeadTailProperties
<1>2. Len(que) \in Nat /\ Len(que) >= 1
  BY <1>1
<1> DEFINE A == Stores(que)
           B == Stores(Tail(que))
           C == A \ {1}
           f == [i \in C |-> i - 1]
<1>3. IsFiniteSet(A) /\ Cardinality(A) \in Nat /\ IsFiniteSet(B) /\ Cardinality(B) \in Nat
  BY <1>1, StoresFinite
<1>4. /\ IsFiniteSet(C)
      /\ Cardinality(C) = IF 1 \in A THEN Cardinality(A) - 1 ELSE Cardinality(A)
  BY <1>3, FS_RemoveElement
<1>5. \A i \in C : i \in Nat /\ i - 1 \in B
  <2> SUFFICES ASSUME NEW i \in C PROVE i \in Nat /\ i - 1 \in B
    OBVIOUS
  <2>1. i \in 1 .. Len(que) /\ i # 1 /\ que[i].act = "store"
    BY DEF Stores
  <2>2. i - 1 \in 1 .. Len(Tail(que)) /\ (i - 1) + 1 = i
    BY <1>1, <1>2, <2>1
  <2>3. Tail(que)[i - 1].act = "store"
    BY <1>1, <2>1, <2>2
  <2> QED BY <2>1, <2>2, <2>3 DEF Stores
<1>6. \A j \in B : j + 1 \in C /\ (j + 1) - 1 = j
  <2> SUFFICES ASSUME NEW j \in B PROVE j + 1 \in C /\ (j + 1) - 1 = j
    OBVIOUS
  <2>1. j \in 1 .. Len(Tail(que)) /\ Tail(que)[j].act = "store"
    BY DEF Stores
  <2>2. j + 1 \in 1 .. Len(que) /\ j + 1 # 1 /\ que[j + 1].act = "store"
    BY <1>1, <1>2, <2>1
  <2> QED BY <2>1, <2>2 DEF Stores
<1>7. 1 \in A <=> Head(que).act = "store"
  BY <1>1, <1>2 DEF Stores
<1> HIDE DEF A, B, C
<1>8. f \in Surjection(C, B)
  <2>1. f \in [C -> B]
    BY <1>5
  <2>2. \A j \in B : \E i \in C : f[i] = j
    BY <1>6
  <2> QED BY <2>1, <2>2 DEF Surjection
<1>9. Cardinality(B) <= Cardinality(C)
  BY <1>4, <1>8, FS_Surjection
<1> QED BY <1>3, <1>4, <1>7, <1>9 DEF A, B

(* Putting a command that is no store makes no more.                       *)
LEMMA PutStores ==
    ASSUME NEW S, NEW que \in Seq(S), NEW m \in S, NEW max
    PROVE  /\ Cardinality(Stores(PutMessage(que, max, m))) <= Cardinality(Stores(que)) + 1
           /\ m.act # "store" =>
                 Cardinality(Stores(PutMessage(que, max, m))) <= Cardinality(Stores(que))
<1>1. IsFiniteSet(Stores(que)) /\ Cardinality(Stores(que)) \in Nat
  BY StoresFinite
<1>2. CASE Len(que) < max
  <2> DEFINE new == Append(que, m)
  <2>1. /\ Len(new) = Len(que) + 1 /\ new[Len(que) + 1] = m
        /\ \A i \in 1 .. Len(que) : new[i] = que[i]
    BY AppendProperties
  <2>2. Len(que) \in Nat
    OBVIOUS
  <2> HIDE DEF new
  <2>3. \A i \in 1 .. Len(new) : i \in 1 .. Len(que) \/ i = Len(que) + 1
    BY <2>1, <2>2
  <2>4. Stores(new) \subseteq Stores(que) \cup {Len(que) + 1}
    BY <2>1, <2>3 DEF Stores
  <2>5. m.act # "store" => Stores(new) \subseteq Stores(que)
    BY <2>1, <2>3 DEF Stores
  <2>6. /\ IsFiniteSet(Stores(que) \cup {Len(que) + 1})
        /\ Cardinality(Stores(que) \cup {Len(que) + 1}) \in
              {Cardinality(Stores(que)), Cardinality(Stores(que)) + 1}
    BY <1>1, FS_AddElement
  <2>7. Cardinality(Stores(new)) <= Cardinality(Stores(que) \cup {Len(que) + 1})
    BY <2>4, <2>6, FS_Subset
  <2>8. m.act # "store" => Cardinality(Stores(new)) <= Cardinality(Stores(que))
    BY <1>1, <2>5, FS_Subset
  <2>9. Cardinality(Stores(new)) \in Nat
    BY <2>4, <2>6, FS_Subset, FS_CardinalityType
  <2>10. Cardinality(Stores(new)) <= Cardinality(Stores(que)) + 1
    BY <1>1, <2>6, <2>7, <2>9
  <2> QED BY <1>2, <2>8, <2>10 DEF PutMessage, new
<1>3. CASE ~(Len(que) < max)
  <2>1. PutMessage(que, max, m) = <<m>>
    BY <1>3 DEF PutMessage
  <2>2. Stores(<<m>>) \subseteq {1} /\ (m.act # "store" => Stores(<<m>>) = {})
    BY DEF Stores
  <2>3. IsFiniteSet({1}) /\ Cardinality({1}) = 1 /\ Cardinality({}) = 0
    BY FS_Singleton, FS_EmptySet
  <2>4. Cardinality(Stores(<<m>>)) <= 1
    BY <2>2, <2>3, FS_Subset
  <2>5. Cardinality(Stores(<<m>>)) \in Nat
    BY <2>2, <2>3, FS_Subset, FS_CardinalityType
  <2>6. Cardinality(Stores(<<m>>)) <= Cardinality(Stores(que)) + 1
    BY <1>1, <2>4, <2>5
  <2>7. m.act # "store" => Cardinality(Stores(<<m>>)) <= Cardinality(Stores(que))
    <3>1. ASSUME m.act # "store" PROVE Cardinality(Stores(<<m>>)) = 0
      BY <2>2, <2>3, <3>1
    <3> QED BY <1>1, <3>1
  <2> QED BY <2>1, <2>6, <2>7
<1> QED BY <1>2, <1>3

(* What the stores in the queue may still add to the log is bounded by     *)
(* what was put on it.                                                     *)
Stocked == Queued <= made.stores

LEMMA QueuedStep ==
    ASSUME TypeOK, flashQue' \in Seq(Orders), Next
    PROVE  /\ Queued \in Nat /\ made.stores \in Nat /\ made'.stores \in Nat
           /\ made.stores + Queued' <= made'.stores + Queued
           /\ made.stores <= made'.stores
           /\ HandleStore => Queued' + 1 <= Queued /\ made' = made
<1>0. flashQue \in Seq(Orders) /\ log \in Logs /\ made \in Mades
  BY DEF TypeOK
<1>1. Queued \in Nat /\ made.stores \in Nat
  BY <1>0, StoresFinite, Fields, Sizes DEF Queued
<1>2. CASE Store
  <2>1. PICK c \in StoreCommands : flashQue' = PutFlash(flashQue, c)
    BY <1>2 DEF Store
  <2>2. made' = [made EXCEPT !.stores = @ + 1]
    BY <1>2 DEF Store
  <2>3. made'.stores = made.stores + 1
    BY <1>0, <2>2 DEF Mades
  <2>4. Queued' <= Queued + 1
    BY <1>0, <2>1, StoreCommand, PutStores DEF Queued, PutFlash
  <2>5. Queued' \in Nat
    <3>1. flashQue' \in Seq(Orders)
      BY <1>0, <2>1, StoreCommand, PutFlashFacts
    <3> QED BY <3>1, StoresFinite DEF Queued
  <2>6. ~HandleStore
    <3>1. made' = made => made'.stores = made.stores
      OBVIOUS
    <3>2. made' # made
      BY <1>1, <2>3, <3>1
    <3> QED BY <3>2, Zenon DEF HandleStore
  <2>7. made.stores + Queued' <= made'.stores + Queued /\ made.stores <= made'.stores
    BY <1>1, <2>3, <2>4, <2>5
  <2>8. made'.stores \in Nat
    BY <1>1, <2>3
  <2> QED BY <1>1, <2>6, <2>7, <2>8, Zenon
<1>3. CASE ~Store
  <2>1. made'.stores = made.stores
    <3>1. CASE Other
      BY <3>1, OtherCounts
    <3>2. CASE ~Other
      <4>1. made' = made
        BY <1>3, <3>2 DEF Next, FlashThread, HandleStore, IgnoreConfirm, HandleGetAll,
           HandleGetFromHead, HandleContinue, StopReading, ReadMessage, ReadMessageIntoNext,
           EndOfBlock, AwaitConfirm, FinishBatch, SendPayload, AwaitTimeout, Communication,
           Engine, Request
      <4> QED BY <4>1
    <3> QED BY <3>1, <3>2
  <2>2. ASSUME NEW que \in Seq(Orders), NEW c \in Orders, c.act # "store"
        PROVE  Cardinality(Stores(PutFlash(que, c))) <= Cardinality(Stores(que))
    BY <2>2, PutStores DEF PutFlash
  <2>3. Queued' <= Queued /\ (HandleStore => Queued' + 1 <= Queued /\ made' = made)
    <3>1. CASE HandleStore
      <4>1. /\ flashQue # <<>> /\ Head(flashQue).act = "store" /\ flashQue' = Tail(flashQue)
            /\ made' = made
        BY <3>1 DEF HandleStore, Serves, Incoming
      <4>2. Queued' + 1 <= Queued
        BY <1>0, <4>1, TailStores DEF Queued
      <4>4. Queued' <= Queued
        BY <1>0, <4>1, TailStores DEF Queued
      <4> QED BY <4>1, <4>2, <4>4, Zenon
    <3>2. CASE flashQue # <<>> /\ flashQue' = Tail(flashQue) /\ ~HandleStore
      BY <1>0, <3>2, TailStores DEF Queued
    <3>3. ASSUME flashQue # <<>>, ~HandleStore,
                 NEW c \in Orders, c.act # "store", flashQue' = PutFlash(Tail(flashQue), c)
          PROVE  Queued' <= Queued
      <4>1. Tail(flashQue) \in Seq(Orders)
        BY <1>0, <3>3, TailFacts
      <4>2. Queued' <= Cardinality(Stores(Tail(flashQue)))
        BY <2>2, <3>3, <4>1 DEF Queued
      <4>3. Cardinality(Stores(Tail(flashQue))) <= Queued
        BY <1>0, <3>3, TailStores DEF Queued
      <4>4. Queued' \in Nat /\ Cardinality(Stores(Tail(flashQue))) \in Nat
        <5>1. flashQue' \in Seq(Orders)
          BY <3>3, <4>1, PutFlashFacts
        <5> QED BY <4>1, <5>1, StoresFinite DEF Queued
      <4> QED BY <1>1, <4>2, <4>3, <4>4
    <3>4. ASSUME NEW c \in Orders, c.act # "store", flashQue' = PutFlash(flashQue, c),
                 ~HandleStore
          PROVE  Queued' <= Queued
      BY <1>0, <2>2, <3>4 DEF Queued
    <3>5. CASE flashQue' = flashQue /\ ~HandleStore
      <4>1. Queued' = Queued
        BY <3>5 DEF Queued
      <4> QED BY <1>1, <3>5, <4>1
    <3>6. CASE IgnoreConfirm \/ AwaitConfirm
      BY <3>1, <3>2, <3>6 DEF IgnoreConfirm, AwaitConfirm, Serves
    <3>7. CASE HandleGetAll
      <4>1. Serves("all") /\ flashQue' = PutFlash(Tail(flashQue), GetAllCommand(Incoming.port))
        BY <3>7 DEF HandleGetAll, PutContinue
      <4>2. flashQue # <<>> /\ Incoming.port \in Ports \cup {AnyPort} /\ Incoming.act = "all"
        BY <4>1, ServedFacts
      <4>4. GetAllCommand(Incoming.port) \in Orders /\ GetAllCommand(Incoming.port).act = "continue"
        BY <1>0, <4>2, GetAllType
      <4>5. ~HandleStore
        BY <4>2 DEF HandleStore, Serves
      <4> QED BY <3>3, <4>1, <4>2, <4>4, <4>5
    <3>8. CASE HandleGetFromHead \/ HandleContinue
      <4> DEFINE c == Received(Incoming)
      <4>1. PICK act \in {"head", "continue"} : Serves(act) /\ BeginRead(c)
        BY <3>8 DEF HandleGetFromHead, HandleContinue
      <4>2. flashQue # <<>> /\ c \in Commands /\ Incoming.act = act
        BY <4>1, ServedFacts
      <4>3. ~HandleStore
        BY <4>2 DEF HandleStore, Serves
      <4> HIDE DEF c
      <4>4. ContinueCommand(c, 0) \in Orders /\ ContinueCommand(c, 0).act # "store"
        BY <1>0, <4>2, ContinueType
      <4>5. flashQue' = Tail(flashQue) \/ flashQue' = PutFlash(Tail(flashQue), ContinueCommand(c, 0))
        BY <4>1 DEF BeginRead, ComeBack, PutContinue
      <4> QED BY <3>2, <3>3, <4>2, <4>3, <4>4, <4>5
    <3>9. CASE FinishBatch
      <4>1. \/ flashQue' = PutFlash(flashQue, ContinueCommand(job.command, job.got))
            \/ flashQue' = flashQue
        BY <3>9 DEF FinishBatch, PutContinue
      <4>2. /\ ContinueCommand(job.command, job.got) \in Orders
            /\ ContinueCommand(job.command, job.got).act # "store"
        BY <1>0, Fields, ContinueType
      <4>3. ~HandleStore
        BY <3>9 DEF HandleStore, FinishBatch, Serves
      <4> QED BY <3>4, <3>5, <4>1, <4>2, <4>3
    <3>10. CASE Communication
      <4>1. flashQue' = PutFlash(flashQue, Confirm) \/ flashQue' = flashQue
        BY <3>10 DEF Communication
      <4>2. Confirm \in Orders /\ Confirm.act # "store"
        BY ConfirmType
      <4> QED BY <3>1, <3>4, <3>5, <4>1, <4>2
    <3>11. CASE Request
      <4>1. PICK c \in Requests : flashQue' = PutFlash(flashQue, c)
        BY <3>11 DEF Request
      <4>2. c \in Orders /\ c.act # "store"
        BY RequestType
      <4> QED BY <3>1, <3>4, <4>1, <4>2
    <3>12. CASE \/ StopReading \/ ReadMessage \/ ReadMessageIntoNext \/ EndOfBlock
                \/ AwaitTimeout \/ Engine \/ Other
      <4>1. flashQue' = flashQue
        BY <3>12 DEF StopReading, ReadMessage, ReadMessageIntoNext, EndOfBlock, SendPayload,
           AwaitTimeout, Engine, Other, SendOther, CallEngine
      <4> QED BY <3>1, <3>5, <4>1
    <3> QED BY <1>3, <3>1, <3>6, <3>7, <3>8, <3>9, <3>10, <3>11, <3>12 DEF Next, FlashThread
  <2>4. Queued' \in Nat
    BY StoresFinite DEF Queued
  <2>6. made.stores + Queued' <= made'.stores + Queued /\ made.stores <= made'.stores
    BY <1>1, <2>1, <2>3, <2>4
  <2>7. made'.stores \in Nat
    BY <1>1, <2>1
  <2> QED BY <1>1, <2>3, <2>6, <2>7, Zenon
<1> QED BY <1>2, <1>3

-----------------------------------------------------------------------------
(* How much of the log the ring holds                                      *)

(* Quotient and remainder are unique.                                      *)
LEMMA Quotient ==
    ASSUME NEW n \in Nat, n > 0, NEW q \in Int, NEW r \in 0 .. n - 1,
           NEW y \in Int, y = n * q + r
    PROVE  y \div n = q
<1> DEFINE a == y \div n
           m == y % n
<1>1. a \in Int /\ m \in 0 .. n - 1 /\ y = n * a + m
  OBVIOUS
<1> HIDE DEF a, m
<1>2. m - r = n * (q - a) /\ q - a \in Int
  BY <1>1
<1>3. ~(q - a >= 1)
  <2>1. ASSUME q - a >= 1 PROVE FALSE
    <3>1. n * (q - a) >= n
      BY <1>1, <2>1
    <3> QED BY <1>1, <1>2, <3>1
  <2> QED BY <2>1
<1>4. ~(q - a <= -1)
  <2>1. ASSUME q - a <= -1 PROVE FALSE
    <3>1. n * (q - a) <= -n
      BY <1>1, <2>1
    <3> QED BY <1>1, <1>2, <3>1
  <2> QED BY <2>1
<1>5. q - a = 0
  BY <1>2, <1>3, <1>4
<1> QED BY <1>1, <1>5 DEF a

(* The oldest message begins a block, and the ring reaches from there into *)
(* its last block, once it has given one up.                               *)
Ring ==
    \E k \in Nat :
        /\ log.first = PerBlock * k + 1
        /\ Len(log.ports) <= PerBlock * k + PerBlock * NBlocks
        /\ k > 0 => Len(log.ports) > PerBlock * k + PerBlock * (NBlocks - 1)

LEMMA RingSizes ==
    /\ PerBlock \in Nat /\ PerBlock > 0 /\ NBlocks \in Nat /\ NBlocks >= 2
    /\ PerBlock * NBlocks \in Nat /\ NBlocks * PerBlock = PerBlock * NBlocks
    /\ PerBlock * (NBlocks - 1) = PerBlock * NBlocks - PerBlock
BY SizeAssumption

LEMMA RingStored ==
    ASSUME log \in Logs, Ring, NEW port \in Ports, log' = Stored(log, port)
    PROVE  Ring' /\ log.first <= log'.first
<1> DEFINE P == PerBlock
           R == PerBlock * NBlocks
           n == Len(log.ports)
<1>1. PICK k \in Nat : /\ log.first = P * k + 1 /\ n <= P * k + R
                       /\ k > 0 => n > P * k + P * (NBlocks - 1)
  BY DEF Ring
<1>2. /\ P \in Nat /\ P > 0 /\ R \in Nat /\ P * (NBlocks - 1) = R - P /\ n \in Nat
      /\ NBlocks \in Nat
  BY RingSizes DEF Logs
<1>3. /\ Len(log'.ports) = n + 1
      /\ log'.first = IF BlockOf(n + 1) - BlockOf(log.first) = NBlocks
                      THEN log.first + P ELSE log.first
  <2>1. log'.ports = Append(log.ports, port) /\ log.ports \in Seq(Ports)
    BY DEF Stored, Logs
  <2>2. Len(log'.ports) = n + 1
    BY <2>1
  <2> QED BY <2>2 DEF Stored
<1>4. BlockOf(n + 1) = n \div P /\ BlockOf(log.first) = (P * k) \div P
  <2>1. (n + 1) - 1 = n /\ log.first - 1 = P * k
    BY <1>1, <1>2
  <2> QED BY <2>1 DEF BlockOf
<1> HIDE DEF n
<1>5. (P * k) \div P = k
  <2>1. P * k \in Int /\ P * k = P * k + 0 /\ 0 \in 0 .. P - 1
    BY <1>2
  <2> QED BY <1>2, <2>1, Quotient
<1> DEFINE q == n \div P
           r == n % P
           K == P * k
<1>6. q \in Int /\ r \in 0 .. P - 1 /\ n = P * q + r /\ K \in Nat
  BY <1>2
<1>7. P * (k + 1) = K + P /\ P * (k + NBlocks) = K + R
  BY <1>2
<1>8. CASE n = K + R
  <2>1. n \div P = k + NBlocks
    <3>1. n = P * (k + NBlocks) + 0 /\ n \in Int /\ k + NBlocks \in Int /\ 0 \in 0 .. P - 1
      BY <1>2, <1>7, <1>8
    <3> QED BY <1>2, <3>1, Quotient
  <2>2. log'.first = log.first + P
    BY <1>2, <1>3, <1>4, <1>5, <2>1
  <2>3. log'.first = P * (k + 1) + 1 /\ n + 1 <= P * (k + 1) + R /\ n + 1 > P * (k + 1) + (R - P)
    BY <1>1, <1>2, <1>6, <1>7, <1>8, <2>2
  <2>4. k + 1 \in Nat
    OBVIOUS
  <2>5. Ring'
    BY <1>2, <1>3, <2>3, <2>4 DEF Ring
  <2> QED BY <1>1, <1>2, <1>6, <2>2, <2>5
<1>9. CASE n # K + R
  <2>1. n < K + R
    BY <1>1, <1>2, <1>6, <1>9
  <2>2. q < k + NBlocks
    <3>1. ASSUME q >= k + NBlocks PROVE FALSE
      <4>1. P * q >= P * (k + NBlocks)
        <5>1. q - (k + NBlocks) \in Nat /\ P * (q - (k + NBlocks)) \in Nat
          BY <1>2, <1>6, <3>1
        <5>2. P * q = P * (k + NBlocks) + P * (q - (k + NBlocks))
          BY <1>2, <1>6
        <5> QED BY <1>2, <1>6, <5>1, <5>2
      <4> QED BY <1>2, <1>6, <1>7, <2>1, <4>1
    <3> QED BY <1>2, <1>6, <3>1
  <2>3. log'.first = log.first
    BY <1>2, <1>3, <1>4, <1>5, <1>6, <2>2
  <2>4. /\ log'.first = P * k + 1 /\ n + 1 <= P * k + R
        /\ k > 0 => n + 1 > P * k + (R - P)
    BY <1>1, <1>2, <1>6, <2>1, <2>3
  <2>5. Ring'
    BY <1>2, <1>3, <2>4 DEF Ring
  <2> QED BY <1>1, <1>2, <1>6, <2>3, <2>5
<1> QED BY <1>8, <1>9

(* What is held fills the ring but for less than a block, unless nothing   *)
(* has been given up yet.                                                  *)
LEMMA RingHolds ==
    ASSUME log \in Logs, Ring
    PROVE  /\ Count \in Nat /\ Count <= NBlocks * PerBlock
           /\ log.first = 1 \/ Count >= (NBlocks - 1) * PerBlock + 1
<1> DEFINE n == Len(log.ports)
           R == PerBlock * NBlocks
<1>1. PICK k \in Nat : /\ log.first = PerBlock * k + 1 /\ n <= PerBlock * k + R
                       /\ k > 0 => n > PerBlock * k + PerBlock * (NBlocks - 1)
  BY DEF Ring
<1>2. /\ PerBlock \in Nat /\ PerBlock > 0 /\ R \in Nat /\ R >= PerBlock
      /\ PerBlock * (NBlocks - 1) = R - PerBlock /\ (NBlocks - 1) * PerBlock = R - PerBlock
      /\ NBlocks * PerBlock = R /\ n \in Nat /\ PerBlock * k \in Nat
  BY RingSizes DEF Logs
<1>3. Messages = log.first .. n
  BY DEF Messages
<1> HIDE DEF n, R
<1>4. log.first \in Int /\ n \in Int
  BY <1>1, <1>2
<1>5. Count = IF log.first > n THEN 0 ELSE n - log.first + 1
  BY <1>3, <1>4, FS_Interval DEF Count
<1>6. Count \in Nat /\ Count <= R
  BY <1>1, <1>2, <1>5
<1>7. k = 0 => log.first = 1
  BY <1>1, <1>2
<1>8. k > 0 => Count >= (R - PerBlock) + 1
  BY <1>1, <1>2, <1>5
<1> QED BY <1>2, <1>6, <1>7, <1>8

LEMMA InitRing == Init => Ring
<1> SUFFICES ASSUME Init PROVE Ring
  OBVIOUS
<1>1. PICK ports \in Prefills : log = [ports |-> ports, first |-> 1]
  BY DEF Init
<1>2. Len(ports) <= NBlocks * PerBlock /\ PerBlock * 0 = 0
  BY PortAssumption, RingSizes
<1>3. log.first = PerBlock * 0 + 1 /\ Len(log.ports) <= PerBlock * 0 + PerBlock * NBlocks
  BY <1>1, <1>2, RingSizes
<1> QED BY <1>3 DEF Ring

(* Only the handling of a store changes the log.                           *)
LEMMA LogStep ==
    ASSUME TypeOK, Next
    PROVE  \/ UNCHANGED log /\ ~HandleStore
           \/ HandleStore /\ \E port \in Ports : log' = Stored(log, port)
<1>1. CASE HandleStore
  <2>1. Serves("store") /\ log' = Stored(log, Incoming.port)
    BY <1>1 DEF HandleStore
  <2>2. Incoming \in Orders /\ Incoming.act = "store"
    BY <2>1, ServedFacts
  <2>3. Incoming.port \in Ports
    BY <2>2, Zenon DEF Orders
  <2> QED BY <1>1, <2>1, <2>3
<1>2. CASE ~HandleStore
  <2>1. log' = log
    BY <1>2 DEF Next, FlashThread, IgnoreConfirm, HandleGetAll,
       HandleGetFromHead, HandleContinue, StopReading, ReadMessage, ReadMessageIntoNext,
       EndOfBlock, AwaitConfirm, FinishBatch, SendPayload, AwaitTimeout, Communication,
       Engine, Request, Store, Other, SendOther, CallEngine
  <2> QED BY <1>2, <2>1
<1> QED BY <1>1, <1>2

LEMMA RingStep ==
    ASSUME TypeOK, Ring, Next
    PROVE  Ring' /\ log.first <= log'.first
<1>0. log \in Logs
  BY DEF TypeOK
<1>1. CASE UNCHANGED log
  BY <1>0, <1>1 DEF Ring, Logs
<1>2. CASE \E port \in Ports : log' = Stored(log, port)
  BY <1>0, <1>2, RingStored
<1> QED BY <1>1, <1>2, LogStep

-----------------------------------------------------------------------------
(* Positions                                                               *)

LEMMA Greatest ==
    ASSUME NEW n \in Nat, NEW S, S \subseteq 1 .. n, S # {}
    PROVE  \E m \in S : \A k \in S : k <= m
<1> DEFINE depths == {n - m : m \in S}
<1>1. depths \subseteq Nat /\ depths # {}
  <2>1. \A m \in S : n - m \in Nat
    <3> SUFFICES ASSUME NEW m \in S PROVE n - m \in Nat
      OBVIOUS
    <3>1. m \in 1 .. n
      OBVIOUS
    <3> QED BY <3>1
  <2>2. depths \subseteq Nat
    BY <2>1
  <2>3. PICK m : m \in S
    OBVIOUS
  <2>4. n - m \in depths
    BY <2>3
  <2> QED BY <2>2, <2>4
<1>2. IsWellFoundedOn(OpToRel(<, Nat), Nat)
  BY NatLessThanWellFounded
<1> HIDE DEF depths
<1>3. PICK d \in depths : \A e \in depths : ~(<<e, d>> \in OpToRel(<, Nat))
  BY <1>1, <1>2, WFMin, Zenon
<1>4. \A e \in depths : ~(e < d)
  BY <1>1, <1>3 DEF OpToRel
<1>5. PICK m \in S : d = n - m
  BY DEF depths
<1>6. ASSUME NEW k \in S PROVE k <= m
  <2>1. n - k \in depths
    BY DEF depths
  <2>2. ~(n - k < n - m)
    BY <1>4, <1>5, <2>1
  <2> QED BY <2>2
<1> QED BY <1>6

LEMMA Smallest ==
    ASSUME NEW S, S \subseteq Nat, S # {}
    PROVE  \E m \in S : \A k \in S : m <= k
<1>1. IsWellFoundedOn(OpToRel(<, Nat), Nat)
  BY NatLessThanWellFounded
<1>2. PICK m \in S : \A k \in S : ~(<<k, m>> \in OpToRel(<, Nat))
  BY <1>1, WFMin, Zenon
<1>3. \A k \in S : ~(k < m)
  BY <1>2 DEF OpToRel
<1> QED BY <1>3

Above(port, m) == {k \in On(port) : k > m}

LEMMA OnNumbers ==
    ASSUME log \in Logs, NEW port
    PROVE  /\ Len(log.ports) \in Nat /\ On(port) \subseteq 1 .. Len(log.ports)
           /\ IsFiniteSet(On(port)) /\ Cardinality(On(port)) \in Nat
           /\ \A m : /\ Position(port, m) = Cardinality(Above(port, m))
                     /\ IsFiniteSet(Above(port, m)) /\ Position(port, m) \in Nat
<1>1. /\ On(port) \subseteq Messages /\ Messages \subseteq 1 .. Len(log.ports)
      /\ IsFiniteSet(On(port)) /\ Cardinality(On(port)) \in Nat
  BY Finiteness
<1>2. ASSUME NEW m
      PROVE  /\ Position(port, m) = Cardinality(Above(port, m))
             /\ IsFiniteSet(Above(port, m)) /\ Position(port, m) \in Nat
  <2>1. Above(port, m) \in SUBSET On(port)
    BY DEF Above
  <2>2. IsFiniteSet(Above(port, m)) /\ Cardinality(Above(port, m)) \in Nat
    BY <1>1, <2>1, FS_Subset, FS_CardinalityType
  <2> QED BY <2>2 DEF Position, Above
<1>3. Len(log.ports) \in Nat
  BY DEF Logs
<1> QED BY <1>1, <1>2, <1>3

(* A newer message has a smaller position.                                 *)
LEMMA NewerFirst ==
    ASSUME log \in Logs, NEW port, NEW m \in On(port), NEW k \in On(port), m < k
    PROVE  Position(port, k) < Position(port, m)
<1>1. /\ On(port) \subseteq 1 .. Len(log.ports) /\ Len(log.ports) \in Nat
      /\ Position(port, k) = Cardinality(Above(port, k)) /\ Position(port, k) \in Nat
      /\ Position(port, m) = Cardinality(Above(port, m)) /\ Position(port, m) \in Nat
      /\ IsFiniteSet(Above(port, k)) /\ IsFiniteSet(Above(port, m))
  BY OnNumbers
<1>2. m \in Nat /\ k \in Nat /\ \A j \in On(port) : j \in Nat
  BY <1>1
<1>3. Above(port, k) \cup {k} \subseteq Above(port, m) /\ k \notin Above(port, k)
  <2>1. k \in Above(port, m) /\ k \notin Above(port, k)
    BY <1>2 DEF Above
  <2>2. ASSUME NEW j \in Above(port, k) PROVE j \in Above(port, m)
    <3>1. j \in On(port) /\ j > k
      BY DEF Above
    <3>2. j > m
      BY <1>2, <3>1
    <3> QED BY <3>1, <3>2 DEF Above
  <2> QED BY <2>1, <2>2
<1>4. Cardinality(Above(port, k) \cup {k}) = Position(port, k) + 1
  BY <1>1, <1>3, FS_AddElement
<1>5. Cardinality(Above(port, k) \cup {k}) <= Position(port, m)
  BY <1>1, <1>3, FS_Subset
<1> QED BY <1>1, <1>4, <1>5

(* Every position below the number of messages is taken.                   *)
LEMMA PositionTaken ==
    ASSUME log \in Logs, NEW port, NEW a \in Nat, a < Cardinality(On(port))
    PROVE  \E m \in On(port) : Position(port, m) = a
<1>1. /\ On(port) \subseteq 1 .. Len(log.ports) /\ Len(log.ports) \in Nat
      /\ IsFiniteSet(On(port)) /\ Cardinality(On(port)) \in Nat
      /\ \A m : /\ Position(port, m) = Cardinality(Above(port, m))
                /\ IsFiniteSet(Above(port, m)) /\ Position(port, m) \in Nat
  BY OnNumbers
<1>2. \A m \in On(port) : m \in Nat
  BY <1>1
<1>3. Cardinality({}) = 0
  BY FS_EmptySet
<1>4. On(port) # {}
  <2>1. ASSUME On(port) = {} PROVE FALSE
    <3>1. Cardinality(On(port)) = 0
      BY <1>3, <2>1
    <3> QED BY <3>1
  <2> QED BY <2>1
<1> DEFINE S == {m \in On(port) : Position(port, m) <= a}
<1>5. S # {}
  <2>1. PICK top \in On(port) : \A k \in On(port) : k <= top
    BY <1>1, <1>4, Greatest
  <2>2. Above(port, top) = {}
    BY <1>2, <2>1 DEF Above
  <2>3. Position(port, top) = 0
    BY <1>1, <1>3, <2>2
  <2> QED BY <2>3
<1>6. S \subseteq Nat
  BY <1>2
<1>7. PICK m \in S : \A k \in S : m <= k
  BY <1>5, <1>6, Smallest
<1>8. m \in On(port) /\ m \in Nat /\ Position(port, m) <= a
  BY <1>2
<1>9. ASSUME Position(port, m) < a PROVE FALSE
  <2> DEFINE B == {k \in On(port) : k < m}
             up == Above(port, m) \cup {m}
  <2>1. m \notin Above(port, m) /\ On(port) = B \cup up
    <3>1. ASSUME NEW k \in On(port) PROVE k \in B \cup up
      <4>1. k \in Nat /\ (k < m \/ k = m \/ k > m)
        BY <1>2, <1>8
      <4> QED BY <4>1 DEF Above
    <3>2. B \cup up \subseteq On(port) /\ m \notin Above(port, m)
      BY <1>8 DEF Above
    <3> QED BY <3>1, <3>2
  <2>2. Cardinality(up) = Position(port, m) + 1 /\ IsFiniteSet(up)
    BY <1>1, <2>1, FS_AddElement
  <2>3. B # {}
    <3>1. ASSUME B = {} PROVE FALSE
      <4>1. On(port) = up
        BY <2>1, <3>1
      <4>2. Position(port, m) \in Nat
        BY <1>1
      <4> QED BY <1>1, <1>9, <2>2, <4>1, <4>2
    <3> QED BY <3>1
  <2>4. B \subseteq 1 .. Len(log.ports)
    BY <1>1
  <2>5. PICK b \in B : \A k \in B : k <= b
    BY <1>1, <2>3, <2>4, Greatest
  <2>6. b \in On(port) /\ b < m /\ b \in Nat
    BY <1>2
  <2>7. Above(port, b) = up
    <3>1. ASSUME NEW k \in On(port), k > b PROVE k \in up
      <4>1. k \notin B
        BY <1>2, <2>5, <2>6, <3>1
      <4> QED BY <2>1, <4>1
    <3>2. ASSUME NEW k \in up PROVE k \in On(port) /\ k > b
      BY <1>2, <1>8, <2>6, <3>2 DEF Above
    <3> QED BY <3>1, <3>2 DEF Above
  <2>8. Position(port, b) = Position(port, m) + 1
    BY <1>1, <2>2, <2>7
  <2>9. Position(port, b) <= a
    <3>1. Position(port, m) \in Nat
      BY <1>1
    <3> QED BY <1>9, <2>8, <3>1
  <2>10. m <= b
    BY <1>7, <2>6, <2>9
  <2> QED BY <1>8, <2>6, <2>10
<1>10. Position(port, m) = a
  <2>1. Position(port, m) \in Nat
    BY <1>1
  <2> QED BY <1>8, <1>9, <2>1
<1> QED BY <1>8, <1>10

(* A window has no more messages than positions.                           *)
LEMMA WindowSize ==
    ASSUME log \in Logs, NEW port, NEW a \in Nat, NEW b \in Nat
    PROVE  Cardinality(Window(port, a, b)) <= b
<1> DEFINE V == Window(port, a, b)
           f == [m \in V |-> Position(port, m)]
<1>1. /\ V \subseteq On(port) /\ \A m \in V : Position(port, m) \in a .. a + b - 1
  BY DEF Window
<1>2. \A m \in On(port) : m \in Nat
  BY OnNumbers
<1>3. \A m, k \in V : Position(port, m) = Position(port, k) => m = k
  <2> SUFFICES ASSUME NEW m \in V, NEW k \in V, Position(port, m) = Position(port, k), m # k
               PROVE  FALSE
    OBVIOUS
  <2>1. m \in On(port) /\ k \in On(port) /\ m \in Nat /\ k \in Nat
    BY <1>1, <1>2
  <2>2. CASE m < k
    BY <2>1, <2>2, NewerFirst, OnNumbers
  <2>3. CASE k < m
    BY <2>1, <2>3, NewerFirst, OnNumbers
  <2> QED BY <2>1, <2>2, <2>3
<1> HIDE DEF V
<1>4. f \in Injection(V, a .. a + b - 1)
  <2>1. f \in [V -> a .. a + b - 1]
    BY <1>1
  <2>2. \A m, k \in V : f[m] = f[k] => m = k
    BY <1>3
  <2> QED BY <2>1, <2>2 DEF Injection, IsInjective
<1>5. IsFiniteSet(a .. a + b - 1) /\ Cardinality(a .. a + b - 1) = b
  <2>1. a \in Int /\ a + b - 1 \in Int
    OBVIOUS
  <2>2. IsFiniteSet(a .. a + b - 1)
        /\ Cardinality(a .. a + b - 1) = IF a > a + b - 1 THEN 0 ELSE (a + b - 1) - a + 1
    BY <2>1, FS_Interval
  <2> QED BY <2>2
<1>6. Cardinality(V) <= Cardinality(a .. a + b - 1)
  BY <1>4, <1>5, FS_Injection
<1> QED BY <1>5, <1>6 DEF V

-----------------------------------------------------------------------------
(* What a read reaches                                                     *)

(* What the server has or will get without another read, the messages      *)
(* newer than all of it, and the wanted ones it has passed by.             *)
Port == server.command.port

Sure ==
    server.sent \cup Ids(eventQue) \cup Ids(lrQue) \cup job.payload \cup job.left

Newer(S)  == {m \in On(Port) : \A k \in S : k < m}
Passed(S) == {m \in (server.wanted \cap Messages) \ S : \E k \in S : k > m}

(* All that is wanted is of the port of the command.                       *)
OfPort == \A m \in server.wanted : Port \in {AnyPort, log.ports[m]}

LEMMA Amounts ==
    ASSUME log \in Logs, NEW S
    PROVE  /\ IsFiniteSet(Newer(S)) /\ Cardinality(Newer(S)) \in Nat
           /\ IsFiniteSet(Passed(S)) /\ Cardinality(Passed(S)) \in Nat
           /\ IsFiniteSet(Newer(S) \cap server.wanted)
           /\ Cardinality(Newer(S) \cap server.wanted) \in Nat
           /\ Cardinality(Newer(S) \cap server.wanted) <= Cardinality(Newer(S))
<1>1. IsFiniteSet(On(Port)) /\ IsFiniteSet(Messages)
  BY Finiteness
<1>2. Newer(S) \in SUBSET On(Port) /\ Passed(S) \in SUBSET Messages
  BY DEF Newer, Passed
<1>3. IsFiniteSet(Newer(S)) /\ IsFiniteSet(Passed(S))
  BY <1>1, <1>2, FS_Subset
<1>4. Newer(S) \cap server.wanted \in SUBSET Newer(S)
  OBVIOUS
<1> QED BY <1>3, <1>4, FS_Subset, FS_CardinalityType

(* A batch from position a on leaves at most a newer messages. It passes   *)
(* by no other wanted one, unless more than its own size was newer than    *)
(* what the server had: then what it passes by is what was beyond it.      *)
LEMMA ReadingReaches ==
    ASSUME log \in Logs, server.wanted \subseteq 1 .. Len(log.ports), OfPort,
           NEW S, S \subseteq Nat,
           NEW a \in Nat, a < Cardinality(On(Port)), NEW b \in Nat \ {0}
    PROVE  LET V == Window(Port, a, b)
           IN  /\ IsFiniteSet(V) /\ Cardinality(V) \in 1 .. b
               /\ Cardinality(Newer(S \cup V)) <= a
               /\ \/ Cardinality(Passed(S \cup V)) <= Cardinality(Passed(S))
                  \/ Cardinality(Passed(S \cup V)) + a + b
                       <= Cardinality(Passed(S)) + Cardinality(Newer(S))
<1> DEFINE V == Window(Port, a, b)
           T == S \cup V
           X == {m \in Newer(S) : Position(Port, m) >= a + b}
<1>1. /\ On(Port) \subseteq 1 .. Len(log.ports) /\ Len(log.ports) \in Nat
      /\ IsFiniteSet(On(Port))
      /\ \A m : /\ Position(Port, m) = Cardinality(Above(Port, m))
                /\ IsFiniteSet(Above(Port, m)) /\ Position(Port, m) \in Nat
  BY OnNumbers
<1>2. \A m \in On(Port) : m \in Nat
  BY <1>1
<1>3. /\ \A m \in V : m \in On(Port) /\ Position(Port, m) \in a .. a + b - 1
      /\ \A m \in On(Port) : m \notin V => Position(Port, m) \notin a .. a + b - 1
  BY DEF Window
<1>4. IsFiniteSet(V) /\ Cardinality(V) \in Nat /\ Cardinality(V) <= b
  BY WindowFacts, WindowSize
<1>5. PICK top \in On(Port) : Position(Port, top) = a
  BY PositionTaken
<1>6. top \in V
  <2>1. a \in a .. a + b - 1
    OBVIOUS
  <2> QED BY <1>3, <1>5, <2>1
<1>7. Cardinality(V) \in 1 .. b
  <2>1. ASSUME Cardinality(V) = 0 PROVE FALSE
    <3>1. V = {}
      BY <1>4, <2>1, FS_EmptySet
    <3> QED BY <1>6, <3>1
  <2> QED BY <1>4, <2>1
<1> HIDE DEF V
<1>8. Cardinality(Newer(T)) <= a
  <2>1. Newer(T) \subseteq Above(Port, top)
    BY <1>6 DEF Newer, Above
  <2>2. IsFiniteSet(Above(Port, top)) /\ Cardinality(Above(Port, top)) = a
    BY <1>1, <1>5
  <2>3. Cardinality(Newer(T)) <= Cardinality(Above(Port, top))
    BY <2>1, <2>2, FS_Subset
  <2> QED BY <2>2, <2>3
<1>9. Passed(T) \subseteq Passed(S) \cup X
  <2> SUFFICES ASSUME NEW m \in Passed(T), m \notin Passed(S) PROVE m \in X
    OBVIOUS
  <2>1. m \in server.wanted /\ m \in Messages /\ m \notin S /\ m \notin V
    BY DEF Passed
  <2>2. PICK k \in T : k > m
    BY DEF Passed
  <2>3. ~ \E j \in S : j > m
    BY <2>1 DEF Passed
  <2>4. k \in V
    BY <2>2, <2>3
  <2>5. m \in On(Port)
    BY <2>1 DEF OfPort, On
  <2>6. m \in Nat /\ k \in On(Port) /\ k \in Nat
    BY <1>2, <1>3, <2>4, <2>5
  <2>7. ASSUME NEW j \in S PROVE j < m
    <3>1. j \in Nat /\ ~(j > m) /\ j # m
      BY <2>1, <2>3
    <3> QED BY <2>6, <3>1
  <2>8. m \in Newer(S)
    BY <2>5, <2>7 DEF Newer
  <2>9. Position(Port, k) < Position(Port, m)
    BY <2>2, <2>5, <2>6, NewerFirst
  <2>10. Position(Port, k) >= a /\ Position(Port, m) \notin a .. a + b - 1
    BY <1>3, <2>1, <2>4, <2>5
  <2>11. Position(Port, k) \in Nat /\ Position(Port, m) \in Nat
    BY <1>1
  <2>12. Position(Port, m) >= a + b
    BY <2>9, <2>10, <2>11
  <2> QED BY <2>8, <2>12
<1>10. /\ IsFiniteSet(Newer(S)) /\ Cardinality(Newer(S)) \in Nat
       /\ IsFiniteSet(Passed(S)) /\ Cardinality(Passed(S)) \in Nat
       /\ IsFiniteSet(Passed(T)) /\ Cardinality(Passed(T)) \in Nat
  BY Amounts
<1>11. X \subseteq Newer(S)
  OBVIOUS
<1>12. IsFiniteSet(X) /\ Cardinality(X) \in Nat
  BY <1>10, <1>11, FS_Subset, FS_CardinalityType
<1>13. CASE X = {}
  <2>1. Passed(T) \subseteq Passed(S)
    BY <1>9, <1>13
  <2>2. Cardinality(Passed(T)) <= Cardinality(Passed(S))
    BY <1>10, <2>1, FS_Subset
  <2> QED BY <1>4, <1>7, <1>8, <2>2 DEF V
<1>14. CASE X # {}
  <2>1. X \subseteq 1 .. Len(log.ports)
    BY <1>1 DEF Newer
  <2>2. PICK x \in X : \A k \in X : k <= x
    BY <1>1, <1>14, <2>1, Greatest
  <2>3. x \in On(Port) /\ x \in Nat /\ Position(Port, x) >= a + b
    BY <1>2 DEF Newer
  <2>4. ASSUME NEW k \in Above(Port, x) PROVE k \in Newer(S) /\ k \notin X
    <3>1. k \in On(Port) /\ k > x /\ k \in Nat
      BY <1>2 DEF Above
    <3>2. ASSUME NEW j \in S PROVE j < k
      <4>1. j < x /\ j \in Nat
        BY DEF Newer
      <4> QED BY <2>3, <3>1, <4>1
    <3>3. k \notin X
      BY <2>2, <2>3, <3>1
    <3> QED BY <3>1, <3>2, <3>3 DEF Newer
  <2> DEFINE A == Above(Port, x)
  <2>5. IsFiniteSet(A) /\ Cardinality(A) \in Nat /\ Cardinality(A) >= a + b
    BY <1>1, <2>3
  <2>6. A \cap X = {} /\ A \cup X \subseteq Newer(S)
    BY <1>11, <2>4
  <2> HIDE DEF A, X
  <2>7. Cardinality(A \cup X) = Cardinality(A) + Cardinality(X)
    <3>1. Cardinality(A \cup X) = Cardinality(A) + Cardinality(X) - Cardinality(A \cap X)
      BY <1>12, <2>5, FS_Union
    <3>2. Cardinality(A \cap X) = 0
      BY <2>6, FS_EmptySet
    <3> QED BY <1>12, <2>5, <3>1, <3>2
  <2>8. Cardinality(A \cup X) <= Cardinality(Newer(S))
    BY <1>10, <2>6, FS_Subset
  <2>9. /\ IsFiniteSet(Passed(S) \cup X)
        /\ Cardinality(Passed(S) \cup X) <= Cardinality(Passed(S)) + Cardinality(X)
    <3>1. /\ IsFiniteSet(Passed(S) \cup X)
          /\ Cardinality(Passed(S) \cup X)
               = Cardinality(Passed(S)) + Cardinality(X) - Cardinality(Passed(S) \cap X)
      BY <1>10, <1>12, FS_Union
    <3>2. Cardinality(Passed(S) \cap X) \in Nat
      <4>1. Passed(S) \cap X \subseteq X
        OBVIOUS
      <4> QED BY <1>12, <4>1, FS_Subset, FS_CardinalityType
    <3> QED BY <1>10, <1>12, <3>1, <3>2
  <2>10. Cardinality(Passed(T)) <= Cardinality(Passed(S) \cup X)
    BY <1>9, <2>9, FS_Subset
  <2>11. Cardinality(Passed(S) \cup X) \in Nat
    BY <2>9, FS_CardinalityType
  <2>12. Cardinality(Passed(T)) + a + b <= Cardinality(Passed(S)) + Cardinality(Newer(S))
    BY <1>10, <1>12, <2>5, <2>7, <2>8, <2>9, <2>10, <2>11
  <2> QED BY <1>4, <1>7, <1>8, <2>12 DEF V
<1> QED BY <1>13, <1>14

-----------------------------------------------------------------------------
(* What a step does to it                                                  *)

(* What was not disturbed by the step was not disturbed before it.         *)
LEMMA UndisturbedBefore ==
    ASSUME TypeOK, Held, Next, ~Request, Undisturbed'
    PROVE  /\ Undisturbed /\ ~StopReading /\ ~AwaitTimeout
           /\ server.lost = {} /\ server'.lost = {} /\ ~server.late /\ ~server'.late
<1>0. ~server'.cut /\ ~server'.late /\ server'.lost = {} /\ server \in Servers
  BY DEF Undisturbed, TypeOK
<1>1. ~StopReading
  <2> SUFFICES ASSUME StopReading PROVE FALSE
    OBVIOUS
  <2>1. server' = [server EXCEPT !.cut = TRUE]
    BY DEF StopReading
  <2> QED BY <1>0, <2>1 DEF Servers
<1>2. ~AwaitTimeout
  <2> SUFFICES ASSUME AwaitTimeout PROVE FALSE
    OBVIOUS
  <2>1. server' = [server EXCEPT !.late = TRUE]
    BY DEF AwaitTimeout
  <2> QED BY <1>0, <2>1 DEF Servers
<1>3. ~server.cut /\ ~server.late /\ server.lost = {}
  BY <1>0, ServerStep
<1> QED BY <1>0, <1>1, <1>2, <1>3 DEF Undisturbed

(* What others send, and the answers, bring no message of the log.         *)
LEMMA NoIds ==
    ASSUME NEW que, Range(que) \subseteq {Answer(TRUE), Foreign}
    PROVE  Ids(que) = {}
<1>1. Answer(TRUE).ids = {} /\ Foreign.ids = {}
  BY DEF Answer, Foreign
<1> QED BY <1>1 DEF Ids

(* So a queue with nothing else in it brings what is put on it.            *)
LEMMA PutOnForeign ==
    ASSUME lrQue \in Seq(Mails), Range(lrQue) \subseteq {Foreign}, NEW m \in Mails,
           lrQue' = PutMessage(lrQue, LrQueMax, m)
    PROVE  /\ Range(lrQue') \subseteq {Foreign, m}
           /\ Ids(lrQue') = m.ids /\ Ids(lrQue) = {}
<1>1. Range(lrQue') \subseteq Range(lrQue) \cup {m} /\ m \in Range(lrQue')
  BY PutFacts, Sizes
<1>2. Range(lrQue') \subseteq {Foreign, m}
  BY <1>1
<1>3. Foreign.ids = {}
  BY DEF Foreign
<1>4. Ids(lrQue') = m.ids
  BY <1>1, <1>2, <1>3 DEF Ids
<1> QED BY <1>2, <1>4, NoIds

(* Nothing that was read gets lost, and nothing is read twice: between two *)
(* reads the messages only move along.                                     *)
LEMMA SureStep ==
    ASSUME TypeOK, Held, Next, ~Request, Undisturbed',
           HandleContinue \/ HandleGetFromHead => UNCHANGED <<lrQue, job>>,
           job.at = "read" => Range(lrQue) \subseteq {Foreign},
           SendOther => Ids(lrQue') = Ids(lrQue)
    PROVE  Sure' = Sure
<1>0. /\ eventQue \in Seq(Mails) /\ lrQue \in Seq(Mails) /\ server \in Servers
      /\ log \in Logs /\ job \in Jobs /\ job.left \subseteq 1 .. Len(log.ports)
      /\ job.payload \in SUBSET Nat
  BY Fields DEF TypeOK, Held
<1>1. ~StopReading /\ server'.lost = {}
  BY UndisturbedBefore
<1>2. ~Engine => server'.sent = server.sent
  BY ServerStep
<1>3. CASE \/ HandleStore \/ IgnoreConfirm \/ HandleGetAll \/ HandleGetFromHead \/ HandleContinue
           \/ AwaitConfirm \/ AwaitTimeout \/ Store
  <2>1. UNCHANGED <<lrQue, eventQue>> /\ job'.left = job.left /\ job'.payload = job.payload
    <3>1. CASE AwaitConfirm \/ AwaitTimeout
      <4>1. UNCHANGED <<lrQue, eventQue>> /\ \E at : job' = [job EXCEPT !.at = at]
        BY <3>1 DEF AwaitConfirm, AwaitTimeout
      <4> QED BY <1>0, <4>1 DEF Jobs
    <3>2. CASE \/ HandleStore \/ IgnoreConfirm \/ HandleGetAll \/ HandleGetFromHead
               \/ HandleContinue \/ Store
      <4>1. UNCHANGED <<lrQue, eventQue, job>>
        BY <3>2 DEF HandleStore, IgnoreConfirm, HandleGetAll, HandleGetFromHead, HandleContinue,
           Store
      <4> QED BY <4>1
    <3> QED BY <1>3, <3>1, <3>2
  <2>2. server'.sent = server.sent
    <3>1. CASE AwaitTimeout
      <4>1. server' = [server EXCEPT !.late = TRUE]
        BY <3>1 DEF AwaitTimeout
      <4> QED BY <1>0, <4>1 DEF Servers
    <3>2. CASE HandleGetAll \/ HandleGetFromHead
      <4>1. \E ids : server' = [server EXCEPT !.wanted = ids]
        BY <3>2 DEF HandleGetAll, HandleGetFromHead, Wants
      <4> QED BY <1>0, <4>1 DEF Servers
    <3>3. CASE HandleStore \/ IgnoreConfirm \/ HandleContinue \/ AwaitConfirm \/ Store
      <4>1. server' = server
        BY <3>3 DEF HandleStore, IgnoreConfirm, HandleContinue, AwaitConfirm, Store
      <4> QED BY <4>1
    <3> QED BY <1>3, <3>1, <3>2, <3>3
  <2> QED BY <2>1, <2>2 DEF Sure, Ids
<1>4. CASE ReadMessage
  <2>1. /\ job.left # {} /\ job' = Taken("read", job.payload)
        /\ UNCHANGED <<lrQue, eventQue, server>>
    BY <1>4 DEF ReadMessage, NextMessage
  <2>2. job'.payload \cup job'.left = job.payload \cup job.left
    BY <1>0, <2>1, TakenFacts
  <2> QED BY <2>1, <2>2 DEF Sure, Ids
<1>5. CASE ReadMessageIntoNext \/ EndOfBlock
  <2>1. /\ job.at = "read" /\ lrQue' = PutMessage(lrQue, LrQueMax, Payload(job.payload))
        /\ UNCHANGED <<eventQue, server>>
    BY <1>5 DEF ReadMessageIntoNext, EndOfBlock, SendPayload, NextMessage
  <2>2. Payload(job.payload) \in Mails /\ Payload(job.payload).ids = job.payload
    BY <1>0, MailTypes DEF Payload
  <2>3. Ids(lrQue') = job.payload /\ Ids(lrQue) = {}
    BY <1>0, <2>1, <2>2, PutOnForeign
  <2>4. job'.payload \cup job'.left = job.left
    <3>1. CASE ReadMessageIntoNext
      <4>1. job.left # {} /\ job' = Taken("wait", {})
        BY <3>1 DEF ReadMessageIntoNext, NextMessage
      <4>2. job'.payload \cup job'.left = {} \cup job.left
        BY <1>0, <4>1, TakenFacts
      <4> QED BY <4>2
    <3>2. CASE EndOfBlock
      <4>1. job' = [job EXCEPT !.at = "wait", !.payload = {}]
        BY <3>2 DEF EndOfBlock
      <4> QED BY <1>0, <4>1 DEF Jobs
    <3> QED BY <1>5, <3>1, <3>2
  <2>5. Ids(eventQue') = Ids(eventQue)
    BY <2>1 DEF Ids
  <2> QED BY <2>1, <2>3, <2>4, <2>5 DEF Sure
<1>6. CASE FinishBatch
  <2>1. /\ job.at = "read" /\ job.left = {} /\ job.payload = {} /\ job' = Idle
        /\ UNCHANGED <<eventQue, server>>
        /\ lrQue' = lrQue \/ lrQue' = PutMessage(lrQue, LrQueMax, Answer(TRUE))
    BY <1>6 DEF FinishBatch
  <2>2. Answer(TRUE) \in Mails /\ Answer(TRUE).ids = {}
    BY MailTypes DEF Answer
  <2>3. Ids(lrQue') = Ids(lrQue)
    <3>1. CASE lrQue' = lrQue
      BY <3>1 DEF Ids
    <3>2. CASE lrQue' = PutMessage(lrQue, LrQueMax, Answer(TRUE))
      BY <1>0, <2>1, <2>2, <3>2, PutOnForeign
    <3> QED BY <2>1, <3>1, <3>2
  <2>4. job'.left = {} /\ job'.payload = {}
    BY <2>1 DEF Idle
  <2>5. Ids(eventQue') = Ids(eventQue)
    BY <2>1 DEF Ids
  <2> QED BY <2>1, <2>3, <2>4, <2>5 DEF Sure
<1>7. CASE Communication
  BY <1>1, <1>7, CommunicationMoves DEF Sure
<1>8. CASE Engine
  <2>1. UNCHANGED <<lrQue, job>> /\ server'.sent \cup Ids(eventQue') = server.sent \cup Ids(eventQue)
    BY <1>8, EngineMoves
  <2>2. Ids(lrQue') = Ids(lrQue)
    BY <2>1 DEF Ids
  <2> QED BY <2>1, <2>2 DEF Sure
<1>9. CASE CallEngine
  <2>1. /\ eventQue' = PutEvent(eventQue, Foreign) /\ UNCHANGED <<lrQue, job>>
        /\ server' = [server EXCEPT !.lost = @ \cup Displaced]
    BY <1>9 DEF CallEngine
  <2>2. server'.sent = server.sent /\ server'.lost = server.lost \cup Displaced
    BY <1>0, <2>1 DEF Servers
  <2>3. Foreign \in Mails /\ Foreign.ids = {} /\ Displaced = {}
    BY <1>1, <2>2, MailTypes DEF Foreign
  <2>4. Ids(eventQue') = Ids(eventQue)
    <3>1. Ids(PutEvent(eventQue, Foreign)) \cup Displaced = Ids(eventQue) \cup Foreign.ids
      BY <1>0, <2>3, PutEventFacts
    <3>2. Ids(eventQue') = Ids(PutEvent(eventQue, Foreign))
      BY <2>1 DEF Ids
    <3> QED BY <2>3, <3>1, <3>2
  <2>5. Ids(lrQue') = Ids(lrQue)
    BY <2>1 DEF Ids
  <2> QED BY <2>1, <2>2, <2>4, <2>5 DEF Sure
<1>10. CASE SendOther
  <2>1. UNCHANGED <<eventQue, job, server>> /\ Ids(lrQue') = Ids(lrQue)
    BY <1>10 DEF SendOther
  <2>2. Ids(eventQue') = Ids(eventQue)
    BY <2>1 DEF Ids
  <2> QED BY <2>1, <2>2 DEF Sure
<1> QED
  BY <1>1, <1>3, <1>4, <1>5, <1>6, <1>7, <1>8, <1>9, <1>10 DEF Next, FlashThread, Other

(* How many the server still has to get from its command on, how many of   *)
(* those it wanted, and how many of these it has passed by.                *)
Fresh       == Cardinality(Newer(Sure))
FreshWanted == Cardinality(Newer(Sure) \cap server.wanted)
Gone        == Cardinality(Passed(Sure))

LEMMA AmountTypes ==
    ASSUME log \in Logs
    PROVE  Fresh \in Nat /\ FreshWanted \in Nat /\ Gone \in Nat /\ FreshWanted <= Fresh
BY Amounts DEF Fresh, FreshWanted, Gone

(* More than two batches are wanted, and the count keeps above the start.  *)
Big == Cardinality(server.wanted) > 2 * Batch /\ CountHolds

(* A store adds one message to what is newer, and may take others away.    *)
LEMMA StoreAmounts ==
    ASSUME log \in Logs, Held, Ring, NEW port \in Ports, log' = Stored(log, port),
           server' = server, Sure' = Sure
    PROVE  Fresh' <= Fresh + 1 /\ FreshWanted' <= FreshWanted /\ Gone' <= Gone
<1> DEFINE n == Len(log.ports)
<1>1. /\ log.ports \in Seq(Ports) /\ n \in Nat /\ log.first \in Nat
      /\ server.wanted \subseteq 1 .. n
  BY DEF Logs, Held
<1>2. log' \in Logs /\ log'.ports = Append(log.ports, port) /\ Len(log'.ports) = n + 1
  BY StoredFacts DEF Stored
<1>3. log.first <= log'.first /\ log'.first \in Nat
  BY <1>2, RingStored DEF Logs
<1>4. \A m \in Messages' : m \in Messages \/ m = n + 1
  BY <1>1, <1>2, <1>3 DEF Messages
<1>5. \A m \in 1 .. n : log'.ports[m] = log.ports[m]
  BY <1>1, <1>2
<1>6. \A m \in Messages : m \in 1 .. n
  BY Finiteness
<1>7. \A m \in On(Port)' : m \in On(Port) \/ m = n + 1
  BY <1>4, <1>5, <1>6 DEF On, Port
<1>8. Newer(Sure)' \subseteq Newer(Sure) \cup {n + 1}
  BY <1>7 DEF Newer
<1>9. (Newer(Sure) \cap server.wanted)' \subseteq Newer(Sure) \cap server.wanted
  <2>1. n + 1 \notin server.wanted
    BY <1>1
  <2> QED BY <1>8, <2>1
<1>10. Passed(Sure)' \subseteq Passed(Sure)
  <2>1. n + 1 \notin server.wanted
    BY <1>1
  <2>2. (server.wanted \cap Messages)' \subseteq server.wanted \cap Messages
    BY <1>4, <2>1
  <2> QED BY <2>2 DEF Passed
<1> DEFINE F == Newer(Sure)
           G == Newer(Sure)'
<1>11. /\ IsFiniteSet(F) /\ Cardinality(F) \in Nat /\ IsFiniteSet(Passed(Sure))
       /\ IsFiniteSet(F \cap server.wanted)
  BY Amounts
<1> HIDE DEF F, G, n
<1>12. /\ IsFiniteSet(F \cup {n + 1})
       /\ Cardinality(F \cup {n + 1}) \in {Cardinality(F), Cardinality(F) + 1}
  BY <1>11, FS_AddElement
<1>13. IsFiniteSet(G) /\ Cardinality(G) <= Cardinality(F \cup {n + 1})
  BY <1>8, <1>12, FS_Subset DEF F, G
<1>14. Cardinality(G) \in Nat
  BY <1>13, FS_CardinalityType
<1>15. Cardinality(G) <= Cardinality(F) + 1
  BY <1>11, <1>12, <1>13, <1>14
<1>16. FreshWanted' <= FreshWanted
  BY <1>9, <1>11, FS_Subset DEF FreshWanted, F
<1>17. Gone' <= Gone
  BY <1>10, <1>11, FS_Subset DEF Gone
<1> QED BY <1>15, <1>16, <1>17 DEF Fresh, F, G

LEMMA StoreTaken ==
    ASSUME NEW f \in Nat, NEW g \in Nat, NEW q \in Nat, NEW s \in Nat,
           NEW f1 \in Nat, NEW g1 \in Nat, NEW q1 \in Nat,
           f1 <= f + 1, g1 <= g, q1 + 1 <= q
    PROVE  /\ g + q <= s => g1 + q1 <= s
           /\ \A x \in Nat : f + g + q <= s + x => f1 + g1 + q1 <= s + x
OBVIOUS

(* Between two reads, what stores still in the queue may spoil is paid for *)
(* when they are put on it.                                                *)
LEMMA AmountsStep ==
    ASSUME TypeOK, TypeOK', Held, Ring, Next, ~Request,
           Sure' = Sure, server'.wanted = server.wanted
    PROVE  /\ Gone + Queued <= made.stores => Gone' + Queued' <= made'.stores
           /\ \A x \in Nat : Fresh + Gone + Queued <= made.stores + x =>
                                 Fresh' + Gone' + Queued' <= made'.stores + x
           /\ FreshWanted' <= FreshWanted
           /\ ~HandleStore => Fresh' = Fresh
<1>0. log \in Logs /\ log' \in Logs /\ flashQue' \in Seq(Orders)
  BY DEF TypeOK
<1>1. /\ Queued \in Nat /\ made.stores \in Nat /\ made'.stores \in Nat
      /\ made.stores + Queued' <= made'.stores + Queued
  BY <1>0, QueuedStep
<1>2. Queued' \in Nat
  BY <1>0, StoresFinite DEF Queued
<1>3. Fresh \in Nat /\ FreshWanted \in Nat /\ Gone \in Nat
  BY <1>0, AmountTypes
<1>4. Fresh' \in Nat /\ FreshWanted' \in Nat /\ Gone' \in Nat
  <2>1. (log \in Logs => Fresh \in Nat /\ FreshWanted \in Nat /\ Gone \in Nat)'
    BY AmountTypes, PTL
  <2> QED BY <1>0, <2>1
<1>5. CASE HandleStore
  <2>1. server' = server
    BY <1>5 DEF HandleStore
  <2>2. PICK port \in Ports : log' = Stored(log, port)
    BY <1>5, LogStep
  <2>3. Fresh' <= Fresh + 1 /\ FreshWanted' <= FreshWanted /\ Gone' <= Gone
    BY <1>0, <2>1, <2>2, StoreAmounts
  <2>4. Queued' + 1 <= Queued /\ made'.stores = made.stores
    <3>1. Queued' + 1 <= Queued /\ made' = made
      BY <1>0, <1>5, QueuedStep, Zenon
    <3> QED BY <3>1
  <2> DEFINE f == Fresh   f1 == Fresh'
             g == Gone    g1 == Gone'
             q == Queued  q1 == Queued'
             s == made.stores
  <2>5. /\ f \in Nat /\ g \in Nat /\ q \in Nat /\ s \in Nat /\ f1 \in Nat /\ g1 \in Nat
        /\ q1 \in Nat /\ f1 <= f + 1 /\ g1 <= g /\ q1 + 1 <= q
    BY <1>1, <1>2, <1>3, <1>4, <2>3, <2>4
  <2> HIDE DEF f, f1, g, g1, q, q1, s
  <2>6. /\ g + q <= s => g1 + q1 <= s
        /\ \A x \in Nat : f + g + q <= s + x => f1 + g1 + q1 <= s + x
    BY <2>5, StoreTaken
  <2> QED BY <1>5, <2>3, <2>4, <2>6, Zenon DEF f, f1, g, g1, q, q1, s
<1>6. CASE ~HandleStore
  <2>1. log' = log /\ server'.command = server.command
    BY <1>6, LogStep, ServerStep
  <2>2. Newer(Sure)' = Newer(Sure) /\ Passed(Sure)' = Passed(Sure)
    BY <2>1 DEF Newer, Passed, On, Port, Messages
  <2>3. Fresh' = Fresh /\ FreshWanted' = FreshWanted /\ Gone' = Gone
    BY <2>2 DEF Fresh, FreshWanted, Gone
  <2>4. Gone + Queued <= made.stores => Gone' + Queued' <= made'.stores
    BY <1>1, <1>2, <1>3, <2>3
  <2>5. \A x \in Nat : Fresh + Gone + Queued <= made.stores + x =>
                           Fresh' + Gone' + Queued' <= made'.stores + x
    BY <1>1, <1>2, <1>3, <2>3
  <2>6. FreshWanted' <= FreshWanted
    BY <1>3, <2>3
  <2> QED BY <2>3, <2>4, <2>5, <2>6
<1> QED BY <1>5, <1>6

(* Once it is taken up, what a command wants stays what it was, and so     *)
(* does the port; and what it wants is not given up and got back.          *)
LEMMA WantedStep ==
    ASSUME TypeOK, Held, Ring, Next, ~Request, server'.wanted = server.wanted
    PROVE  /\ OfPort => OfPort'
           /\ Big' => Big
<1>0. log \in Logs /\ server'.command = server.command /\ server.wanted \subseteq 1 .. Len(log.ports)
  BY ServerStep DEF TypeOK, Held
<1>1. Len(log.ports) \in Nat /\ log.first \in Nat /\ log.ports \in Seq(Ports)
  BY <1>0 DEF Logs
<1>2. CASE UNCHANGED log
  BY <1>0, <1>2 DEF OfPort, Port, Big, CountHolds, Messages
<1>3. CASE \E port \in Ports : log' = Stored(log, port)
  <2>1. PICK port \in Ports : log' = Stored(log, port)
    BY <1>3
  <2>2. /\ log'.ports = Append(log.ports, port) /\ Len(log'.ports) = Len(log.ports) + 1
        /\ log.first <= log'.first /\ log' \in Logs
    BY <1>0, <2>1, StoredFacts, RingStored DEF Stored
  <2>3. \A m \in server.wanted : log'.ports[m] = log.ports[m]
    BY <1>0, <1>1, <2>2
  <2>4. OfPort => OfPort'
    BY <1>0, <2>3 DEF OfPort, Port
  <2>5. log'.first \in Nat
    BY <2>2 DEF Logs
  <2>6. server.wanted \subseteq Messages' => server.wanted \subseteq Messages
    <3> SUFFICES ASSUME server.wanted \subseteq Messages', NEW m \in server.wanted
                 PROVE  m \in Messages
      OBVIOUS
    <3>1. m \in 1 .. Len(log.ports) /\ m \in log'.first .. Len(log'.ports)
      BY <1>0 DEF Messages
    <3> QED BY <1>1, <2>2, <2>5, <3>1 DEF Messages
  <2>7. Big' => Big
    BY <2>6 DEF Big, CountHolds
  <2> QED BY <2>4, <2>7
<1> QED BY <1>2, <1>3, LogStep

-----------------------------------------------------------------------------
(* CMD_FLASH_GET_ALL                                                       *)

(* The rest of the command as it stands in flash_que or is being read.     *)
Fits(c) ==
    /\ c.act = "continue" /\ c.port = Port /\ c.n = c.start
    /\ c.start < Cardinality(server.wanted)

(* The correction of the start and of the number never gets to work.       *)
LEMMA BigCount ==
    ASSUME TypeOK, Held, Ring, Big
    PROVE  /\ Count \in Nat /\ Cardinality(server.wanted) \in Nat /\ Batch \in Nat \ {0}
           /\ Cardinality(server.wanted) <= Count + 1 /\ Batch <= Count
<1>0. log \in Logs /\ server.wanted \subseteq 1 .. Len(log.ports) /\ Len(log.ports) \in Nat
  BY Fields DEF Held
<1>1. /\ Count \in Nat /\ Count <= NBlocks * PerBlock
      /\ log.first = 1 \/ Count >= (NBlocks - 1) * PerBlock + 1
  BY <1>0, RingHolds
<1>2. IsFiniteSet(1 .. Len(log.ports)) /\ IsFiniteSet(Messages)
  <2> DEFINE n == Len(log.ports)
  <2>1. n \in Int /\ 1 \in Int
    BY <1>0
  <2> HIDE DEF n
  <2>2. IsFiniteSet(1 .. n)
    BY <2>1, FS_Interval
  <2> QED BY <1>0, <2>2, Finiteness DEF n
<1>3. Cardinality(server.wanted) \in Nat
  BY <1>0, <1>2, FS_Subset, FS_CardinalityType
<1>4. Batch \in Nat \ {0} /\ NBlocks \in Nat /\ PerBlock \in Nat
  BY SizeAssumption
<1>5. Cardinality(server.wanted) <= Count + 1
  <2>1. CASE server.wanted \subseteq Messages
    <3>1. Cardinality(server.wanted) <= Count
      BY <1>2, <2>1, FS_Subset DEF Count
    <3> QED BY <1>1, <1>3, <3>1
  <2>2. CASE log.first = 1
    <3>1. server.wanted \subseteq Messages
      BY <1>0, <2>2 DEF Messages
    <3> QED BY <2>1, <3>1
  <2>3. CASE /\ Count >= (NBlocks - 1) * PerBlock + 1
             /\ Cardinality(server.wanted) <= (NBlocks - 1) * PerBlock + 2
    <3>1. (NBlocks - 1) * PerBlock \in Int
      BY <1>4
    <3> QED BY <1>1, <1>3, <2>3, <3>1
  <2> QED BY <1>1, <2>1, <2>2, <2>3 DEF Big, CountHolds
<1>6. Batch <= Count
  <2>1. Cardinality(server.wanted) > 2 * Batch
    BY DEF Big
  <2> QED BY <1>1, <1>3, <1>4, <1>5, <2>1
<1> QED BY <1>1, <1>3, <1>4, <1>5, <1>6

LEMMA SmallWord ==
    ASSUME NEW a \in Nat, a < Word
    PROVE  a % Word = a
BY WordFacts

LEMMA FitsFacts ==
    ASSUME TypeOK, Held, Ring, Big, NEW c \in Commands, Fits(c),
           NEW got \in Nat, got <= c.start
    PROVE  /\ c.start \in Nat /\ StartFor(c.start) = c.start
           /\ NumberFor(c.start, BatchOf(c)) = Batch /\ Remaining(c) = c.start
           /\ ContinueCommand(c, got).start = c.start - got
           /\ Fits(ContinueCommand(c, got))
<1>1. /\ Count \in Nat /\ Cardinality(server.wanted) \in Nat /\ Batch \in Nat \ {0}
      /\ Cardinality(server.wanted) <= Count + 1 /\ Batch <= Count
  BY BigCount
<1>2. /\ c.act = "continue" /\ c.port = Port /\ c.n = c.start
      /\ c.start < Cardinality(server.wanted)
  BY DEF Fits
<1>3. c.start \in Nat /\ c.start < Word
  BY WordFacts DEF Commands
<1>4. c.start <= Count
  BY <1>1, <1>2, <1>3
<1>5. StartFor(c.start) = c.start
  BY <1>1, <1>3, <1>4 DEF StartFor
<1>6. BatchOf(c) = Batch /\ NumberFor(c.start, Batch) = Batch
  BY <1>1, <1>2 DEF BatchOf, NumberFor
<1>7. Remaining(c) = c.start
  BY <1>1, <1>2, <1>3, <1>4 DEF Remaining
<1>8. c.start - got \in Nat /\ c.start - got < Word
  BY <1>3, WordFacts
<1>9. (c.start - got) % Word = c.start - got
  BY <1>8, SmallWord
<1>10. ContinueCommand(c, got) =
         [act |-> "continue", port |-> Port, start |-> c.start - got, n |-> c.start - got,
          len |-> ContinueLen]
  BY <1>2, <1>7, <1>9 DEF ContinueCommand, Command
<1>11. c.start - got < Cardinality(server.wanted)
  BY <1>1, <1>2, <1>3
<1>12. ContinueCommand(c, got).start = c.start - got /\ Fits(ContinueCommand(c, got))
  BY <1>10, <1>11 DEF Fits
<1> QED BY <1>3, <1>5, <1>6, <1>7, <1>12

(* A CMD_FLASH_GET_ALL that nothing has disturbed waits in flash_que.      *)
Calm == server.command.act = "all" /\ Undisturbed /\ ~history.overwritten

WaitingAll ==
    /\ job = Idle /\ Range(lrQue) \subseteq {Foreign} /\ server.answer = "none" /\ server.sent = {}
    /\ Ids(eventQue) = {} /\ Free(eventQue, Answers)
    /\ Range(flashQue) \cap Asking \subseteq {server.command}
    /\ Once(flashQue, Asking)

(* The rest of it waits there. The next batch reaches up to its start: of  *)
(* what is newer than all the server has, it may pass by no more than was  *)
(* stored meanwhile and is not in the log yet. Its number will come whole. *)
QueuedAll ==
    /\ job = Idle /\ Range(lrQue) \subseteq {Foreign} /\ server.answer = "none"
    /\ Free(eventQue, Answers) /\ Once(flashQue, Asking)
    /\ \A c \in Range(flashQue) \cap Asking :
          /\ Fits(c) /\ Fresh + Gone + Queued <= made.stores + (c.start + Batch)
          /\ upper = c.n \div Half

(* A batch is read.                                                        *)
ReadingAll ==
    /\ job.at \in {"read", "wait"} /\ Fits(job.command)
    /\ Free(flashQue, Asking)
    /\ server.answer = "none" /\ Free(eventQue, Answers)
    /\ Range(lrQue) \subseteq Datas \cup {Foreign}
    /\ Fresh <= job.command.start
    /\ job.got + Cardinality(job.left) \in 1 .. Batch

(* The last batch was read: nothing comes after the answer.                *)
Trailing(que) == \A i, j \in 1 .. Len(que) : que[i] \in Answers /\ i < j => que[j].ids = {}

DoneAll ==
    /\ job = Idle /\ Free(flashQue, Asking) /\ Range(lrQue) \subseteq {Answer(TRUE), Foreign}
    /\ Trailing(eventQue) /\ (server.answer # "none" => Ids(eventQue) = {})
    /\ FreshWanted <= Batch

(* The payload was purged: only the timeout ends the wait for its confirm. *)
Stuck ==
    /\ job.at = "wait" /\ Free(flashQue, {Confirm}) /\ Range(lrQue) \subseteq {Foreign}
    /\ server.answer = "none" /\ Free(eventQue, Answers)

Served ==
    \/ Gone + Queued <= made.stores /\ (QueuedAll \/ ReadingAll \/ DoneAll)
    \/ Failed \/ Stuck

Transfer ==
    Calm => WaitingAll \/ (Free(flashQue, Anew) /\ OfPort /\ (Big => Served))

(* As long as no answer is under way, none arrives.                        *)
LEMMA NoAnswer ==
    ASSUME TypeOK, Held, Next, ~Request, Free(eventQue, Answers),
           Range(lrQue) \subseteq Datas \cup {Foreign}
    PROVE  Free(eventQue', Answers) /\ server'.answer = server.answer
<1>0. eventQue \in Seq(Mails) /\ lrQue \in Seq(Mails) /\ server \in Servers
  BY DEF TypeOK
<1>1. ~Engine => server'.answer = server.answer
  BY ServerStep
<1>2. ASSUME NEW e \in Mails, e \notin Answers, eventQue' = PutEvent(eventQue, e)
      PROVE  Free(eventQue', Answers)
  <2>1. Range(eventQue') \subseteq Range(eventQue) \cup {e}
    BY <1>0, <1>2, PutEventFacts
  <2> QED BY <1>2, <2>1 DEF Free
<1>3. CASE Engine
  <2>1. /\ eventQue' = Tail(eventQue)
        /\ Range(eventQue) = {Head(eventQue)} \cup Range(Tail(eventQue))
        /\ Head(eventQue) \notin Answers => server'.answer = server.answer
    BY <1>3, EngineMoves
  <2>2. Head(eventQue) \notin Answers /\ Free(eventQue', Answers)
    BY <2>1 DEF Free
  <2> QED BY <2>1, <2>2
<1>4. CASE Communication
  <2>1. lrQue # <<>> /\ eventQue' = PutEvent(eventQue, Head(lrQue))
    BY <1>4 DEF Communication
  <2>2. Head(lrQue) \in Mails /\ Head(lrQue) \in Range(lrQue)
    BY <1>0, <2>1, TailFacts
  <2>3. Head(lrQue) \notin Answers
    BY <2>2 DEF Answers, Datas, Foreign
  <2>4. server'.answer = server.answer
    <3>1. server' = [server EXCEPT !.lost = @ \cup Displaced]
      BY <1>4 DEF Communication
    <3> QED BY <1>0, <3>1 DEF Servers
  <2> QED BY <1>2, <2>1, <2>2, <2>3, <2>4
<1>5. CASE CallEngine
  <2>1. eventQue' = PutEvent(eventQue, Foreign)
        /\ server' = [server EXCEPT !.lost = @ \cup Displaced]
    BY <1>5 DEF CallEngine
  <2>2. Foreign \in Mails /\ Foreign \notin Answers
    BY MailTypes DEF Foreign, Answers
  <2>3. server'.answer = server.answer
    BY <1>0, <2>1 DEF Servers
  <2> QED BY <1>2, <2>1, <2>2, <2>3
<1>6. CASE ~Engine /\ ~Communication /\ ~CallEngine
  <2>1. eventQue' = eventQue
    BY <1>6 DEF Next, FlashThread, HandleStore, IgnoreConfirm, HandleGetAll, HandleGetFromHead,
       HandleContinue, StopReading, ReadMessage, ReadMessageIntoNext, EndOfBlock, SendPayload,
       AwaitConfirm, FinishBatch, AwaitTimeout, Request, Store, Other, SendOther
  <2> QED BY <1>1, <1>6, <2>1
<1> QED BY <1>3, <1>4, <1>5, <1>6

(* Bytes 12 and 13 are overwritten by a long message, and once they were   *)
(* while a CONTINUE waited, that is not forgotten.                         *)
LEMMA OverwrittenBefore ==
    ASSUME TypeOK, Next, ~history'.overwritten
    PROVE  ~history.overwritten
<1>0. history \in Histories
  BY DEF TypeOK
<1>1. \/ history' = history
      \/ \E now : history' = [history EXCEPT !.dropped = @ \/ now]
      \/ \E now : history' = [history EXCEPT !.overwritten = @ \/ now]
  BY DEF Next, FlashThread, HandleStore, IgnoreConfirm, HandleGetAll, HandleGetFromHead,
     HandleContinue, StopReading, ReadMessage, ReadMessageIntoNext, EndOfBlock, SendPayload,
     AwaitConfirm, FinishBatch, AwaitTimeout, Request, Store, Other, SendOther, CallEngine,
     Communication, Engine, Drops
<1> QED BY <1>0, <1>1 DEF Histories

LEMMA UpperKept ==
    ASSUME TypeOK, TypeOK', Next, ~Request, HandleStore \/ IgnoreConfirm \/ Store,
           ~history'.overwritten, NEW c \in Range(flashQue), c.act = "continue"
    PROVE  upper' = upper
<1>1. CASE HandleStore
  <2>1. /\ history' = [history EXCEPT !.overwritten = @ \/ Overwrites(Incoming)]
        /\ upper' = UpperAfter(Incoming) /\ Serves("store")
    BY <1>1 DEF HandleStore
  <2>2. history \in Histories
    BY DEF TypeOK
  <2>3. ~Overwrites(Incoming)
    BY <2>1, <2>2 DEF Histories
  <2>4. Range(flashQue) = {flashQue[i] : i \in 1 .. Len(flashQue)}
    BY RangeEquality DEF TypeOK
  <2>5. Incoming.len # NumberEnd
    BY <2>3, <2>4 DEF Overwrites
  <2>6. Incoming.len \in Lens
    BY <2>1, ServedFacts DEF Commands
  <2>7. Incoming.len < NumberEnd
    BY <2>5, <2>6 DEF Lens, ContinueLen, NumberEnd
  <2> QED BY <2>1, <2>7 DEF UpperAfter
<1>2. CASE IgnoreConfirm \/ Store
  BY <1>2 DEF IgnoreConfirm, Store
<1> QED BY <1>1, <1>2

(* The rest of the command waits, is put back, fails, or its next batch is *)
(* read.                                                                   *)
LEMMA QueuedAllStep ==
    ASSUME TypeOK, TypeOK', Held, Ring, Next, ~Request, Undisturbed',
           ~history'.overwritten,
           Free(flashQue, Anew), OfPort, Big, Gone + Queued <= made.stores, QueuedAll
    PROVE  Served'
<1>0. /\ flashQue \in Seq(Orders) /\ lrQue \in Seq(Mails) /\ log \in Logs
      /\ server.wanted \subseteq 1 .. Len(log.ports)
  BY DEF TypeOK, Held
<1>1. /\ job = Idle /\ Range(lrQue) \subseteq {Foreign} /\ server.answer = "none"
      /\ Free(eventQue, Answers) /\ Once(flashQue, Asking)
  BY DEF QueuedAll
<1>2. \A c \in Range(flashQue) \cap Asking :
         /\ Fits(c) /\ Fresh + Gone + Queued <= made.stores + (c.start + Batch)
         /\ upper = c.n \div Half
  BY DEF QueuedAll
<1>3. /\ ~HandleGetAll /\ ~HandleGetFromHead
      /\ server'.command = server.command /\ server'.wanted = server.wanted
  BY AnewFree, ServerStep
<1>4. \A c : Fits(c) => Fits(c)'
  BY <1>3 DEF Fits, Port
<1>5. job.at # "read" /\ (SendOther => Ids(lrQue') = Ids(lrQue) /\ Range(lrQue') \subseteq {Foreign})
  <2>1. ASSUME SendOther PROVE Ids(lrQue') = Ids(lrQue) /\ Range(lrQue') \subseteq {Foreign}
    <3>1. lrQue' = PutMessage(lrQue, LrQueMax, Foreign)
      BY <2>1 DEF SendOther
    <3>2. Foreign \in Mails /\ Foreign.ids = {}
      BY MailTypes DEF Foreign
    <3> QED BY <1>0, <1>1, <3>1, <3>2, PutOnForeign
  <2> QED BY <1>1, <2>1 DEF Idle
<1>6. Free(eventQue', Answers) /\ server'.answer = "none"
  BY <1>1, NoAnswer
<1>7. Batch \in Nat /\ \A c \in Asking : c.start \in Nat
  BY SizeAssumption, WordFacts DEF Asking, Commands
<1>8. ASSUME job' = job, Range(lrQue') \subseteq {Foreign}, ~HandleContinue,
             Once(flashQue', Asking), Range(flashQue') \cap Asking \subseteq Range(flashQue),
             \A c \in Range(flashQue) : c.act = "continue" => upper' = upper
      PROVE  Served'
  <2>1. Sure' = Sure
    BY <1>3, <1>5, <1>8, SureStep
  <2>2. /\ Gone' + Queued' <= made'.stores
        /\ \A x \in Nat : Fresh + Gone + Queued <= made.stores + x =>
                              Fresh' + Gone' + Queued' <= made'.stores + x
    BY <1>3, <2>1, AmountsStep
  <2>3. ASSUME NEW c \in Range(flashQue') \cap Asking
        PROVE  /\ Fits(c)' /\ Fresh' + Gone' + Queued' <= made'.stores + (c.start + Batch)
               /\ upper' = c.n \div Half
    <3>1. c \in Range(flashQue) \cap Asking
      BY <1>8
    <3>2. c.start + Batch \in Nat
      BY <1>7
    <3>3. Fits(c) /\ upper = c.n \div Half
      BY <1>2, <3>1
    <3>4. upper' = upper
      BY <1>8, <3>1, <3>3 DEF Fits
    <3> QED BY <1>2, <1>4, <2>2, <3>1, <3>2, <3>3, <3>4
  <2>4. QueuedAll'
    BY <1>1, <1>6, <1>8, <2>3 DEF QueuedAll
  <2> QED BY <2>2, <2>4 DEF Served
<1>9. CASE ~HandleContinue /\ (HandleStore \/ IgnoreConfirm \/ Store)
  <2>1. UNCHANGED <<lrQue, job>>
    BY <1>9 DEF HandleStore, IgnoreConfirm, Store
  <2>2. \A c \in Range(flashQue) : c.act = "continue" => upper' = upper
    BY <1>9, UpperKept
  <2>3. Once(flashQue', Asking) /\ Range(flashQue') \cap Asking \subseteq Range(flashQue)
    BY <1>1, <1>9, QuietSteps
  <2> QED BY <1>1, <1>8, <1>9, <2>1, <2>2, <2>3
<1>10. CASE ~HandleContinue /\ (Engine \/ Communication \/ Other)
  <2>1. UNCHANGED <<upper, job>>
    BY <1>10 DEF Engine, Communication, Other, SendOther, CallEngine
  <2>2. CASE Engine \/ CallEngine
    <3>1. UNCHANGED <<flashQue, lrQue>>
      BY <2>2 DEF Engine, CallEngine
    <3> QED BY <1>1, <1>8, <1>10, <2>1, <2>2, <3>1
  <2>3. CASE SendOther
    <3>1. flashQue' = flashQue
      BY <2>3 DEF SendOther
    <3> QED BY <1>1, <1>5, <1>8, <1>10, <2>1, <2>3, <3>1
  <2>4. CASE Communication
    <3>1. lrQue # <<>> /\ lrQue' = Tail(lrQue)
      BY <2>4 DEF Communication
    <3>2. Range(lrQue') \subseteq {Foreign}
      BY <1>0, <1>1, <3>1, TailFacts
    <3>3. Once(flashQue', Asking) /\ Range(flashQue') \cap Asking \subseteq Range(flashQue)
      BY <1>1, <2>4, QuietSteps
    <3> QED BY <1>8, <1>10, <2>1, <2>4, <3>2, <3>3
  <2> QED BY <1>10, <2>2, <2>3, <2>4 DEF Other
<1>11. CASE HandleContinue
  <2> DEFINE c == Incoming
  <2>1. /\ Serves("continue") /\ BeginRead(Received(c))
        /\ UNCHANGED <<log, eventQue, server, made>>
    BY <1>11 DEF HandleContinue
  <2>2. /\ flashQue # <<>> /\ c \in Commands /\ c \in Orders /\ c.act = "continue"
        /\ Tail(flashQue) \in Seq(Orders)
        /\ Range(flashQue) = {c} \cup Range(Tail(flashQue))
    BY <2>1, ServedFacts
  <2>3. c \in Range(flashQue) \cap Asking
    BY <2>2 DEF Asking
  <2>4. Free(Tail(flashQue), Asking)
    BY <1>0, <1>1, <2>2, <2>3, OnceTail DEF Incoming
  <2> HIDE DEF c
  <2>5. Fits(c) /\ Fresh + Gone + Queued <= made.stores + (c.start + Batch)
    BY <1>2, <2>3
  <2>10. BeginRead(c)
    <3>1. upper = c.n \div Half
      BY <1>2, <2>3
    <3>2. Received(c) = c
      BY <2>2, <3>1, ReceivedFacts DEF TypeOK
    <3> QED BY <2>1, <3>2
  <2>6. /\ c.start \in Nat /\ StartFor(c.start) = c.start
        /\ NumberFor(c.start, BatchOf(c)) = Batch
        /\ ContinueCommand(c, 0).start = c.start - 0 /\ Fits(ContinueCommand(c, 0))
    <3>1. c.start \in Nat
      BY <1>7, <2>3
    <3>2. 0 \in Nat /\ 0 <= c.start
      BY <3>1
    <3> QED BY <2>2, <2>5, <3>2, FitsFacts
  <2>7. CASE Busy /\ ComeBack(c) /\ UNCHANGED <<lrQue, job>>
    <3> DEFINE d == ContinueCommand(c, 0)
    <3>1. d \in Orders
      BY <1>0, <2>2, ContinueType
    <3>2. Once(Tail(flashQue), Asking)
      BY <1>0, <1>1, <2>2, OnceTail
    <3>3. flashQue' = PutMessage(Tail(flashQue), FlashQueMax, d) /\ upper' = d.n \div Half
      BY <2>7 DEF ComeBack, PutContinue, PutFlash
    <3>4. Fits(d) /\ d.start = c.start
      BY <2>6
    <3> HIDE DEF d
    <3>5. Once(flashQue', Asking)
      BY <2>2, <2>4, <3>1, <3>2, <3>3, OncePut
    <3>6. Range(flashQue') \subseteq Range(Tail(flashQue)) \cup {d}
      BY <2>2, <3>1, <3>3, PutFacts, Sizes
    <3>7. Range(flashQue') \cap Asking \subseteq {d}
      BY <2>4, <3>6 DEF Free
    <3>8. Sure' = Sure
      BY <1>3, <1>5, <2>7, SureStep
    <3>9. /\ Gone' + Queued' <= made'.stores
          /\ \A x \in Nat : Fresh + Gone + Queued <= made.stores + x =>
                                Fresh' + Gone' + Queued' <= made'.stores + x
      BY <1>3, <3>8, AmountsStep
    <3>10. ASSUME NEW e \in Range(flashQue') \cap Asking
           PROVE  /\ Fits(e)' /\ Fresh' + Gone' + Queued' <= made'.stores + (e.start + Batch)
                  /\ upper' = e.n \div Half
      <4>1. e = d
        BY <3>7
      <4>2. Fits(e) /\ e.start = c.start
        BY <3>4, <4>1
      <4>3. c.start + Batch \in Nat
        BY <1>7, <2>6
      <4>4. Fresh' + Gone' + Queued' <= made'.stores + (c.start + Batch)
        BY <2>5, <3>9, <4>3
      <4> QED BY <1>4, <3>3, <4>1, <4>2, <4>4
    <3>11. QueuedAll'
      BY <1>1, <1>6, <2>7, <3>5, <3>10 DEF QueuedAll
    <3> QED BY <3>9, <3>11 DEF Served
  <2>8. CASE /\ lrQue' = PutMessage(lrQue, LrQueMax, Answer(FALSE))
             /\ flashQue' = Tail(flashQue) /\ UNCHANGED job
    <3>1. Answer(FALSE) \in Mails /\ Answer(FALSE) \notin Yes
      BY MailTypes DEF Yes, Answer
    <3>2. Free(lrQue, Yes) /\ Free(eventQue', Yes)
      BY <1>1, <1>6 DEF Free, Yes, Answers, Foreign
    <3>3. Free(lrQue', Yes)
      BY <1>0, <2>8, <3>1, <3>2, FreeFacts, Sizes
    <3>4. Failed'
      BY <1>1, <1>6, <2>4, <2>8, <3>2, <3>3 DEF Failed
    <3> QED BY <3>4 DEF Served
  <2>9. CASE /\ StartFor(c.start) < Cardinality(On(c.port)) /\ job' = Reading(c)
             /\ flashQue' = Tail(flashQue) /\ UNCHANGED lrQue
    <3> DEFINE V == Window(Port, c.start, Batch)
               S == Sure
    <3>1. /\ job'.at = "read" /\ job'.command = c /\ job'.payload = {} /\ job'.got = 0
          /\ job'.left = V
      <4>1. c.port = Port
        BY <2>5 DEF Fits
      <4> QED BY <2>6, <2>9, <4>1 DEF Reading
    <3>2. Sure' = S \cup V
      <4>1. job.left = {} /\ job.payload = {} /\ Ids(lrQue) = {}
        BY <1>1, NoIds DEF Idle
      <4>2. Ids(lrQue') = {} /\ Ids(eventQue') = Ids(eventQue) /\ server'.sent = server.sent
        BY <2>1, <2>9, <4>1 DEF Ids
      <4> HIDE DEF V
      <4> QED BY <3>1, <4>1, <4>2 DEF Sure
    <3>3. S \subseteq Nat
      <4>1. /\ server.sent \subseteq Nat /\ job.payload \subseteq Nat /\ job.left \subseteq Nat
        BY Fields
      <4>2. \A m \in Mails : m.ids \subseteq Nat
        BY DEF Mails
      <4>3. \A m \in Range(eventQue) \cup Range(lrQue) : m \in Mails
        <5>1. eventQue \in Seq(Mails) /\ lrQue \in Seq(Mails)
          BY DEF TypeOK
        <5>2. /\ Range(eventQue) = {eventQue[i] : i \in 1 .. Len(eventQue)}
              /\ Range(lrQue) = {lrQue[i] : i \in 1 .. Len(lrQue)}
          BY <5>1, RangeEquality
        <5> QED BY <5>1, <5>2
      <4> QED BY <4>1, <4>2, <4>3 DEF Sure, Ids
    <3>4. c.start < Cardinality(On(Port))
      BY <2>5, <2>6, <2>9 DEF Fits
    <3>5. Batch \in Nat \ {0}
      BY SizeAssumption
    <3> HIDE DEF S
    <3>6. /\ IsFiniteSet(V) /\ Cardinality(V) \in 1 .. Batch
          /\ Cardinality(Newer(S \cup V)) <= c.start
          /\ \/ Cardinality(Passed(S \cup V)) <= Cardinality(Passed(S))
             \/ Cardinality(Passed(S \cup V)) + c.start + Batch
                  <= Cardinality(Passed(S)) + Cardinality(Newer(S))
      BY <1>0, <2>6, <3>3, <3>4, <3>5, ReadingReaches
    <3> HIDE DEF V
    <3>7. Newer(Sure)' = Newer(S \cup V) /\ Passed(Sure)' = Passed(S \cup V)
      BY <2>1, <3>2 DEF Newer, Passed, On, Port, Messages
    <3> DEFINE f == Cardinality(Newer(S))   f1 == Cardinality(Newer(S \cup V))
               g == Cardinality(Passed(S))  g1 == Cardinality(Passed(S \cup V))
               q == Queued  q1 == Queued'  s == made.stores  a == c.start
    <3>8. f = Fresh /\ g = Gone /\ f1 = Fresh' /\ g1 = Gone' /\ made'.stores = s
      BY <2>1, <3>7 DEF Fresh, Gone, S
    <3>9. f \in Nat /\ f1 \in Nat /\ g \in Nat /\ g1 \in Nat
      BY <1>0, Amounts
    <3>10. q \in Nat /\ q1 \in Nat /\ s \in Nat /\ q1 <= q
      <4>1. /\ Queued \in Nat /\ made.stores \in Nat /\ made'.stores \in Nat
            /\ made.stores + Queued' <= made'.stores + Queued
        BY QueuedStep DEF TypeOK
      <4>2. Queued' \in Nat
        BY StoresFinite DEF Queued, TypeOK
      <4> QED BY <3>8, <4>1, <4>2
    <3>11. f + g + q <= s + (a + Batch) /\ g + q <= s /\ a \in Nat
      BY <2>5, <2>6, <3>8
    <3> HIDE DEF f, f1, g, g1, q, q1, s, a
    <3>12. f1 <= a /\ (g1 <= g \/ g1 + a + Batch <= g + f)
      BY <3>6 DEF f, f1, g, g1, a
    <3>13. g1 + q1 <= s
      BY <3>5, <3>9, <3>10, <3>11, <3>12
    <3>14. Gone' + Queued' <= made'.stores /\ Fresh' <= job'.command.start
      BY <3>1, <3>8, <3>12, <3>13 DEF q1, a
    <3>15. job'.got + Cardinality(job'.left) \in 1 .. Batch
      BY <3>1, <3>5, <3>6
    <3>16. Range(lrQue') \subseteq Datas \cup {Foreign} /\ Fits(job.command)'
      <4>1. Fits(job.command)'
        BY <2>1, <2>5, <3>1 DEF Fits, Port
      <4>2. lrQue' = lrQue
        BY <2>9
      <4> QED BY <1>1, <4>1, <4>2
    <3>17. ReadingAll'
      BY <1>6, <2>4, <2>9, <3>1, <3>14, <3>15, <3>16 DEF ReadingAll
    <3> QED BY <3>14, <3>17 DEF Served
  <2> QED BY <2>7, <2>8, <2>9, <2>10 DEF BeginRead
<1> QED BY <1>1, <1>3, <1>9, <1>10, <1>11, IdleSteps

(* A batch is read on, or it is done and the rest of the command follows,  *)
(* or the answer.                                                          *)
LEMMA ReadingAllStep ==
    ASSUME TypeOK, TypeOK', Held, Ring, OneUnderWay, Next, ~Request, Undisturbed',
           Big, Gone + Queued <= made.stores, ReadingAll
    PROVE  Served'
<1>0. /\ flashQue \in Seq(Orders) /\ lrQue \in Seq(Mails) /\ eventQue \in Seq(Mails)
      /\ log \in Logs /\ job \in Jobs /\ job.left \subseteq 1 .. Len(log.ports)
      /\ job.payload \in SUBSET Nat /\ job.command \in Commands
  BY Fields DEF TypeOK, Held
<1>1. /\ job.at \in {"read", "wait"} /\ Fits(job.command) /\ Free(flashQue, Asking)
      /\ server.answer = "none" /\ Free(eventQue, Answers)
      /\ Range(lrQue) \subseteq Datas \cup {Foreign} /\ Foreign \in Mails /\ Foreign.ids = {}
      /\ Fresh <= job.command.start /\ job.got + Cardinality(job.left) \in 1 .. Batch
  BY MailTypes DEF ReadingAll, Foreign
<1>2. /\ ~HandleGetAll /\ ~HandleGetFromHead /\ ~HandleContinue /\ ~HandleStore
      /\ ~StopReading /\ ~AwaitTimeout /\ ~server.late /\ server'.lost = {}
  <2>1. ~HandleStore
    BY <1>1 DEF HandleStore, Serves
  <2> QED BY <1>1, <2>1, NothingAsked, UndisturbedBefore
<1>3. server'.command = server.command /\ server'.wanted = server.wanted
  BY <1>2, ServerStep
<1>4. job.at = "read" => Range(lrQue) \subseteq {Foreign}
  BY <1>1, <1>2 DEF OneUnderWay, NoneUnderWay, Free
<1>5. Free(eventQue', Answers) /\ server'.answer = "none"
  BY <1>1, NoAnswer
<1>6. ASSUME SendOther => Ids(lrQue') = Ids(lrQue)
      PROVE  Sure' = Sure
  BY <1>2, <1>4, <1>6, SureStep
<1>7. ASSUME Sure' = Sure
      PROVE  /\ Gone' + Queued' <= made'.stores /\ Fresh' = Fresh
             /\ log \in Logs => Fresh \in Nat /\ FreshWanted \in Nat /\ FreshWanted <= Fresh
  BY <1>2, <1>3, <1>7, AmountsStep, AmountTypes
<1>8. ASSUME job'.at \in {"read", "wait"}, job'.command = job.command,
             job'.got + Cardinality(job'.left) = job.got + Cardinality(job.left),
             Free(flashQue', Asking), Range(lrQue') \subseteq Datas \cup {Foreign},
             SendOther => Ids(lrQue') = Ids(lrQue)
      PROVE  Served'
  <2>5. Sure' = Sure
    BY <1>6, <1>8
  <2>1. Fits(job.command)'
    BY <1>1, <1>3, <1>8 DEF Fits, Port
  <2>2. Fresh' <= job'.command.start
    BY <1>1, <1>7, <1>8, <2>5
  <2>3. job'.got + Cardinality(job'.left) \in 1 .. Batch
    BY <1>1, <1>8
  <2>4. ReadingAll'
    BY <1>5, <1>8, <2>1, <2>2, <2>3 DEF ReadingAll
  <2> QED BY <1>7, <2>4, <2>5 DEF Served
<1>16. CASE SendOther
  <2>1. /\ UNCHANGED <<flashQue, job>> /\ lrQue' = PutMessage(lrQue, LrQueMax, Foreign)
    BY <1>16 DEF SendOther
  <2>2. Range(lrQue') \subseteq Datas \cup {Foreign}
    <3>1. Range(lrQue') \subseteq Range(lrQue) \cup {Foreign}
      BY <1>0, <1>1, <2>1, PutFacts, Sizes
    <3> QED BY <1>1, <3>1
  <2>3. CASE Len(lrQue) < LrQueMax
    <3>1. lrQue' = Append(lrQue, Foreign)
      BY <2>1, <2>3 DEF PutMessage
    <3>2. Range(lrQue') = {Foreign} \cup Range(lrQue)
      BY <1>0, <1>1, <3>1, AppendFacts
    <3>3. Ids(lrQue') = Ids(lrQue)
      BY <1>1, <3>2 DEF Ids
    <3> QED BY <1>1, <1>8, <2>1, <2>2, <3>3
  <2>4. CASE Free(lrQue, Datas)
    <3>1. Range(lrQue) \subseteq {Foreign}
      BY <1>1, <2>4 DEF Free
    <3>2. Ids(lrQue') = Ids(lrQue)
      BY <1>0, <1>1, <2>1, <3>1, PutOnForeign
    <3> QED BY <1>1, <1>8, <2>1, <2>2, <3>2
  <2>5. CASE ~(Len(lrQue) < LrQueMax) /\ ~Free(lrQue, Datas)
    <3>1. lrQue' = <<Foreign>>
      BY <2>1, <2>5 DEF PutMessage
    <3>2. Range(lrQue') \subseteq {Foreign}
      BY <1>1, <3>1, SingleFacts
    <3>3. job.at = "wait" /\ Free(flashQue, {Confirm})
      BY <1>2, <2>5 DEF OneUnderWay, NoneUnderWay
    <3>4. Stuck'
      BY <1>5, <2>1, <3>2, <3>3 DEF Stuck
    <3> QED BY <3>4 DEF Served
  <2> QED BY <2>3, <2>4, <2>5
<1>9. CASE ReadMessage /\ ~SendOther
  <2>1. /\ job.left # {} /\ job' = Taken("read", job.payload) /\ UNCHANGED <<flashQue, lrQue>>
    BY <1>9 DEF ReadMessage, NextMessage
  <2>2. /\ job'.at = "read" /\ job'.command = job.command
        /\ job'.got + Cardinality(job'.left) = job.got + Cardinality(job.left)
    BY <1>0, <2>1, TakenFacts
  <2> QED BY <1>1, <1>8, <1>9, <2>1, <2>2
<1>10. CASE (ReadMessageIntoNext \/ EndOfBlock) /\ ~SendOther
  <2>1. /\ job.at = "read" /\ lrQue' = PutMessage(lrQue, LrQueMax, Payload(job.payload))
        /\ flashQue' = flashQue
    BY <1>10 DEF ReadMessageIntoNext, EndOfBlock, SendPayload, NextMessage
  <2>2. Payload(job.payload) \in Mails /\ Payload(job.payload) \in Datas
    BY <1>0, MailTypes, MailKinds
  <2>3. Range(lrQue') \subseteq Datas \cup {Foreign}
    <3>1. Range(lrQue') \subseteq {Foreign, Payload(job.payload)}
      BY <1>0, <1>4, <2>1, <2>2, PutOnForeign
    <3> QED BY <2>2, <3>1
  <2>4. /\ job'.at = "wait" /\ job'.command = job.command
        /\ job'.got + Cardinality(job'.left) = job.got + Cardinality(job.left)
    <3>1. CASE ReadMessageIntoNext
      <4>1. job.left # {} /\ job' = Taken("wait", {})
        BY <3>1 DEF ReadMessageIntoNext, NextMessage
      <4> QED BY <1>0, <4>1, TakenFacts
    <3>2. CASE EndOfBlock
      <4>1. job' = [job EXCEPT !.at = "wait", !.payload = {}]
        BY <3>2 DEF EndOfBlock
      <4> QED BY <1>0, <4>1 DEF Jobs
    <3> QED BY <1>10, <3>1, <3>2
  <2> QED BY <1>1, <1>8, <1>10, <2>1, <2>3, <2>4
<1>11. CASE AwaitConfirm /\ ~SendOther
  <2>1. job' = [job EXCEPT !.at = Resumes(Incoming)] /\ lrQue' = lrQue
    BY <1>11 DEF AwaitConfirm
  <2>2. Resumes(Incoming) \in {"read", "wait"}
    BY DEF Resumes
  <2>3. /\ job'.at \in {"read", "wait"} /\ job'.command = job.command
        /\ job'.got = job.got /\ job'.left = job.left
    BY <1>0, <2>1, <2>2 DEF Jobs
  <2>4. Free(flashQue', Asking)
    BY <1>1, <1>11, QuietSteps
  <2> QED BY <1>1, <1>8, <1>11, <2>1, <2>3, <2>4
<1>12. CASE Communication /\ ~SendOther
  <2>1. job' = job /\ lrQue # <<>> /\ lrQue' = Tail(lrQue)
    BY <1>12 DEF Communication
  <2>2. Range(lrQue') \subseteq Datas \cup {Foreign}
    BY <1>0, <1>1, <2>1, TailFacts
  <2>3. Free(flashQue', Asking)
    BY <1>1, <1>12, QuietSteps
  <2> QED BY <1>1, <1>8, <1>12, <2>1, <2>2, <2>3
<1>13. CASE Store /\ ~SendOther
  <2>1. UNCHANGED <<job, lrQue>>
    BY <1>13 DEF Store
  <2>2. Free(flashQue', Asking)
    BY <1>1, <1>13, QuietSteps
  <2> QED BY <1>1, <1>8, <1>13, <2>1, <2>2
<1>14. CASE (Engine \/ CallEngine) /\ ~SendOther
  <2>1. UNCHANGED <<job, lrQue, flashQue>>
    BY <1>14 DEF Engine, CallEngine
  <2> QED BY <1>1, <1>8, <1>14, <2>1
<1>15. CASE FinishBatch /\ ~SendOther
  <2> DEFINE c == job.command
             got == job.got
             d == ContinueCommand(c, got)
  <2>1. /\ job.at = "read" /\ job.left = {} /\ job' = Idle
        /\ UNCHANGED eventQue
        /\ IF got > 0 /\ got < Remaining(c)
           THEN PutContinue(flashQue, d) /\ UNCHANGED lrQue
           ELSE /\ lrQue' = PutMessage(lrQue, LrQueMax, Answer(TRUE))
                /\ UNCHANGED <<flashQue, upper>>
    BY <1>15 DEF FinishBatch
  <2>9. Sure' = Sure
    BY <1>6, <1>15
  <2>2. got \in 1 .. Batch /\ Batch \in Nat /\ got \in Nat
    <3>1. Cardinality(job.left) = 0
      BY <2>1, FS_EmptySet
    <3>2. got \in Nat /\ Batch \in Nat
      BY <1>0, SizeAssumption DEF Jobs
    <3> QED BY <1>1, <3>1, <3>2
  <2>3. c.start \in Nat
    BY <1>0, WordFacts DEF Commands
  <2>4. Fits(c)
    BY <1>1
  <2>5. Remaining(c) = c.start
    <3>1. 0 \in Nat /\ 0 <= c.start
      BY <2>3
    <3> QED BY <1>0, <2>4, <3>1, FitsFacts
  <2>6. Fresh' <= c.start /\ FreshWanted' <= Fresh' /\ Fresh' \in Nat /\ FreshWanted' \in Nat
    <3>1. FreshWanted' <= FreshWanted
      BY <1>2, <1>3, <2>9, AmountsStep
    <3>2. FreshWanted' \in Nat
      <4>1. (log \in Logs => FreshWanted \in Nat)'
        BY AmountTypes, PTL
      <4> QED BY <4>1 DEF TypeOK
    <3> QED BY <1>0, <1>1, <1>7, <2>3, <2>9, <3>1, <3>2
  <2>7. CASE got < c.start
    <3>1. flashQue' = PutFlash(flashQue, d) /\ upper' = d.n \div Half /\ UNCHANGED lrQue
      <4>1. got > 0 /\ got < Remaining(c)
        BY <2>2, <2>5, <2>7
      <4>2. PutContinue(flashQue, d) /\ UNCHANGED lrQue
        BY <2>1, <4>1, Zenon
      <4> QED BY <4>2 DEF PutContinue
    <3>2. Fits(d) /\ d.start = c.start - got
      BY <1>0, <2>2, <2>3, <2>4, <2>7, FitsFacts
    <3>3. d \in Orders
      BY <1>0, <2>2, ContinueType
    <3> HIDE DEF d
    <3>4. Once(flashQue, Asking)
      BY <1>0, <1>1, OnceFree
    <3>5. Once(flashQue', Asking)
      BY <1>0, <1>1, <3>1, <3>3, <3>4, OncePut DEF PutFlash
    <3>6. Range(flashQue') \cap Asking \subseteq {d}
      <4>1. Range(flashQue') \subseteq Range(flashQue) \cup {d}
        BY <1>0, <3>1, <3>3, PutFlashFacts
      <4> QED BY <1>1, <4>1 DEF Free
    <3>7. Fresh' + Gone' + Queued' <= made'.stores + (d.start + Batch)
      <4> DEFINE f1 == Fresh'  g1 == Gone'  q1 == Queued'  s1 == made'.stores
                 e == d.start  a == c.start
      <4>1. f1 \in Nat /\ f1 <= a /\ g1 + q1 <= s1 /\ e = a - got /\ got <= Batch /\ a \in Nat
        BY <1>7, <2>2, <2>3, <2>6, <2>9, <3>2
      <4>2. g1 \in Nat /\ q1 \in Nat /\ s1 \in Nat
        <5>1. (log \in Logs => Gone \in Nat)'
          BY AmountTypes, PTL
        <5>2. made'.stores \in Nat
          BY QueuedStep DEF TypeOK
        <5> QED BY <5>1, <5>2, StoresFinite DEF TypeOK, Queued
      <4> HIDE DEF f1, g1, q1, s1, e, a, got
      <4>3. f1 + g1 + q1 <= s1 + (e + Batch)
        BY <2>2, <4>1, <4>2
      <4> QED BY <4>3 DEF f1, g1, q1, s1, e
    <3>8. ASSUME NEW k \in Range(flashQue') \cap Asking
          PROVE  /\ Fits(k)' /\ Fresh' + Gone' + Queued' <= made'.stores + (k.start + Batch)
                 /\ upper' = k.n \div Half
      <4>1. k = d
        BY <3>6
      <4>2. Fits(k)
        BY <3>2, <4>1
      <4>3. Fits(k)'
        BY <1>3, <4>2 DEF Fits, Port
      <4> QED BY <3>1, <3>7, <4>1, <4>3
    <3>9. Range(lrQue') \subseteq {Foreign}
      BY <1>4, <2>1, <3>1
    <3>10. QueuedAll'
      BY <1>5, <2>1, <3>5, <3>8, <3>9 DEF QueuedAll
    <3> QED BY <1>7, <2>9, <3>10 DEF Served
  <2>8. CASE ~(got < c.start)
    <3>1. lrQue' = PutMessage(lrQue, LrQueMax, Answer(TRUE)) /\ UNCHANGED flashQue
      BY <2>1, <2>5, <2>8
    <3>2. Answer(TRUE) \in Mails
      BY MailTypes
    <3>3. Range(lrQue') \subseteq {Answer(TRUE), Foreign}
      BY <1>0, <1>4, <2>1, <3>1, <3>2, PutOnForeign
    <3>4. Trailing(eventQue')
      <4>1. Range(eventQue) = {eventQue[i] : i \in 1 .. Len(eventQue)}
        BY <1>0, RangeEquality
      <4>2. \A i \in 1 .. Len(eventQue) : eventQue[i] \notin Answers
        BY <1>1, <4>1 DEF Free
      <4> QED BY <2>1, <4>2 DEF Trailing
    <3>5. FreshWanted' <= Batch
      BY <2>2, <2>3, <2>6, <2>8
    <3>6. DoneAll'
      BY <1>1, <1>5, <2>1, <3>1, <3>3, <3>4, <3>5 DEF DoneAll
    <3> QED BY <1>7, <2>9, <3>6 DEF Served
  <2> QED BY <2>7, <2>8
<1> QED
  BY <1>1, <1>2, <1>9, <1>10, <1>11, <1>12, <1>13, <1>14, <1>15, <1>16, ReadSteps DEF Other

LEMMA TrailingTail ==
    ASSUME NEW que \in Seq(Mails), que # <<>>, Trailing(que)
    PROVE  Trailing(Tail(que)) /\ (Head(que) \in Answers => Ids(Tail(que)) = {})
<1>1. /\ Tail(que) \in Seq(Mails) /\ Len(Tail(que)) = Len(que) - 1 /\ Head(que) = que[1]
      /\ \A i \in 1 .. Len(Tail(que)) : Tail(que)[i] = que[i + 1]
  BY HeadTailProperties
<1>2. Len(que) \in Nat /\ Len(que) >= 1
  BY <1>1
<1>3. \A i \in 1 .. Len(Tail(que)) : i \in Nat /\ i + 1 \in 1 .. Len(que) /\ 1 < i + 1
  BY <1>1, <1>2
<1>4. Trailing(Tail(que))
  <2> SUFFICES ASSUME NEW i \in 1 .. Len(Tail(que)), NEW j \in 1 .. Len(Tail(que)),
                      Tail(que)[i] \in Answers, i < j
               PROVE  Tail(que)[j].ids = {}
    BY DEF Trailing
  <2>1. i + 1 < j + 1
    BY <1>3
  <2> QED BY <1>1, <1>3, <2>1 DEF Trailing
<1>5. ASSUME Head(que) \in Answers PROVE Ids(Tail(que)) = {}
  <2>1. Range(Tail(que)) = {Tail(que)[i] : i \in 1 .. Len(Tail(que))}
    BY <1>1, RangeEquality
  <2>2. 1 \in 1 .. Len(que)
    BY <1>2
  <2>3. \A i \in 1 .. Len(Tail(que)) : Tail(que)[i].ids = {}
    BY <1>1, <1>3, <1>5, <2>2 DEF Trailing
  <2> QED BY <2>1, <2>3 DEF Ids
<1> QED BY <1>4, <1>5

LEMMA TrailingPut ==
    ASSUME eventQue \in Seq(Mails), Trailing(eventQue), NEW e \in Mails, e.ids = {}
    PROVE  Trailing(PutEvent(eventQue, e))
<1>1. ASSUME NEW que \in Seq(Mails), Trailing(que)
      PROVE  Trailing(Append(que, e))
  <2> DEFINE new == Append(que, e)
  <2>1. /\ Len(new) = Len(que) + 1 /\ new[Len(que) + 1] = e
        /\ \A i \in 1 .. Len(que) : new[i] = que[i]
    BY AppendProperties
  <2>2. Len(que) \in Nat
    OBVIOUS
  <2> HIDE DEF new
  <2>3. \A i \in 1 .. Len(new) : i \in 1 .. Len(que) \/ i = Len(que) + 1
    BY <2>1, <2>2
  <2>4. ASSUME NEW i \in 1 .. Len(new), NEW j \in 1 .. Len(new), new[i] \in Answers, i < j
        PROVE  new[j].ids = {}
    <3>1. CASE j = Len(que) + 1
      BY <2>1, <3>1
    <3>2. CASE j \in 1 .. Len(que)
      <4>1. i \in 1 .. Len(que)
        BY <2>2, <2>3, <2>4, <3>2
      <4> QED BY <1>1, <2>1, <2>4, <3>2, <4>1 DEF Trailing
    <3> QED BY <2>3, <3>1, <3>2
  <2> QED BY <2>4 DEF Trailing, new
<1>2. CASE Len(eventQue) < EventQueMax
  BY <1>1, <1>2 DEF PutEvent
<1>3. CASE ~(Len(eventQue) < EventQueMax)
  <2>1. eventQue # <<>>
    BY <1>3, SizeAssumption
  <2>2. Tail(eventQue) \in Seq(Mails) /\ Trailing(Tail(eventQue))
    BY <2>1, TailFacts, TrailingTail
  <2> QED BY <1>1, <1>3, <2>2 DEF PutEvent
<1> QED BY <1>2, <1>3

(* The answer follows what the last batch brought.                         *)
LEMMA DoneAllStep ==
    ASSUME TypeOK, TypeOK', Held, Ring, Next, ~Request, Undisturbed',
           Gone + Queued <= made.stores, DoneAll
    PROVE  Served'
<1>0. lrQue \in Seq(Mails) /\ eventQue \in Seq(Mails) /\ server \in Servers /\ log' \in Logs
  BY DEF TypeOK
<1>1. /\ job = Idle /\ Free(flashQue, Asking) /\ Range(lrQue) \subseteq {Answer(TRUE), Foreign}
      /\ Trailing(eventQue) /\ (server.answer # "none" => Ids(eventQue) = {})
      /\ FreshWanted <= Batch
  BY DEF DoneAll
<1>2. ~HandleGetAll /\ ~HandleGetFromHead /\ ~HandleContinue /\ job.at # "read"
  BY <1>1, NothingAsked DEF Idle
<1>3. server'.wanted = server.wanted /\ server'.lost = {}
  BY <1>2, ServerStep, UndisturbedBefore
<1>12. SendOther => Range(lrQue') \subseteq {Answer(TRUE), Foreign}
  <2> SUFFICES ASSUME SendOther PROVE Range(lrQue') \subseteq {Answer(TRUE), Foreign}
    OBVIOUS
  <2>1. lrQue' = PutMessage(lrQue, LrQueMax, Foreign)
    BY DEF SendOther
  <2>2. Range(lrQue') \subseteq Range(lrQue) \cup {Foreign}
    BY <1>0, <2>1, MailTypes, PutFacts, Sizes
  <2> QED BY <1>1, <2>2
<1>4. Sure' = Sure
  <2>1. SendOther => Ids(lrQue') = Ids(lrQue)
    BY <1>1, <1>12, NoIds
  <2> QED BY <1>2, <2>1, SureStep
<1>5. Gone' + Queued' <= made'.stores /\ FreshWanted' <= FreshWanted
  BY <1>3, <1>4, AmountsStep
<1>6. FreshWanted' <= Batch
  <2>1. (log \in Logs => FreshWanted \in Nat)'
    BY AmountTypes, PTL
  <2>2. FreshWanted \in Nat /\ FreshWanted' \in Nat /\ Batch \in Nat
    BY <1>0, <2>1, AmountTypes, SizeAssumption DEF TypeOK
  <2> QED BY <1>1, <1>5, <2>2
<1>7. ASSUME job' = Idle, Free(flashQue', Asking), Range(lrQue') \subseteq {Answer(TRUE), Foreign},
             Trailing(eventQue'), server'.answer # "none" => Ids(eventQue') = {}
      PROVE  Served'
  <2>1. DoneAll'
    BY <1>6, <1>7 DEF DoneAll
  <2> QED BY <1>5, <2>1 DEF Served
<1>8. CASE HandleStore \/ IgnoreConfirm \/ Store
  <2>1. UNCHANGED <<lrQue, eventQue, job, server>>
    BY <1>8 DEF HandleStore, IgnoreConfirm, Store
  <2>2. Free(flashQue', Asking)
    BY <1>1, <1>8, QuietSteps
  <2>3. Ids(eventQue') = Ids(eventQue)
    BY <2>1 DEF Ids
  <2> QED BY <1>1, <1>7, <2>1, <2>2, <2>3
<1>9. CASE Communication
  <2>1. lrQue # <<>> /\ eventQue' = PutEvent(eventQue, Head(lrQue))
    BY <1>9 DEF Communication
  <2>2. /\ Head(lrQue) \in Mails /\ Range(lrQue) = {Head(lrQue)} \cup Range(Tail(lrQue))
        /\ lrQue' = Tail(lrQue) /\ job' = job /\ server'.answer = server.answer
        /\ Ids(eventQue') = Ids(eventQue) \cup Head(lrQue).ids
    BY <1>3, <1>9, CommunicationMoves
  <2>3. Head(lrQue) \in {Answer(TRUE), Foreign} /\ Range(lrQue') \subseteq {Answer(TRUE), Foreign}
    BY <1>1, <2>2
  <2>4. Head(lrQue).ids = {}
    BY <2>3 DEF Answer, Foreign
  <2>5. Trailing(eventQue')
    BY <1>0, <1>1, <2>1, <2>2, <2>4, TrailingPut
  <2>6. Free(flashQue', Asking)
    BY <1>1, <1>9, QuietSteps
  <2> QED BY <1>1, <1>7, <2>2, <2>3, <2>4, <2>5, <2>6
<1>10. CASE Engine
  <2>1. /\ eventQue # <<>> /\ eventQue' = Tail(eventQue) /\ UNCHANGED <<flashQue, lrQue, job>>
        /\ Range(eventQue) = {Head(eventQue)} \cup Range(Tail(eventQue))
        /\ Head(eventQue) \notin Answers => server'.answer = server.answer
    BY <1>10, EngineMoves
  <2>2. /\ Trailing(Tail(eventQue))
        /\ Head(eventQue) \in Answers => Ids(Tail(eventQue)) = {}
    BY <1>0, <1>1, <2>1, TrailingTail
  <2>7. Range(eventQue) = {Head(eventQue)} \cup Range(Tail(eventQue))
    BY <2>1
  <2>3. Ids(eventQue) = Head(eventQue).ids \cup Ids(Tail(eventQue))
    BY <2>7, IdsOfTwo
  <2>4. Ids(eventQue') = Ids(Tail(eventQue))
    BY <2>1 DEF Ids
  <2>5. Trailing(eventQue')
    BY <2>1, <2>2
  <2>6. server'.answer # "none" => Ids(eventQue') = {}
    BY <1>1, <2>1, <2>2, <2>3, <2>4
  <2> QED BY <1>1, <1>7, <2>1, <2>5, <2>6
<1>13. CASE SendOther
  <2>1. UNCHANGED <<flashQue, eventQue, job, server>>
    BY <1>13 DEF SendOther
  <2>2. Ids(eventQue') = Ids(eventQue)
    BY <2>1 DEF Ids
  <2> QED BY <1>1, <1>7, <1>12, <1>13, <2>1, <2>2
<1>11. CASE CallEngine
  <2>1. /\ eventQue' = PutEvent(eventQue, Foreign) /\ UNCHANGED <<flashQue, lrQue, job>>
        /\ server' = [server EXCEPT !.lost = @ \cup Displaced]
    BY <1>11 DEF CallEngine
  <2>2. Foreign \in Mails /\ Foreign.ids = {} /\ server'.answer = server.answer
    BY <1>0, <2>1, MailTypes DEF Foreign, Servers
  <2>3. Trailing(eventQue')
    BY <1>0, <1>1, <2>1, <2>2, TrailingPut
  <2>4. Ids(eventQue') \subseteq Ids(eventQue)
    <3>1. Ids(PutEvent(eventQue, Foreign)) \cup Displaced = Ids(eventQue) \cup Foreign.ids
      BY <1>0, <2>2, PutEventFacts
    <3>2. Ids(eventQue') = Ids(PutEvent(eventQue, Foreign))
      BY <2>1 DEF Ids
    <3> QED BY <2>2, <3>1, <3>2
  <2> QED BY <1>1, <1>7, <2>1, <2>2, <2>3, <2>4
<1> QED BY <1>1, <1>2, <1>8, <1>9, <1>10, <1>11, <1>13, IdleSteps DEF Other

(* What has lost its payload waits for the timeout.                        *)
LEMMA StuckStep ==
    ASSUME TypeOK, Held, Next, ~Request, ~AwaitTimeout, Stuck
    PROVE  Stuck'
<1>0. flashQue \in Seq(Orders) /\ lrQue \in Seq(Mails) /\ job \in Jobs
  BY DEF TypeOK
<1>1. /\ job.at = "wait" /\ Free(flashQue, {Confirm}) /\ Range(lrQue) \subseteq {Foreign}
      /\ server.answer = "none" /\ Free(eventQue, Answers)
  BY DEF Stuck
<1>2. Free(eventQue', Answers) /\ server'.answer = "none"
  BY <1>1, NoAnswer
<1>3. ASSUME job'.at = "wait", Free(flashQue', {Confirm}), Range(lrQue') \subseteq {Foreign}
      PROVE  Stuck'
  BY <1>2, <1>3 DEF Stuck
<1>4. AwaitConfirm \/ Communication \/ Engine \/ Store \/ Other
  <2>1. ~StopReading /\ ~ReadMessage /\ ~ReadMessageIntoNext /\ ~EndOfBlock /\ ~FinishBatch
    BY <1>1 DEF StopReading, ReadMessage, ReadMessageIntoNext, EndOfBlock, FinishBatch, NextMessage
  <2> QED BY <1>1, <2>1, ReadSteps
<1>5. CASE AwaitConfirm
  <2>1. /\ flashQue # <<>> /\ job' = [job EXCEPT !.at = Resumes(Incoming)]
        /\ flashQue' = Tail(flashQue) /\ lrQue' = lrQue
    BY <1>5 DEF AwaitConfirm
  <2>2. Incoming \in Orders /\ Incoming \in Range(flashQue)
    BY <1>0, <2>1, TailFacts DEF Incoming
  <2>3. Incoming.act # "confirm"
    BY <1>1, <2>2 DEF Free, Orders
  <2>4. job'.at = "wait"
    BY <1>0, <2>1, <2>3 DEF Jobs, Resumes
  <2>5. Free(flashQue', {Confirm})
    BY <1>0, <1>1, <2>1, FreeFacts
  <2> QED BY <1>1, <1>3, <2>1, <2>4, <2>5
<1>6. CASE Communication
  <2>1. /\ lrQue # <<>> /\ lrQue' = Tail(lrQue) /\ job' = job
        /\ flashQue' = IF Head(lrQue).what = "data" THEN PutFlash(flashQue, Confirm) ELSE flashQue
    BY <1>6 DEF Communication
  <2>2. Head(lrQue) = Foreign /\ Range(lrQue') \subseteq {Foreign}
    BY <1>0, <1>1, <2>1, TailFacts
  <2>3. flashQue' = flashQue
    BY <2>1, <2>2 DEF Foreign
  <2> QED BY <1>1, <1>3, <2>1, <2>2, <2>3
<1>7. CASE Engine \/ CallEngine
  <2>1. UNCHANGED <<flashQue, lrQue, job>>
    BY <1>7 DEF Engine, CallEngine
  <2> QED BY <1>1, <1>3, <2>1
<1>8. CASE Store
  <2>1. UNCHANGED <<lrQue, job>>
    BY <1>8 DEF Store
  <2>2. PICK c \in StoreCommands : flashQue' = PutFlash(flashQue, c)
    BY <1>8 DEF Store
  <2>3. Free(flashQue', {Confirm})
    BY <1>0, <1>1, <2>2, StoreCommand, ConfirmType, FreePutFlash
  <2> QED BY <1>1, <1>3, <2>1, <2>3
<1>9. CASE SendOther
  <2>1. UNCHANGED <<flashQue, job>> /\ lrQue' = PutMessage(lrQue, LrQueMax, Foreign)
    BY <1>9 DEF SendOther
  <2>2. Range(lrQue') \subseteq {Foreign}
    BY <1>0, <1>1, <2>1, MailTypes, PutOnForeign
  <2> QED BY <1>1, <1>3, <2>1, <2>2
<1> QED BY <1>4, <1>5, <1>6, <1>7, <1>8, <1>9 DEF Other

LEMMA StockedStep ==
    ASSUME TypeOK, TypeOK', Stocked, Next
    PROVE  Stocked'
<1>1. /\ Queued \in Nat /\ made.stores \in Nat /\ made'.stores \in Nat
      /\ made.stores + Queued' <= made'.stores + Queued
  BY QueuedStep DEF TypeOK
<1>2. Queued' \in Nat
  BY StoresFinite DEF Queued, TypeOK
<1>3. Queued <= made.stores
  BY DEF Stocked
<1>4. Queued' <= made'.stores
  BY <1>1, <1>2, <1>3
<1> QED BY <1>4 DEF Stocked

(* The command waits until it is taken up, and all the messages of its     *)
(* port are still to be read.                                              *)
LEMMA WaitingAllStep ==
    ASSUME TypeOK, TypeOK', Held, Ring, Stocked', Next, ~Request, Calm', WaitingAll
    PROVE  Transfer'
<1>0. /\ flashQue \in Seq(Orders) /\ lrQue \in Seq(Mails) /\ eventQue \in Seq(Mails)
      /\ log \in Logs /\ server \in Servers
  BY DEF TypeOK
<1>1. /\ job = Idle /\ Range(lrQue) \subseteq {Foreign}
      /\ server.answer = "none" /\ server.sent = {}
      /\ Ids(eventQue) = {} /\ Free(eventQue, Answers)
      /\ Range(flashQue) \cap Asking \subseteq {server.command} /\ Once(flashQue, Asking)
  BY DEF WaitingAll
<1>2. /\ server'.command = server.command /\ server.command.act = "all"
      /\ server'.lost = {}
  BY ServerStep, UndisturbedBefore DEF Calm
<1>3. ASSUME NEW act \in {"all", "head", "continue"}, Serves(act)
      PROVE  Incoming = server.command /\ Incoming \in Asking /\ act = "all"
  <2>1. /\ Incoming \in Commands /\ Incoming.act = act
        /\ Range(flashQue) = {Incoming} \cup Range(Tail(flashQue))
    BY <1>3, ServedFacts
  <2>2. Incoming \in Asking
    BY <2>1 DEF Asking
  <2> QED BY <1>1, <1>2, <2>1, <2>2
<1>4. ~HandleGetFromHead /\ ~HandleContinue
  BY <1>3 DEF HandleGetFromHead, HandleContinue
<1>5. Free(eventQue', Answers) /\ server'.answer = "none"
  BY <1>1, NoAnswer
<1>6. /\ \/ HandleStore \/ IgnoreConfirm \/ HandleGetAll \/ Engine \/ Store
         \/ Communication \/ Other
      /\ job' = job /\ Range(lrQue') \subseteq {Foreign}
  <2>1. \/ HandleStore \/ IgnoreConfirm \/ HandleGetAll \/ Engine \/ Store
        \/ Communication \/ Other
    BY <1>1, <1>4, IdleSteps
  <2>2. CASE HandleStore \/ IgnoreConfirm \/ HandleGetAll \/ Engine \/ Store \/ CallEngine
    <3>1. UNCHANGED <<lrQue, job>>
      BY <2>2 DEF HandleStore, IgnoreConfirm, HandleGetAll, Engine, Store, CallEngine
    <3> QED BY <1>1, <2>1, <3>1
  <2>3. CASE Communication
    <3>1. job' = job /\ lrQue # <<>> /\ lrQue' = Tail(lrQue)
      BY <2>3 DEF Communication
    <3> QED BY <1>0, <1>1, <2>1, <3>1, TailFacts
  <2>4. CASE SendOther
    <3>1. job' = job /\ lrQue' = PutMessage(lrQue, LrQueMax, Foreign)
      BY <2>4 DEF SendOther
    <3> QED BY <1>0, <1>1, <2>1, <3>1, MailTypes, PutOnForeign
  <2> QED BY <2>1, <2>2, <2>3, <2>4 DEF Other
<1>7. server'.sent = {} /\ Ids(eventQue') = {}
  <2>1. job.left = {} /\ job.payload = {} /\ job.at # "read"
    BY <1>1 DEF Idle
  <2>4. Ids(lrQue) = {} /\ Ids(lrQue') = {}
    BY <1>1, <1>6, NoIds
  <2>2. Sure = {}
    BY <1>1, <2>1, <2>4 DEF Sure
  <2>3. Sure' = Sure
    BY <1>4, <2>1, <2>4, SureStep DEF Calm
  <2> QED BY <2>2, <2>3 DEF Sure
<1>8. CASE HandleStore \/ IgnoreConfirm \/ Store \/ Communication
  <2>1. Range(flashQue') \cap Asking \subseteq Range(flashQue) /\ Once(flashQue', Asking)
    BY <1>1, <1>8, QuietSteps
  <2>2. WaitingAll'
    BY <1>1, <1>2, <1>5, <1>6, <1>7, <2>1 DEF WaitingAll
  <2> QED BY <2>2 DEF Transfer
<1>9. CASE Engine \/ Other
  <2>1. flashQue' = flashQue
    BY <1>9 DEF Engine, Other, SendOther, CallEngine
  <2>2. WaitingAll'
    BY <1>1, <1>2, <1>5, <1>6, <1>7, <2>1 DEF WaitingAll
  <2> QED BY <2>2 DEF Transfer
<1>10. CASE HandleGetAll
  <2> DEFINE N == Cardinality(On(Port))
             d == GetAllCommand(Port)
  <2>1. /\ Serves("all") /\ flashQue' = PutFlash(Tail(flashQue), GetAllCommand(Incoming.port))
        /\ upper' = GetAllCommand(Incoming.port).n \div Half
        /\ Wants(On(Incoming.port)) /\ UNCHANGED log
    BY <1>10 DEF HandleGetAll, PutContinue
  <2>2. Incoming = server.command /\ Incoming \in Asking
    BY <1>3, <2>1
  <2>3. /\ flashQue # <<>> /\ Incoming.port \in Ports \cup {AnyPort}
        /\ Tail(flashQue) \in Seq(Orders)
    BY <2>1, ServedFacts
  <2>4. Free(Tail(flashQue), Asking)
    BY <1>0, <1>1, <2>2, <2>3, OnceTail DEF Incoming
  <2>5. Once(Tail(flashQue), Asking)
    BY <1>0, <1>1, <2>3, OnceTail
  <2>6. Incoming.port = Port /\ Port \in Ports \cup {AnyPort}
    BY <2>2, <2>3 DEF Port
  <2>7. N \in Nat
    BY <1>0, Finiteness
  <2>8. server'.wanted = On(Port) /\ Port' = Port
    <3>1. On(Port) \subseteq 1 .. Len(log.ports)
      BY <1>0, OnNumbers
    <3> QED BY <1>2, <2>1, <2>6, <3>1, WantsFacts DEF Port
  <2>9. d \in Orders /\ d.act = "continue" /\ d.port = Port
        /\ d.start = (N - 1) % Word /\ d.n = (N - 1) % Word
    <3>1. d = Command("continue", Port, N - 1, N - 1, ContinueLen)
      BY DEF GetAllCommand
    <3>2. d.act = "continue" /\ d.port = Port /\ d.start = (N - 1) % Word /\ d.n = (N - 1) % Word
      BY <3>1 DEF Command
    <3>3. d \in Orders
      BY <1>0, <2>6, GetAllType
    <3> QED BY <3>2, <3>3
  <2>10. flashQue' = PutMessage(Tail(flashQue), FlashQueMax, d) /\ upper' = d.n \div Half
    BY <2>1, <2>6 DEF PutFlash
  <2> HIDE DEF d
  <2>11. Once(flashQue', Asking)
    BY <2>3, <2>4, <2>5, <2>9, <2>10, OncePut
  <2>12. Range(flashQue') \subseteq Range(Tail(flashQue)) \cup {d}
    BY <2>3, <2>9, <2>10, PutFacts, Sizes
  <2>13. Range(flashQue') \cap Asking \subseteq {d}
    BY <2>4, <2>12 DEF Free
  <2>14. Free(flashQue', Anew)
    <3>1. d \notin Anew /\ Anew \subseteq Asking
      BY <2>9 DEF Anew, Asking
    <3> QED BY <2>13, <3>1 DEF Free
  <2>15. OfPort'
    <3>1. \A m \in On(Port) : Port \in {AnyPort, log.ports[m]}
      BY DEF On
    <3> QED BY <2>1, <2>8, <3>1 DEF OfPort
  <2>16. ASSUME Big' PROVE Served'
    <3>1. Cardinality(server'.wanted) > 2 * Batch /\ Batch \in Nat \ {0}
      BY <2>16, SizeAssumption DEF Big
    <3>2. N >= 1
      BY <2>7, <2>8, <3>1
    <3>3. N - 1 \in Nat /\ N - 1 < Word
      <4>1. N <= Count /\ Count \in Nat
        BY <1>0, Finiteness
      <4>2. Count < Word
        <5>1. Count <= NBlocks * PerBlock /\ NBlocks * PerBlock \in Nat
          BY <1>0, RingHolds, RingSizes
        <5>2. 2 * NBlocks * PerBlock = NBlocks * PerBlock + NBlocks * PerBlock
          BY RingSizes
        <5> QED BY <4>1, <5>1, <5>2, WordAssumption
      <4> QED BY <2>7, <3>2, <4>1, <4>2, WordFacts
    <3>4. d.start = N - 1 /\ d.n = N - 1
      BY <2>9, <3>3, SmallWord
    <3>5. Sure' = {}
      <4>1. job'.left = {} /\ job'.payload = {} /\ Ids(lrQue') = {}
        BY <1>1, <1>6, NoIds DEF Idle
      <4> QED BY <1>7, <4>1 DEF Sure
    <3>6. Newer(Sure)' = On(Port) /\ Passed(Sure)' = {}
      <4>1. On(Port)' = On(Port)
        BY <2>1, <2>8 DEF On, Messages
      <4> QED BY <3>5, <4>1 DEF Newer, Passed
    <3>7. Fresh' = N /\ Gone' = 0
      BY <3>6, FS_EmptySet DEF Fresh, Gone
    <3>8. Queued' <= made'.stores /\ Queued' \in Nat /\ made'.stores \in Nat
      <4>1. made'.stores \in Nat
        BY QueuedStep DEF TypeOK
      <4> QED BY <4>1, StoresFinite DEF Stocked, Queued, TypeOK
    <3> DEFINE q == Queued'  s == made'.stores
    <3>9. q <= s /\ q \in Nat /\ s \in Nat
      BY <3>8
    <3> HIDE DEF q, s
    <3>10. 0 + q <= s /\ N + 0 + q <= s + ((N - 1) + Batch)
      BY <2>7, <3>1, <3>2, <3>9
    <3>11. Gone' + Queued' <= made'.stores
      BY <3>7, <3>10 DEF q, s
    <3>12. Fresh' + Gone' + Queued' <= made'.stores + (d.start + Batch)
      BY <3>4, <3>7, <3>10 DEF q, s
    <3>13. ASSUME NEW k \in Range(flashQue') \cap Asking
           PROVE  /\ Fits(k)' /\ Fresh' + Gone' + Queued' <= made'.stores + (k.start + Batch)
                  /\ upper' = k.n \div Half
      <4>1. k = d
        BY <2>13
      <4>2. k.start < Cardinality(server'.wanted)
        BY <2>7, <2>8, <3>4, <4>1
      <4>3. Fits(k)'
        BY <2>8, <2>9, <3>4, <4>1, <4>2 DEF Fits
      <4> QED BY <2>10, <3>12, <4>1, <4>3
    <3>14. QueuedAll'
      BY <1>1, <1>5, <1>6, <2>11, <3>13 DEF QueuedAll
    <3> QED BY <3>11, <3>14 DEF Served
  <2> QED BY <2>14, <2>15, <2>16 DEF Transfer
<1> QED BY <1>6, <1>8, <1>9, <1>10

(* The server asks, and the command waits.                                 *)
LEMMA RequestAllStep ==
    ASSUME TypeOK, Unasked, Request
    PROVE  Transfer'
<1>0. flashQue \in Seq(Orders) /\ server \in Servers /\ eventQue \in Seq(Mails)
  BY DEF TypeOK
<1>1. PICK c \in Requests : /\ flashQue' = PutFlash(flashQue, c)
                            /\ server' = [server EXCEPT !.asked = TRUE, !.command = c]
  BY DEF Request
<1>2. ~server.asked /\ UNCHANGED <<lrQue, eventQue, job>>
  BY DEF Request
<1>3. /\ Free(flashQue, Asking) /\ job = Idle /\ Range(lrQue) \subseteq {Foreign}
      /\ server.answer = "none" /\ server.sent = {} /\ Range(eventQue) \subseteq {Foreign}
  BY <1>2 DEF Unasked
<1>4. c \in Orders
  BY RequestType
<1>5. server'.answer = "none" /\ server'.sent = {} /\ server'.command = c
  BY <1>0, <1>1, <1>3 DEF Servers
<1>6. Range(flashQue') \cap Asking \subseteq {c}
  <2>1. Range(flashQue') \subseteq Range(flashQue) \cup {c}
    BY <1>0, <1>1, <1>4, PutFlashFacts
  <2> QED BY <1>3, <2>1 DEF Free
<1>7. Once(flashQue', Asking)
  <2>1. Once(flashQue, Asking)
    BY <1>0, <1>3, OnceFree
  <2> QED BY <1>0, <1>1, <1>3, <1>4, <2>1, OncePut DEF PutFlash
<1>8. Ids(eventQue') = {} /\ Free(eventQue', Answers)
  <2>1. Range(eventQue') \subseteq {Foreign}
    BY <1>2, <1>3
  <2>2. Foreign.ids = {} /\ Foreign \notin Answers
    BY DEF Foreign, Answers
  <2> QED BY <2>1, <2>2 DEF Ids, Free
<1>9. WaitingAll'
  BY <1>2, <1>3, <1>5, <1>6, <1>7, <1>8 DEF WaitingAll
<1> QED BY <1>9 DEF Transfer

LEMMA TransferStep ==
    ASSUME TypeOK, TypeOK', Held, OneUnderWay, Unasked, Ring, Stocked', Transfer, Next
    PROVE  Transfer'
<1>1. CASE Request
  BY <1>1, RequestAllStep
<1>2. CASE ~Request
  <2> SUFFICES ASSUME Calm' PROVE Transfer'
    BY DEF Transfer
  <2>1. /\ Undisturbed' /\ Undisturbed /\ ~AwaitTimeout /\ server'.command = server.command
        /\ ~history'.overwritten /\ ~history.overwritten
    BY <1>2, UndisturbedBefore, OverwrittenBefore, ServerStep DEF Calm
  <2>2. Calm
    BY <2>1 DEF Calm
  <2>3. CASE WaitingAll
    BY <1>2, <2>3, WaitingAllStep
  <2>4. CASE Free(flashQue, Anew) /\ OfPort /\ (Big => Served)
    <3>1. Free(flashQue', Anew) /\ server'.wanted = server.wanted
      BY <1>2, <2>4, AnewFree, ServerStep
    <3>2. OfPort' /\ (Big' => Big)
      BY <1>2, <2>4, <3>1, WantedStep
    <3>3. ASSUME Big' PROVE Served'
      <4>1. Big /\ Served
        BY <2>4, <3>2, <3>3
      <4>2. CASE Failed
        <5>1. Failed'
          BY <1>2, <4>2, FailedStep
        <5> QED BY <5>1 DEF Served
      <4>3. CASE Gone + Queued <= made.stores /\ QueuedAll
        BY <1>2, <2>1, <2>4, <4>1, <4>3, QueuedAllStep
      <4>4. CASE Gone + Queued <= made.stores /\ ReadingAll
        BY <1>2, <2>1, <4>1, <4>4, ReadingAllStep
      <4>5. CASE Gone + Queued <= made.stores /\ DoneAll
        BY <1>2, <2>1, <4>5, DoneAllStep
      <4>6. CASE Stuck
        <5>1. Stuck'
          BY <1>2, <2>1, <4>6, StuckStep
        <5> QED BY <5>1 DEF Served
      <4> QED BY <4>1, <4>2, <4>3, <4>4, <4>5, <4>6 DEF Served
    <3> QED BY <3>1, <3>2, <3>3 DEF Transfer
  <2> QED BY <2>2, <2>3, <2>4 DEF Transfer
<1> QED BY <1>1, <1>2

(* What the server misses, of what it wanted and the ring still holds.     *)
LEMMA TransferGaps ==
    ASSUME TypeOK, Held, Ring, Transfer
    PROVE  GetAllGaps
<1> SUFFICES ASSUME server.answer = "ok", server.command.act = "all", Undisturbed,
                    ~history.overwritten, Cardinality(server.wanted) > 2 * Batch, CountHolds
             PROVE  /\ Cardinality(Gaps) <= made.stores
                    /\ Cardinality((Missing \cap Messages) \ Gaps) <= Batch
  BY DEF GetAllGaps
<1>0. log \in Logs /\ lrQue \in Seq(Mails)
  BY DEF TypeOK
<1>1. Calm /\ Big
  BY DEF Calm, Big
<1>2. OfPort /\ Served
  BY <1>1 DEF Transfer, WaitingAll
<1>3. Gone + Queued <= made.stores /\ DoneAll
  BY <1>2 DEF Served, QueuedAll, ReadingAll, Failed, Stuck
<1>4. /\ job = Idle /\ Range(lrQue) \subseteq {Answer(TRUE), Foreign} /\ Ids(eventQue) = {}
      /\ FreshWanted <= Batch
  BY <1>3 DEF DoneAll
<1>5. Sure = server.sent
  <2>1. job.left = {} /\ job.payload = {}
    BY <1>4 DEF Idle
  <2>2. Ids(lrQue) = {}
    BY <1>4, NoIds
  <2> QED BY <1>4, <2>1, <2>2 DEF Sure
<1>6. Gaps = Passed(Sure)
  BY <1>5 DEF Gaps, Passed, Missing
<1>7. (Missing \cap Messages) \ Gaps \subseteq Newer(Sure) \cap server.wanted
  <2> SUFFICES ASSUME NEW m \in Missing \cap Messages, m \notin Gaps
               PROVE  m \in Newer(Sure) /\ m \in server.wanted
    OBVIOUS
  <2>1. m \in server.wanted /\ m \notin server.sent /\ m \in Messages
    BY DEF Missing
  <2>2. ~ \E k \in server.sent : k > m
    BY DEF Gaps
  <2>3. m \in On(Port)
    BY <1>2, <2>1 DEF OfPort, On
  <2>4. m \in Nat /\ server.sent \subseteq Nat
    BY <2>3, OnNumbers, Fields
  <2>5. ASSUME NEW k \in server.sent PROVE k < m
    <3>1. k \in Nat /\ ~(k > m) /\ k # m
      BY <2>1, <2>2, <2>4
    <3> QED BY <2>4, <3>1
  <2> QED BY <1>5, <2>1, <2>3, <2>5 DEF Newer
<1>8. Cardinality(Gaps) <= made.stores
  <2>1. Gone \in Nat /\ Queued \in Nat /\ made.stores \in Nat
    BY <1>0, AmountTypes, StoresFinite, Fields, Sizes DEF Queued, TypeOK
  <2>2. Gone <= made.stores
    BY <1>3, <2>1
  <2> QED BY <1>6, <2>2 DEF Gone
<1>9. Cardinality((Missing \cap Messages) \ Gaps) <= Batch
  <2> DEFINE rest == (Missing \cap Messages) \ Gaps
  <2>1. IsFiniteSet(Newer(Sure) \cap server.wanted)
    BY <1>0, Amounts
  <2>2. rest \subseteq Newer(Sure) \cap server.wanted
    BY <1>7
  <2> HIDE DEF rest
  <2>3. Cardinality(rest) <= FreshWanted /\ IsFiniteSet(rest)
    BY <2>1, <2>2, FS_Subset DEF FreshWanted
  <2>4. Cardinality(rest) \in Nat /\ FreshWanted \in Nat /\ Batch \in Nat
    BY <1>0, <2>3, FS_CardinalityType, AmountTypes, SizeAssumption
  <2>5. Cardinality(rest) <= Batch
    BY <1>4, <2>3, <2>4
  <2> QED BY <2>5 DEF rest
<1> QED BY <1>8, <1>9

-----------------------------------------------------------------------------
(* The inductive invariant                                                 *)

IInv ==
    /\ TypeOK /\ Held /\ OneUnderWay /\ Unasked /\ Phases
    /\ Ring /\ Stocked /\ Transfer

LEMMA InitIInv == Init => IInv
<1> SUFFICES ASSUME Init PROVE IInv
  OBVIOUS
<1>1. TypeOK /\ Held
  BY InitType
<1>2. /\ flashQue = <<>> /\ lrQue = <<>> /\ eventQue = <<>> /\ job = Idle
      /\ server.command = Confirm /\ server.sent = {} /\ server.answer = "none"
  BY DEF Init
<1>3. \A T : Free(<<>>, T) /\ Once(<<>>, T)
  BY EmptyFacts, OnceEmpty DEF Free
<1>4. OneUnderWay
  BY <1>2, <1>3 DEF OneUnderWay, NoneUnderWay
<1>5. Unasked
  BY <1>2, <1>3, EmptyFacts DEF Unasked
<1>6. Phases /\ Transfer
  BY <1>2, ConfirmType DEF Phases, Clean, Transfer, Calm
<1>7. Stocked
  <2>1. Stores(<<>>) = {}
    BY DEF Stores
  <2>2. Queued = 0 /\ made.stores = 0
    BY <1>2, <2>1, FS_EmptySet DEF Queued, Init
  <2> QED BY <2>2 DEF Stocked
<1> QED BY <1>1, <1>4, <1>5, <1>6, <1>7, InitRing DEF IInv

LEMMA NextIInv == IInv /\ [Next]_vars => IInv'
<1> SUFFICES ASSUME IInv, [Next]_vars PROVE IInv'
  OBVIOUS
<1>1. /\ TypeOK /\ Held /\ OneUnderWay /\ Unasked /\ Phases
      /\ Ring /\ Stocked /\ Transfer
  BY DEF IInv
<1>2. CASE UNCHANGED vars
  <2>1. TypeOK' /\ Held' /\ OneUnderWay' /\ Unasked'
    BY <1>1, <1>2 DEF vars, TypeOK, Held, OneUnderWay, NoneUnderWay, Unasked
  <2>2. Phases'
    BY <1>1, <1>2 DEF vars, Phases, Clean, Undisturbed, Pending, Silent, Starved, Off, Under,
       Over, AnswerQueued, AnswerIsLast, AnswerArrived, Failed
  <2>3. Ring' /\ Stocked'
    BY <1>1, <1>2 DEF vars, Ring, Stocked, Queued
  <2>4. /\ Fresh' = Fresh /\ FreshWanted' = FreshWanted /\ Gone' = Gone /\ Queued' = Queued
        /\ OfPort' = OfPort /\ Big' = Big /\ \A c : Fits(c)' = Fits(c)
    BY <1>2 DEF vars, Fresh, FreshWanted, Gone, Newer, Passed, On, Messages, Sure, Ids, Port,
       Queued, OfPort, Big, CountHolds, Fits
  <2>5. Transfer'
    <3>1. UNCHANGED <<flashQue, upper, lrQue, eventQue, job, server, history, made>>
      BY <1>2 DEF vars
    <3>2. Calm' = Calm /\ WaitingAll' = WaitingAll
      BY <3>1 DEF Calm, Undisturbed, WaitingAll, Ids
    <3>3. Failed' = Failed /\ Stuck' = Stuck
      BY <3>1 DEF Failed, Stuck
    <3>4. QueuedAll => QueuedAll'
      BY <2>4, <3>1 DEF QueuedAll
    <3>5. ReadingAll => ReadingAll'
      BY <2>4, <3>1 DEF ReadingAll
    <3>6. DoneAll => DoneAll'
      BY <2>4, <3>1 DEF DoneAll, Ids
    <3>7. Served => Served'
      BY <2>4, <3>1, <3>3, <3>4, <3>5, <3>6 DEF Served
    <3>8. Free(flashQue', Anew) = Free(flashQue, Anew)
      BY <3>1
    <3> QED BY <1>1, <2>4, <3>2, <3>7, <3>8 DEF Transfer
  <2> QED BY <2>1, <2>2, <2>3, <2>5 DEF IInv
<1>3. CASE Next
  <2>1. TypeOK' /\ Held'
    BY <1>1, <1>3, TypeStep
  <2>2. OneUnderWay'
    BY <1>1, <1>3, <2>1, UnderWayStep
  <2>3. Unasked'
    BY <1>1, <1>3, UnaskedStep
  <2>4. Phases'
    <3>1. CASE Request
      BY <1>1, <3>1, RequestStep
    <3>2. CASE ~Request
      <4>1. CASE ~Clean'
        BY <4>1 DEF Phases
      <4>2. CASE Clean'
        <5>1. Clean
          BY <1>1, <1>3, <3>2, <4>2, CleanBefore
        <5>2. Pending \/ Starved \/ Off \/ Under \/ Over \/ Failed
          BY <1>1, <5>1 DEF Phases
        <5> QED
          BY <1>1, <1>3, <3>2, <4>2, <5>2, PendingStep, StarvedStep, OffStep, UnderStep,
             OverStep, FailedStep DEF Phases
      <4> QED BY <4>1, <4>2
    <3> QED BY <3>1, <3>2
  <2>5. Ring'
    BY <1>1, <1>3, RingStep
  <2>6. Stocked'
    BY <1>1, <1>3, <2>1, StockedStep
  <2>7. Transfer'
    BY <1>1, <1>3, <2>1, <2>6, TransferStep
  <2> QED BY <2>1, <2>2, <2>3, <2>4, <2>5, <2>6, <2>7 DEF IInv
<1> QED BY <1>2, <1>3

LEMMA Invariant == Spec => []IInv
BY InitIInv, NextIInv, PTL DEF Spec

(* Commands stay within 32 bits whatever is subtracted from them, only     *)
(* messages that were stored are asked for, and every queue holds what its *)
(* reader expects.                                                         *)
THEOREM TypeCorrect == Spec => [](TypeOK /\ Held)
<1>1. IInv => TypeOK /\ Held
  BY DEF IInv
<1> QED BY <1>1, Invariant, PTL

(* Until a wait times out, no confirm ever releases the wait for another   *)
(* payload than the one it answers.                                        *)
THEOREM LockStepCorrect == Spec => []LockStep
<1>1. IInv => LockStep
  BY LockStepFollows DEF IInv
<1> QED BY <1>1, Invariant, PTL

(* An undisturbed command from the head that is answered with success has  *)
(* brought exactly the messages it named, however many are stored while it *)
(* is served.                                                              *)
THEOREM HeadCorrect == Spec => []HeadExact
<1>1. IInv => HeadExact
  <2> SUFFICES ASSUME IInv, server.answer = "ok", server.command.act = "head", Undisturbed,
                      made.others = 0, Cardinality(server.wanted) = server.command.n
               PROVE  server.sent = server.wanted
    BY DEF HeadExact
  <2>1. Pending \/ Starved \/ Off \/ Under \/ Over \/ Failed
    BY DEF IInv, Phases, Clean
  <2>2. Over
    BY <2>1 DEF Pending, Starved, Silent, Off, Under, Failed
  <2>3. eventQue = <<>> /\ server.wanted = server.sent \cup Ids(eventQue)
    BY <2>2 DEF Over, AnswerQueued, AnswerIsLast, AnswerArrived
  <2>4. Ids(eventQue) = {}
    BY <2>3, EmptyFacts DEF Ids
  <2> QED BY <2>3, <2>4
<1> QED BY <1>1, Invariant, PTL

(* An undisturbed CMD_FLASH_GET_ALL over more than two batches that is     *)
(* answered with success misses, of what the ring still holds, at most a   *)
(* batch of the newest messages and one message for each that was stored   *)
(* while it was served, as long as the count keeps above its start and no  *)
(* long message is received before a CONTINUE that waits.                  *)
THEOREM GetAllCorrect == Spec => []GetAllGaps
<1>1. IInv => GetAllGaps
  BY TransferGaps DEF IInv
<1> QED BY <1>1, Invariant, PTL
=============================================================================
