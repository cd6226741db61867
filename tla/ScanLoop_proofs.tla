-------------------------- MODULE ScanLoop_proofs --------------------------
(***************************************************************************)
(* Proofs about ScanLoop and the connection RadarLink it runs over, for    *)
(* every length of a structure, of a day, a scan and a beam, and whatever  *)
(* the radar, the signals and the operator do.                             *)
(*                                                                         *)
(* The types of the connection and of the loop are proved apart.  InStep   *)
(* needs an invariant of the whole exchange (Talk): what the control       *)
(* program has still to send and receive is the rest of the exchange the   *)
(* child is in, and the words in the socket are those between the two.     *)
(* OneLateRecord needs to know that after a record made without a radar    *)
(* two messages are sent before the next (LateInv): the second brings      *)
(* SIGPIPE.                                                                *)
(*                                                                         *)
(* The last part is about time.  NotBehind needs to know how far behind    *)
(* the beams may be at each place of the loop (BehindInv), FilesFollow     *)
(* when the clock was last read and that no day passes between the looks   *)
(* at it (FilesInv), NoScanTwice how long a scan has lasted at least and   *)
(* at most and which boundary the loop waits for (PeriodInv).              *)
(***************************************************************************)
EXTENDS ScanLoop, SequenceTheorems, TLAPS

-----------------------------------------------------------------------------
(* Exchanges and what is left of them.                                     *)

\* Two of the steps of an exchange.
DataStep(n) == [op |-> "data", n |-> n]
ReceiveStep(n) == [op |-> "recv", n |-> n]

\* How many parts follow the message, and how many words the first of them are:
\* Before(t)[k + 1] for k parts.
Parts(t) == Len(Sends(t))
Before(t) ==
  CASE t = "SET_RADAR_CHAN"            -> <<0, 1, 2>>
    [] t = "SET_PARAMETERS"            -> <<0, Big>>
    [] t = "REQUEST_CLEAR_FREQ_SEARCH" -> <<0, Big>>
    [] t = "REGISTER_SEQ"              -> <<0, 1, 1 + Big, 1 + Big + Big, 1 + Big + Big + Big, 1 + Big + Big + Big + Big>>
    [] OTHER                           -> <<0>>

\* Of list, what is after p is the rest of an exchange: the last n - p parts,
\* the answer, and the message of another exchange if there is more.
RestTo(list, p, n, t) ==
  /\ n + 1 <= Len(list)
  /\ \A i \in p + 1 .. n : list[i] = DataStep(Sends(t)[Parts(t) - n + i])
  /\ list[n + 1] = ReceiveStep(Receives(t) + Msg)
  /\ n + 2 <= Len(list) => list[n + 2].op = "msg"

\* Every message of list is followed by the rest of its exchange.
Exchanges(list) ==
  \A p \in 1 .. Len(list) :
    list[p].op = "msg" => RestTo(list, p, p + Parts(list[p].type), list[p].type)

\* No exchange has begun.
Between(list) == list = <<>> \/ list[1].op = "msg"

\* Both sides write down the same parts.
LEMMA ExchangeParts ==
  ASSUME NEW t \in Type
  PROVE  /\ Sends(t) \in Seq(Nat) /\ Parts(t) \in 0 .. 5 /\ Takes(t) = Sends(t)
         /\ Gives(t) = Receives(t) /\ Receives(t) \in Nat
         /\ Before(t) \in Seq(Nat) /\ Len(Before(t)) = Parts(t) + 1 /\ Before(t)[1] = 0
         /\ \A k \in 1 .. Parts(t) :
              Sends(t)[k] \in Nat \ {0} /\ Before(t)[k + 1] = Before(t)[k] + Sends(t)[k]
<1> Big \in Nat /\ Big > 2
  BY RadarLinkAssumption DEF RadarLinkAssumption, Msg
<1>1. Takes(t) = Sends(t) /\ Gives(t) = Receives(t)
  BY DEF Takes, Sends, Gives, Receives
<1>2. Receives(t) \in Nat
  BY DEF Receives
<1>3. CASE t = "SET_RADAR_CHAN"
  BY <1>1, <1>2, <1>3 DEF Sends, Before, Parts
<1>4. CASE t \in {"SET_PARAMETERS", "REQUEST_CLEAR_FREQ_SEARCH"}
  BY <1>1, <1>2, <1>4 DEF Sends, Before, Parts
<1>5. CASE t = "REGISTER_SEQ"
  <2>1. Sends(t) = <<1, Big, Big, Big, Big>>
    BY <1>5 DEF Sends
  <2>2. Before(t) = <<0, 1, 1 + Big, 1 + Big + Big, 1 + Big + Big + Big, 1 + Big + Big + Big + Big>>
    BY <1>5 DEF Before
  <2>3. Parts(t) = 5 /\ Sends(t) \in Seq(Nat) /\ Before(t) \in Seq(Nat) /\ Len(Before(t)) = 6
    BY <2>1, <2>2 DEF Parts
  <2>4. ASSUME NEW k \in 1 .. 5
        PROVE  Sends(t)[k] \in Nat \ {0} /\ Before(t)[k + 1] = Before(t)[k] + Sends(t)[k]
    <3>1. k = 1 \/ k = 2 \/ k = 3 \/ k = 4 \/ k = 5
      OBVIOUS
    <3> QED
      BY <2>1, <2>2, <3>1
  <2> QED
    BY <1>1, <1>2, <2>2, <2>3, <2>4
<1>6. CASE t \notin {"SET_RADAR_CHAN", "SET_PARAMETERS", "REQUEST_CLEAR_FREQ_SEARCH", "REGISTER_SEQ"}
  BY <1>1, <1>2, <1>6 DEF Sends, Before, Parts
<1> QED
  BY <1>3, <1>4, <1>5, <1>6

\* The number of parts is a number.
LEMMA PartsType ==
  ASSUME NEW t \in Type
  PROVE  Parts(t) \in Nat
<1>1. Parts(t) \in 0 .. 5
  BY ExchangeParts
<1> QED
  BY <1>1

\* A message has a type.
LEMMA MessageType == \A step \in Step : step.op = "msg" => step.type \in Type
  BY DEF Step

\* What the site library writes down for a message is an exchange.
LEMMA ExchangeWhole ==
  ASSUME NEW t \in Type
  PROVE  /\ Exchange(t) \in Seq(Step) /\ Exchanges(Exchange(t)) /\ Between(Exchange(t))
         /\ Exchange(t) # <<>>
<1> DEFINE m == [op |-> "msg", type |-> t]
           d == [i \in DOMAIN Sends(t) |-> DataStep(Sends(t)[i])]
           r == ReceiveStep(Receives(t) + Msg)
<1>1. Exchange(t) = <<m>> \o d \o <<r>>
  BY DEF Exchange, DataStep, ReceiveStep
<1>2. m \in Step /\ m.op = "msg" /\ m.type = t
  BY DEF Step
<1>3. r \in Step /\ r.op # "msg"
  BY ExchangeParts DEF Step, ReceiveStep, Msg
<1>4. d \in Seq(Step) /\ Len(d) = Parts(t) /\ \A i \in 1 .. Parts(t) : d[i] = DataStep(Sends(t)[i])
  <2>1. DOMAIN Sends(t) = 1 .. Parts(t) /\ Parts(t) \in Nat
    BY ExchangeParts DEF Parts
  <2>2. \A i \in 1 .. Parts(t) : DataStep(Sends(t)[i]) \in Step
    BY ExchangeParts DEF DataStep, Step
  <2> QED
    BY <2>1, <2>2
<1> HIDE DEF m, d, r
<1> DEFINE x == Exchange(t)
<1>5. x \in Seq(Step) /\ Len(x) = Parts(t) + 2 /\ Parts(t) \in Nat
  BY <1>1, <1>2, <1>3, <1>4, ExchangeParts
<1>6. x[1] = m /\ x[Parts(t) + 2] = r
  BY <1>1, <1>2, <1>3, <1>4, ExchangeParts
<1>7. ASSUME NEW i \in 2 .. Parts(t) + 1 PROVE x[i] = DataStep(Sends(t)[i - 1])
  <2>1. i - 1 \in 1 .. Parts(t) /\ i - 1 \in 1 .. Len(d)
    BY <1>4, <1>5
  <2>2. x[i] = d[i - 1]
    BY <1>1, <1>2, <1>3, <1>4, <1>5, <2>1
  <2> QED
    BY <1>4, <2>1, <2>2
<1> HIDE DEF x
<1>8. ASSUME NEW p \in 1 .. Len(x), x[p].op = "msg" PROVE p = 1
  <2>1. p = 1 \/ p \in 2 .. Parts(t) + 1 \/ p = Parts(t) + 2
    BY <1>5
  <2>2. CASE p \in 2 .. Parts(t) + 1
    <3>1. x[p] = DataStep(Sends(t)[p - 1])
      BY <1>7, <2>2
    <3> QED
      BY <1>8, <3>1 DEF DataStep
  <2> QED
    BY <1>3, <1>6, <1>8, <2>1, <2>2
<1>9. RestTo(x, 1, 1 + Parts(t), t)
  <2>1. \A i \in 2 .. Parts(t) + 1 : Parts(t) - (1 + Parts(t)) + i = i - 1
    BY <1>5
  <2>2. \A i \in 1 + 1 .. 1 + Parts(t) : x[i] = DataStep(Sends(t)[Parts(t) - (1 + Parts(t)) + i])
    BY <1>5, <1>7, <2>1
  <2>3. (1 + Parts(t)) + 1 = Parts(t) + 2 /\ ~ ((1 + Parts(t)) + 2 <= Len(x))
    BY <1>5
  <2> QED
    BY <1>5, <1>6, <2>2, <2>3 DEF RestTo, r
<1> QED
  BY <1>2, <1>5, <1>6, <1>8, <1>9 DEF x, Exchanges, Between

\* Exchanges one after the other are exchanges.
LEMMA Joined ==
  ASSUME NEW a \in Seq(Step), NEW b \in Seq(Step), Exchanges(a), Exchanges(b), Between(a), Between(b)
  PROVE  a \o b \in Seq(Step) /\ Exchanges(a \o b) /\ Between(a \o b)
<1> DEFINE x == a \o b
<1>1. /\ x \in Seq(Step) /\ Len(x) = Len(a) + Len(b) /\ Len(a) \in Nat /\ Len(b) \in Nat
      /\ \A i \in 1 .. Len(a) : x[i] = a[i]
      /\ \A i \in 1 .. Len(b) : x[Len(a) + i] = b[i]
  OBVIOUS
<1>2. b # <<>> => b[1].op = "msg" /\ Len(b) >= 1
  BY DEF Between
<1>3. a # <<>> => a[1].op = "msg" /\ Len(a) >= 1
  BY DEF Between
<1> HIDE DEF x
<1>4. Between(x)
  <2>1. CASE a # <<>>
    BY <1>1, <1>3, <2>1 DEF Between
  <2>2. CASE a = <<>> /\ b # <<>>
    BY <1>1, <1>2, <2>2 DEF Between
  <2>3. CASE a = <<>> /\ b = <<>>
    BY <2>3 DEF Between, x
  <2> QED
    BY <2>1, <2>2, <2>3
<1>5. ASSUME NEW p \in 1 .. Len(x), x[p].op = "msg"
      PROVE  RestTo(x, p, p + Parts(x[p].type), x[p].type)
  <2> DEFINE t == x[p].type
             n == p + Parts(t)
  <2>0. t \in Type /\ Parts(t) \in Nat /\ n \in Nat
    BY <1>1, <1>5, PartsType, MessageType, ElementOfSeq
  <2>1. CASE p <= Len(a)
    <3>1. p \in 1 .. Len(a) /\ x[p] = a[p]
      BY <1>1, <2>1
    <3>2. RestTo(a, p, n, t)
      BY <1>5, <3>1 DEF Exchanges
    <3> HIDE DEF n, t
    <3>3. n + 1 \in 1 .. Len(a) /\ n + 1 <= Len(x) /\ \A i \in p + 1 .. n : i \in 1 .. Len(a)
      BY <1>1, <2>0, <3>1, <3>2 DEF RestTo
    <3>4. n + 2 <= Len(x) => x[n + 2].op = "msg"
      <4>1. CASE n + 2 <= Len(a)
        <5>1. n + 2 \in 1 .. Len(a)
          BY <1>1, <2>0, <4>1
        <5> QED
          BY <1>1, <3>2, <4>1, <5>1 DEF RestTo
      <4>2. CASE n + 1 = Len(a) /\ n + 2 <= Len(x)
        <5>1. 1 \in 1 .. Len(b) /\ b # <<>> /\ n + 2 = Len(a) + 1
          BY <1>1, <2>0, <4>2
        <5> QED
          BY <1>1, <1>2, <5>1
      <4> QED
        BY <1>1, <2>0, <3>3, <4>1, <4>2
    <3>5. RestTo(x, p, n, t)
      BY <1>1, <3>2, <3>3, <3>4 DEF RestTo
    <3> QED
      BY <3>5 DEF n, t
  <2>2. CASE p > Len(a)
    <3>0. PICK s \in Nat : s = Len(a)
      BY <1>1
    <3>1. PICK q \in 1 .. Len(b) : p = q + s /\ x[p] = b[q]
      <4>1. p - s \in 1 .. Len(b) /\ p = s + (p - s) /\ p = (p - s) + s
        BY <1>1, <2>2, <3>0
      <4> QED
        BY <1>1, <3>0, <4>1
    <3>2. PICK m \in Nat : m = q + Parts(t) /\ n = m + s
      <4>1. q + Parts(t) \in Nat /\ p + Parts(t) = (q + Parts(t)) + s
        BY <2>0, <3>1
      <4> QED
        BY <4>1
    <3>3. RestTo(b, q, m, t)
      BY <1>5, <3>1, <3>2 DEF Exchanges
    <3> HIDE DEF n, t
    <3>4. \A i \in 1 .. Len(b) : x[i + s] = b[i]
      <4>1. \A i \in 1 .. Len(b) : s + i = i + s
        OBVIOUS
      <4> QED
        BY <1>1, <3>0, <4>1
    <3>a. Len(x) = Len(b) + s /\ Len(b) \in Nat
      BY <1>1, <3>0
    <3>5. m + 1 \in 1 .. Len(b) /\ b[m + 1] = ReceiveStep(Receives(t) + Msg)
      <4>1. m \in Nat /\ m + 1 <= Len(b)
        BY <3>2, <3>3 DEF RestTo
      <4> QED
        BY <3>3, <3>a, <4>1 DEF RestTo
    <3>6. x[n + 1] = ReceiveStep(Receives(t) + Msg) /\ n + 1 <= Len(x)
      <4>1. n + 1 = (m + 1) + s
        BY <3>0, <3>2
      <4>2. x[n + 1] = b[m + 1]
        BY <3>4, <3>5, <4>1
      <4>3. n + 1 <= Len(b) + s
        BY <3>5, <3>a, <4>1
      <4> QED
        BY <3>5, <3>a, <4>2, <4>3
    <3>7. n + 2 <= Len(x) => x[n + 2].op = "msg"
      <4> SUFFICES ASSUME n + 2 <= Len(x) PROVE x[n + 2].op = "msg"
        OBVIOUS
      <4>1. n + 2 = (m + 2) + s /\ m + 2 \in 1 .. Len(b)
        <5>1. n = m + s /\ m \in Nat /\ n + 2 <= Len(b) + s
          BY <3>2, <3>a
        <5> QED
          BY <3>a, <5>1
      <4>2. b[m + 2].op = "msg"
        BY <3>3, <4>1 DEF RestTo
      <4> QED
        BY <3>4, <4>1, <4>2
    <3>8. ASSUME NEW i \in p + 1 .. n PROVE x[i] = DataStep(Sends(t)[Parts(t) - n + i])
      <4>1. PICK h \in q + 1 .. m : i = h + s
        <5>1. i - s \in q + 1 .. m /\ i = (i - s) + s
          BY <3>0, <3>1, <3>2, <2>0
        <5> QED
          BY <5>1
      <4>2. h \in 1 .. Len(b) /\ b[h] = DataStep(Sends(t)[Parts(t) - m + h])
        <5>1. h \in 1 .. Len(b)
          BY <3>1, <3>5
        <5> QED
          BY <3>3, <5>1 DEF RestTo
      <4>3. Parts(t) - m + h = Parts(t) - n + i
        <5>1. Parts(t) \in Nat /\ m \in Nat /\ n = m + s /\ i = h + s /\ h \in Nat
          BY <2>0, <3>1, <3>2, <4>1
        <5> QED
          BY <5>1
      <4> QED
        BY <3>4, <4>1, <4>2, <4>3
    <3>9. RestTo(x, p, n, t)
      BY <3>6, <3>7, <3>8 DEF RestTo
    <3> QED
      BY <3>9 DEF n, t
  <2> QED
    BY <1>1, <2>1, <2>2
<1> QED
  BY <1>1, <1>4, <1>5 DEF Exchanges, x

-----------------------------------------------------------------------------
(* A list of exchanges, one step further on.                               *)

\* The rest of a list of steps.
LEMMA Tails ==
  ASSUME NEW list \in Seq(Step), list # <<>>
  PROVE  /\ Len(list) \in Nat /\ Len(list) >= 1 /\ Head(list) = list[1] /\ Head(list) \in Step
         /\ Tail(list) \in Seq(Step) /\ Len(Tail(list)) = Len(list) - 1
         /\ \A i \in 1 .. Len(list) - 1 : Tail(list)[i] = list[i + 1]
  OBVIOUS

\* What is left of an exchange is, one step further on.
LEMMA RestTail ==
  ASSUME NEW list \in Seq(Step), list # <<>>, NEW t \in Type,
         NEW p \in Nat, NEW n \in Nat, p <= n, RestTo(list, p + 1, n + 1, t)
  PROVE  RestTo(Tail(list), p, n, t)
<1> DEFINE y == Tail(list)
<1>1. /\ Len(list) \in Nat /\ Len(y) = Len(list) - 1
      /\ \A i \in 1 .. Len(list) - 1 : y[i] = list[i + 1]
  BY Tails
<1> HIDE DEF y
<1>2. n + 2 <= Len(list) /\ n + 1 <= Len(y) /\ n + 1 \in 1 .. Len(list) - 1
  <2>1. (n + 1) + 1 <= Len(list)
    BY DEF RestTo
  <2> QED
    BY <1>1, <2>1
<1>3. y[n + 1] = ReceiveStep(Receives(t) + Msg)
  <2>1. y[n + 1] = list[(n + 1) + 1]
    BY <1>1, <1>2
  <2> QED
    BY <2>1 DEF RestTo
<1>4. ASSUME n + 2 <= Len(y) PROVE y[n + 2].op = "msg"
  <2>1. (n + 1) + 2 <= Len(list) /\ n + 2 \in 1 .. Len(list) - 1 /\ (n + 2) + 1 = (n + 1) + 2
    BY <1>1, <1>4
  <2>2. list[(n + 1) + 2].op = "msg"
    BY <2>1 DEF RestTo
  <2> QED
    BY <1>1, <2>1, <2>2
<1>5. ASSUME NEW i \in p + 1 .. n PROVE y[i] = DataStep(Sends(t)[Parts(t) - n + i])
  <2>1. i \in 1 .. Len(list) - 1 /\ i + 1 \in (p + 1) + 1 .. n + 1
    BY <1>2
  <2>2. list[i + 1] = DataStep(Sends(t)[Parts(t) - (n + 1) + (i + 1)])
    BY <2>1 DEF RestTo
  <2>3. Parts(t) - (n + 1) + (i + 1) = Parts(t) - n + i
    BY PartsType
  <2> QED
    BY <1>1, <2>1, <2>2, <2>3
<1>6. RestTo(y, p, n, t)
  BY <1>2, <1>3, <1>4, <1>5 DEF RestTo
<1> QED
  BY <1>6 DEF y

\* Exchanges that are to come are, one step further on.
LEMMA ExchangesTail ==
  ASSUME NEW list \in Seq(Step), list # <<>>, Exchanges(list)
  PROVE  Exchanges(Tail(list))
<1> DEFINE y == Tail(list)
<1>1. /\ y \in Seq(Step) /\ Len(list) \in Nat /\ Len(y) = Len(list) - 1
      /\ \A i \in 1 .. Len(list) - 1 : y[i] = list[i + 1]
  BY Tails
<1> HIDE DEF y
<1>2. ASSUME NEW p \in 1 .. Len(y), y[p].op = "msg"
      PROVE  RestTo(y, p, p + Parts(y[p].type), y[p].type)
  <2>1. p \in Nat /\ p + 1 \in 1 .. Len(list) /\ y[p] = list[p + 1]
    BY <1>1
  <2>2. PICK t \in Type : t = y[p].type
    BY <1>1, <1>2, MessageType, ElementOfSeq
  <2>3. RestTo(list, p + 1, (p + 1) + Parts(t), t)
    BY <1>2, <2>1, <2>2 DEF Exchanges
  <2>4. (p + 1) + Parts(t) = (p + Parts(t)) + 1 /\ p + Parts(t) \in Nat /\ p <= p + Parts(t)
    <3>1. Parts(t) \in Nat
      BY PartsType
    <3> QED
      BY <2>1, <3>1
  <2>5. RestTo(list, p + 1, (p + Parts(t)) + 1, t)
    BY <2>3, <2>4
  <2> QED
    BY <2>1, <2>2, <2>4, <2>5, RestTail DEF y
<1> QED
  BY <1>2 DEF Exchanges, y

\* The message that begins an exchange is sent.
LEMMA MessageTail ==
  ASSUME NEW list \in Seq(Step), list # <<>>, Exchanges(list), Between(list)
  PROVE  /\ Head(list).op = "msg" /\ Head(list).type \in Type
         /\ RestTo(Tail(list), 0, Parts(Head(list).type), Head(list).type)
<1>1. Head(list).op = "msg" /\ Head(list) = list[1] /\ Head(list) \in Step /\ 1 \in 1 .. Len(list)
  BY Tails DEF Between
<1>2. PICK t \in Type : t = Head(list).type
  BY <1>1, MessageType
<1>3. RestTo(list, 1, 1 + Parts(t), t)
  BY <1>1, <1>2 DEF Exchanges
<1>4. Parts(t) \in Nat /\ 1 + Parts(t) = Parts(t) + 1 /\ 0 + 1 = 1 /\ 0 <= Parts(t)
  BY PartsType
<1>5. RestTo(list, 0 + 1, Parts(t) + 1, t)
  BY <1>3, <1>4
<1>6. RestTo(Tail(list), 0, Parts(t), t)
  BY <1>4, <1>5, RestTail
<1> QED
  BY <1>1, <1>2, <1>6

\* A part of its data is sent.
LEMMA DataTail ==
  ASSUME NEW list \in Seq(Step), NEW t \in Type, NEW k \in 0 .. Parts(t) - 1,
         RestTo(list, 0, Parts(t) - k, t)
  PROVE  /\ list # <<>> /\ Head(list) = DataStep(Sends(t)[k + 1])
         /\ RestTo(Tail(list), 0, Parts(t) - (k + 1), t)
<1>1. PICK n \in Nat : n + 1 = Parts(t) - k /\ Parts(t) - (k + 1) = n
  <2>1. Parts(t) - (k + 1) \in Nat /\ (Parts(t) - (k + 1)) + 1 = Parts(t) - k
    BY PartsType
  <2> QED
    BY <2>1
<1>2. RestTo(list, 0, n + 1, t)
  BY <1>1
<1>3. list # <<>>
  BY <1>2 DEF RestTo
<1>4. Head(list) = DataStep(Sends(t)[k + 1])
  <2>1. list[1] = DataStep(Sends(t)[Parts(t) - (n + 1) + 1])
    <3>1. 1 \in 0 + 1 .. n + 1
      OBVIOUS
    <3> QED
      BY <1>2, <3>1 DEF RestTo
  <2>2. Parts(t) - (n + 1) + 1 = k + 1
    BY <1>1, PartsType
  <2> QED
    BY <1>3, <2>1, <2>2, Tails
<1>5. RestTo(list, 0 + 1, n + 1, t)
  <2>1. \A i \in (0 + 1) + 1 .. n + 1 : i \in 0 + 1 .. n + 1
    OBVIOUS
  <2> QED
    BY <1>2, <2>1 DEF RestTo
<1>6. RestTo(Tail(list), 0, n, t)
  BY <1>3, <1>5, RestTail
<1> QED
  BY <1>1, <1>3, <1>4, <1>6

\* The answer is received.
LEMMA ReceiveTail ==
  ASSUME NEW list \in Seq(Step), NEW t \in Type, RestTo(list, 0, 0, t)
  PROVE  /\ list # <<>> /\ Head(list) = ReceiveStep(Receives(t) + Msg)
         /\ Between(Tail(list))
<1>1. list # <<>> /\ list[1] = ReceiveStep(Receives(t) + Msg) /\ (2 <= Len(list) => list[2].op = "msg")
  BY DEF RestTo
<1>2. Head(list) = list[1]
  BY <1>1, Tails
<1>3. CASE Len(list) = 1
  <2>1. Tail(list) \in Seq(Step) /\ Len(Tail(list)) = 0
    BY <1>1, <1>3, Tails
  <2>2. Tail(list) = <<>>
    BY <2>1, EmptySeq
  <2> QED
    BY <1>1, <1>2, <2>2 DEF Between
<1>4. CASE Len(list) >= 2
  <2>1. Tail(list)[1] = list[1 + 1]
    BY <1>1, <1>4, Tails
  <2> QED
    BY <1>1, <1>2, <1>4, <2>1 DEF Between
<1>5. Len(list) = 1 \/ Len(list) >= 2
  <2>1. PICK m \in Nat : m = Len(list) /\ m >= 1
    BY <1>1, Tails
  <2>2. m = 1 \/ m >= 2
    BY <2>1
  <2> QED
    BY <2>1, <2>2
<1> QED
  BY <1>1, <1>2, <1>3, <1>4, <1>5

-----------------------------------------------------------------------------
(* What the child does for a message, and the words in between.            *)

Word == Type \cup {Other}
JobStep == [op : {"take", "give"}, n : Nat]

\* What the child still does for a message of type t, after j of its parts.
JobFrom(list, t, j) ==
  /\ Len(list) = Parts(t) - j + 1
  /\ \A i \in 1 .. Parts(t) - j : list[i] = TakeStep(Takes(t)[j + i])
  /\ list[Parts(t) - j + 1] = GiveStep(Gives(t) + Msg)

\* What the child does for a message, from its first part to the answer.
LEMMA JobWhole ==
  ASSUME NEW t \in Type
  PROVE  Job(t) \in Seq(JobStep) /\ JobFrom(Job(t), t, 0)
<1> DEFINE d == [i \in DOMAIN Takes(t) |-> TakeStep(Takes(t)[i])]
           r == GiveStep(Gives(t) + Msg)
<1>1. Job(t) = d \o <<r>>
  BY DEF Job
<1>2. r \in JobStep
  BY ExchangeParts DEF JobStep, GiveStep, Msg
<1>3. d \in Seq(JobStep) /\ Len(d) = Parts(t) /\ \A i \in 1 .. Parts(t) : d[i] = TakeStep(Takes(t)[i])
  <2>1. DOMAIN Takes(t) = 1 .. Parts(t) /\ Parts(t) \in Nat
    BY ExchangeParts DEF Parts
  <2>2. \A i \in 1 .. Parts(t) : TakeStep(Takes(t)[i]) \in JobStep
    BY ExchangeParts DEF TakeStep, JobStep
  <2> QED
    BY <2>1, <2>2
<1> HIDE DEF d, r
<1> DEFINE x == Job(t)
<1>4. /\ x \in Seq(JobStep) /\ Len(x) = Parts(t) + 1 /\ x[Parts(t) + 1] = r
      /\ \A i \in 1 .. Parts(t) : x[i] = TakeStep(Takes(t)[i])
  BY <1>1, <1>2, <1>3, PartsType
<1> HIDE DEF x
<1>5. Parts(t) - 0 = Parts(t) /\ \A i \in 1 .. Parts(t) : 0 + i = i
  BY PartsType
<1>6. JobFrom(x, t, 0)
  BY <1>4, <1>5 DEF JobFrom, r
<1> QED
  BY <1>4, <1>6 DEF x

\* The child takes a part.
LEMMA JobTail ==
  ASSUME NEW list \in Seq(JobStep), NEW t \in Type, NEW j \in 0 .. Parts(t) - 1, JobFrom(list, t, j)
  PROVE  /\ list # <<>> /\ Head(list) = TakeStep(Sends(t)[j + 1])
         /\ JobFrom(Tail(list), t, j + 1)
<1>1. PICK n \in Nat : Parts(t) - j = n + 1 /\ Parts(t) - (j + 1) = n
  <2>1. Parts(t) - (j + 1) \in Nat /\ Parts(t) - j = (Parts(t) - (j + 1)) + 1
    BY PartsType
  <2> QED
    BY <2>1
<1>2. Len(list) = (n + 1) + 1
  BY <1>1 DEF JobFrom
<1>3. list # <<>>
  BY <1>2
<1> DEFINE y == Tail(list)
<1>4. Head(list) = list[1] /\ Len(y) = n + 1 /\ \A i \in 1 .. n + 1 : y[i] = list[i + 1]
  BY <1>2, <1>3
<1> HIDE DEF y
<1>5. \A i \in 1 .. n + 1 : list[i] = TakeStep(Takes(t)[j + i])
  BY <1>1 DEF JobFrom
<1>6. list[(n + 1) + 1] = GiveStep(Gives(t) + Msg)
  BY <1>1 DEF JobFrom
<1>7. Head(list) = TakeStep(Sends(t)[j + 1])
  <2>1. Takes(t) = Sends(t)
    BY ExchangeParts
  <2>2. list[1] = TakeStep(Takes(t)[j + 1])
    BY <1>5
  <2> QED
    BY <1>4, <2>1, <2>2
<1>8. ASSUME NEW i \in 1 .. n PROVE y[i] = TakeStep(Takes(t)[(j + 1) + i])
  <2>1. j + (i + 1) = (j + 1) + i /\ i + 1 \in 1 .. n + 1 /\ i \in 1 .. n + 1
    OBVIOUS
  <2> QED
    BY <1>4, <1>5, <2>1
<1>9. y[n + 1] = GiveStep(Gives(t) + Msg)
  BY <1>4, <1>6
<1>10. JobFrom(y, t, j + 1)
  BY <1>1, <1>4, <1>8, <1>9 DEF JobFrom
<1> QED
  BY <1>3, <1>7, <1>10 DEF y

\* After the last part the child answers.
LEMMA JobEnd ==
  ASSUME NEW list \in Seq(JobStep), NEW t \in Type, JobFrom(list, t, Parts(t))
  PROVE  list # <<>> /\ Head(list) = GiveStep(Receives(t) + Msg) /\ Tail(list) = <<>>
<1>1. Parts(t) - Parts(t) + 1 = 1
  BY PartsType
<1>2. Len(list) = 1 /\ list[1] = GiveStep(Gives(t) + Msg)
  BY <1>1 DEF JobFrom
<1>3. list # <<>> /\ Tail(list) \in Seq(JobStep) /\ Len(Tail(list)) = 0 /\ Head(list) = list[1]
  <2>1. Len(list) # 0
    BY <1>2
  <2>2. list # <<>>
    BY <2>1, EmptySeq
  <2> QED
    BY <1>2, <2>2
<1>4. Tail(list) = <<>>
  BY <1>3, EmptySeq
<1>5. Gives(t) = Receives(t)
  BY ExchangeParts
<1> QED
  BY <1>2, <1>3, <1>4, <1>5

\* The words of a message, and of data.
LEMMA WordsOf ==
  ASSUME NEW step \in Step
  PROVE  /\ step.op = "msg" => /\ Words(step) \in Seq(Word) /\ Len(Words(step)) = Msg
                               /\ Words(step)[1] = step.type
         /\ step.op = "data" => /\ Words(step) \in Seq(Word) /\ Len(Words(step)) = step.n
                                /\ step.n \in Nat
<1>1. CASE step.op = "msg"
  BY <1>1, MessageType DEF Words, Word, Msg
<1>2. CASE step.op = "data"
  <2>1. step.n \in Nat
    BY <1>2 DEF Step
  <2>2. Words(step) = [i \in 1 .. step.n |-> Other]
    BY <1>2 DEF Words
  <2> QED
    BY <1>2, <2>1, <2>2 DEF Word
<1> QED
  BY <1>1, <1>2

\* What has been sent of an exchange only grows.
LEMMA BeforeGrows ==
  ASSUME NEW t \in Type, NEW j \in 0 .. Parts(t), NEW k \in 0 .. Parts(t), j < k
  PROVE  /\ Before(t)[j + 1] \in Nat /\ Before(t)[k + 1] \in Nat
         /\ Before(t)[j + 1] < Before(t)[k + 1]
<1>1. Big \in Nat /\ Big > 2
  BY RadarLinkAssumption DEF RadarLinkAssumption, Msg
<1>2. Parts(t) \in 0 .. 5
  BY ExchangeParts
<1>3. CASE t = "SET_RADAR_CHAN"
  <2>1. Before(t) = <<0, 1, 2>> /\ Parts(t) = 2
    BY <1>3 DEF Before, Parts, Sends
  <2> QED
    BY <2>1
<1>4. CASE t \in {"SET_PARAMETERS", "REQUEST_CLEAR_FREQ_SEARCH"}
  <2>1. Before(t) = <<0, Big>> /\ Parts(t) = 1
    BY <1>4 DEF Before, Parts, Sends
  <2> QED
    BY <1>1, <2>1
<1>5. CASE t = "REGISTER_SEQ"
  <2>1. /\ Before(t) = <<0, 1, 1 + Big, 1 + Big + Big, 1 + Big + Big + Big, 1 + Big + Big + Big + Big>>
        /\ Parts(t) = 5
    BY <1>5 DEF Before, Parts, Sends
  <2>2. \A i \in 0 .. 5 : i \in {0, 1, 2, 3, 4, 5}
    OBVIOUS
  <2>3. j \in {0, 1, 2, 3, 4, 5} /\ k \in {0, 1, 2, 3, 4, 5}
    BY <2>1, <2>2
  <2> DEFINE b(i) == Before(t)[i + 1]
  <2>4. b(0) = 0 /\ b(1) = 1 /\ b(2) = 1 + Big /\ b(3) = 1 + Big + Big
        /\ b(4) = 1 + Big + Big + Big /\ b(5) = 1 + Big + Big + Big + Big
    BY <2>1
  <2> HIDE DEF b
  <2>5. b(j) \in Nat /\ b(k) \in Nat /\ b(j) < b(k)
    BY <1>1, <2>3, <2>4
  <2> QED
    BY <2>5 DEF b
<1>6. CASE t \notin {"SET_RADAR_CHAN", "SET_PARAMETERS", "REQUEST_CLEAR_FREQ_SEARCH", "REGISTER_SEQ"}
  <2>1. Parts(t) = 0
    BY <1>6 DEF Parts, Sends
  <2> QED
    BY <2>1
<1> QED
  BY <1>3, <1>4, <1>5, <1>6

-----------------------------------------------------------------------------
(* The two sides of an exchange.                                           *)

\* No exchange has begun, and neither side has anything to do.
Idle == Between(todo) /\ job = <<>> /\ up = <<>> /\ down = 0

\* Of an exchange k parts are sent and the child has taken nothing.
Untaken(t, k) ==
  job = <<>> /\ down = 0 /\ Len(up) = Msg + Before(t)[k + 1] /\ up[1] = t

\* The child has taken the message and j parts of it.
Taken(t, k) ==
  \E j \in 0 .. k :
    JobFrom(job, t, j) /\ down = 0 /\ Len(up) = Before(t)[k + 1] - Before(t)[j + 1]

\* The child has answered.
Answered(t, k) == k = Parts(t) /\ job = <<>> /\ up = <<>> /\ down = Receives(t) + Msg

\* The program is within an exchange, and so is the child.
Talking(t, k) ==
  RestTo(todo, 0, Parts(t) - k, t) /\ (Untaken(t, k) \/ Taken(t, k) \/ Answered(t, k))

Talk == Idle \/ \E t \in Type : \E k \in 0 .. Parts(t) : Talking(t, k)

\* What holds of the connection: once a signal has come, or the child is gone,
\* the two sides need not be in step.
LinkInv ==
  /\ LinkTypeOK
  /\ prog = "over" <=> sock = "closed"
  /\ radar = "serving" => sock \in {"up", "closed"}
  /\ prog = "run" => Exchanges(todo)
  /\ prog = "run" /\ sock = "up" => Talk

\* The connection is idle at first.
LEMMA LinkInvInit == LinkInit => LinkInv
<1> SUFFICES ASSUME LinkInit PROVE LinkInv
  OBVIOUS
<1>1. LinkTypeOK
  <2>1. /\ todo \in Seq(Step) /\ job \in Seq([op : {"take", "give"}, n : Nat])
        /\ up \in Seq(Type \cup {Other})
    BY EmptySeq DEF LinkInit
  <2> QED
    BY <2>1 DEF LinkInit, LinkTypeOK, SockState
<1>2. Exchanges(todo) /\ Idle
  BY DEF LinkInit, Exchanges, Idle, Between
<1> QED
  BY <1>1, <1>2 DEF LinkInit, LinkInv, Talk

\* What is left of a sequence when n elements are taken.
LEMMA Rest ==
  ASSUME NEW S, NEW q \in Seq(S), NEW n \in Nat
  PROVE  /\ Len(q) \in Nat /\ SubSeq(q, n + 1, Len(q)) \in Seq(S)
         /\ n <= Len(q) => Len(SubSeq(q, n + 1, Len(q))) = Len(q) - n
  OBVIOUS

\* The program sends a message or a part.
LEMMA SendKeeps ==
  ASSUME LinkInv, Send
  PROVE  LinkInv'
<1>1. /\ todo \in Seq(Step) /\ todo # <<>> /\ up \in Seq(Word) /\ IsSend(Head(todo)) /\ sock = "up"
      /\ up' = up \o Words(Head(todo)) /\ todo' = Tail(todo)
      /\ UNCHANGED <<prog, sock, radar, job, down, cut>>
  BY DEF Send, Inside, LinkInv, LinkTypeOK, Word
<1>2. Head(todo) \in Step /\ todo' \in Seq(Step)
  BY <1>1
<1> DEFINE w == Words(Head(todo))
<1>3. w \in Seq(Word)
  BY <1>1, <1>2, WordsOf DEF IsSend
<1>4. Head(todo).op = "msg" => Len(w) = Msg /\ w[1] = Head(todo).type
  BY <1>2, WordsOf
<1>5. Head(todo).op = "data" => Len(w) = Head(todo).n
  BY <1>2, WordsOf
<1> HIDE DEF w
<1>6. /\ up' \in Seq(Word) /\ Len(up') = Len(up) + Len(w) /\ Len(up) \in Nat /\ Len(w) \in Nat
      /\ \A i \in 1 .. Len(up) : up'[i] = up[i]
      /\ up = <<>> => up' = w
  <2>1. up' = up \o w /\ up \in Seq(Word)
    BY <1>1 DEF w
  <2> QED
    BY <1>3, <2>1
<1>7. LinkTypeOK'
  BY <1>1, <1>2, <1>6 DEF LinkInv, LinkTypeOK, Word
<1>8. prog = "run" => Exchanges(todo')
  BY <1>1, ExchangesTail DEF LinkInv
<1>9. ASSUME prog = "run" PROVE Talk'
  <2>1. CASE Idle
    <3>1. PICK t \in Type : t = Head(todo).type /\ Head(todo).op = "msg" /\ RestTo(todo', 0, Parts(t), t)
      BY <1>1, <1>9, <2>1, MessageTail DEF LinkInv, Idle
    <3>2. 0 \in 0 .. Parts(t) /\ Parts(t) - 0 = Parts(t) /\ Before(t)[0 + 1] = 0
      BY PartsType, ExchangeParts
    <3>3. job' = <<>> /\ down' = 0 /\ Len(up') = Msg + Before(t)[0 + 1] /\ up'[1] = t
      <4>1. up' = w /\ Len(w) = Msg /\ w[1] = t
        BY <1>4, <1>6, <2>1, <3>1 DEF Idle
      <4>2. Len(up') = Msg + Before(t)[0 + 1]
        BY <3>2, <4>1 DEF Msg
      <4> QED
        BY <1>1, <2>1, <4>1, <4>2 DEF Idle
    <3>4. Talking(t, 0)'
      BY <3>1, <3>2, <3>3 DEF Talking, Untaken
    <3> QED
      BY <3>2, <3>4 DEF Talk
  <2>2. ASSUME NEW t \in Type, NEW k \in 0 .. Parts(t), Talking(t, k) PROVE Talk'
    <3>0. Parts(t) \in Nat /\ k \in Nat
      BY PartsType
    <3>1. k # Parts(t)
      <4> SUFFICES ASSUME k = Parts(t) PROVE FALSE
        OBVIOUS
      <4>1. Parts(t) - k = 0
        BY <3>0
      <4>2. RestTo(todo, 0, 0, t)
        BY <2>2, <4>1 DEF Talking
      <4> QED
        BY <1>1, <4>2, ReceiveTail DEF ReceiveStep, IsSend
    <3>2. k \in 0 .. Parts(t) - 1 /\ k + 1 \in 0 .. Parts(t) /\ k + 1 \in 1 .. Parts(t)
      BY <3>0, <3>1
    <3>3. Head(todo) = DataStep(Sends(t)[k + 1]) /\ RestTo(todo', 0, Parts(t) - (k + 1), t)
      BY <1>1, <2>2, <3>2, DataTail DEF Talking
    <3>4. Len(w) = Sends(t)[k + 1]
      BY <1>5, <3>3 DEF DataStep
    <3>5. Before(t)[(k + 1) + 1] = Before(t)[k + 1] + Len(w) /\ Before(t)[k + 1] \in Nat
      <4>1. k + 1 \in 1 .. Len(Before(t))
        BY <3>0, <3>2, ExchangeParts
      <4>2. Before(t)[k + 1] \in Nat
        BY <4>1, ExchangeParts, ElementOfSeq
      <4> QED
        BY <3>2, <3>4, <4>2, ExchangeParts
    <3>6. CASE Untaken(t, k)
      <4>1. Len(up') = Msg + Before(t)[(k + 1) + 1]
        BY <1>6, <3>5, <3>6 DEF Untaken, Msg
      <4>2. up'[1] = t
        <5>1. 1 \in 1 .. Len(up)
          BY <3>5, <3>6 DEF Untaken, Msg
        <5> QED
          BY <1>6, <3>6, <5>1 DEF Untaken
      <4>3. Untaken(t, k + 1)'
        BY <1>1, <3>6, <4>1, <4>2 DEF Untaken
      <4>4. Talking(t, k + 1)'
        BY <3>3, <4>3 DEF Talking
      <4> QED
        BY <3>2, <4>4 DEF Talk
    <3>7. CASE Taken(t, k)
      <4>1. PICK j \in 0 .. k : /\ JobFrom(job, t, j) /\ down = 0
                                /\ Len(up) = Before(t)[k + 1] - Before(t)[j + 1]
        BY <3>7 DEF Taken
      <4>2. j \in 0 .. k + 1 /\ j + 1 \in 1 .. Len(Before(t))
        BY <3>0, <3>2, ExchangeParts
      <4>3. Before(t)[j + 1] \in Nat
        BY <4>2, ExchangeParts, ElementOfSeq
      <4>4. Len(up') = Before(t)[(k + 1) + 1] - Before(t)[j + 1]
        <5>1. Len(up') = (Before(t)[k + 1] - Before(t)[j + 1]) + Len(w)
          BY <1>6, <4>1
        <5>2. Len(w) \in Nat
          BY <1>6
        <5> QED
          BY <3>5, <4>3, <5>1, <5>2
      <4>5. JobFrom(job', t, j) /\ down' = 0
        BY <1>1, <4>1
      <4>6. Taken(t, k + 1)'
        BY <4>2, <4>4, <4>5 DEF Taken
      <4>7. Talking(t, k + 1)'
        BY <3>3, <4>6 DEF Talking
      <4> QED
        BY <3>2, <4>7 DEF Talk
    <3>8. ~ Answered(t, k)
      BY <3>1 DEF Answered
    <3> QED
      BY <2>2, <3>6, <3>7, <3>8 DEF Talking
  <2> QED
    BY <1>1, <1>9, <2>1, <2>2 DEF LinkInv, Talk
<1> QED
  BY <1>1, <1>7, <1>8, <1>9 DEF LinkInv

\* The program receives the answer: the child has taken all of the exchange.
LEMMA ReceiveKeeps ==
  ASSUME LinkInv, Receive
  PROVE  LinkInv'
<1>1. /\ todo \in Seq(Step) /\ todo # <<>> /\ ~ IsSend(Head(todo)) /\ down \in Nat
      /\ down >= Head(todo).n /\ down' = down - Head(todo).n /\ todo' = Tail(todo)
      /\ UNCHANGED <<prog, sock, radar, job, up, cut>>
  BY DEF Receive, Inside, LinkInv, LinkTypeOK
<1>2. Head(todo) \in Step /\ todo' \in Seq(Step)
  BY <1>1
<1>3. Head(todo).n \in Nat
  BY <1>1, <1>2 DEF IsSend, Step
<1>4. LinkTypeOK'
  <2>1. down' \in Nat
    BY <1>1, <1>3
  <2> QED
    BY <1>1, <1>2, <2>1 DEF LinkInv, LinkTypeOK
<1>5. prog = "run" => Exchanges(todo')
  BY <1>1, ExchangesTail DEF LinkInv
<1>6. ASSUME prog = "run", sock = "up" PROVE Talk'
  <2>1. ~ Idle
    BY <1>1, <1>6, MessageTail DEF LinkInv, Idle, IsSend
  <2>a. PICK t \in Type : \E k \in 0 .. Parts(t) : Talking(t, k)
    BY <1>6, <2>1 DEF LinkInv, Talk
  <2>2. PICK k \in 0 .. Parts(t) : Talking(t, k)
    BY <2>a
  <2>3. Parts(t) \in Nat
    BY PartsType
  <2>4. k = Parts(t)
    <3> SUFFICES ASSUME k # Parts(t) PROVE FALSE
      OBVIOUS
    <3>1. k \in 0 .. Parts(t) - 1
      BY <2>3
    <3> QED
      BY <1>1, <2>2, <3>1, DataTail DEF Talking, DataStep, IsSend
  <2>5. RestTo(todo, 0, 0, t)
    <3>1. Parts(t) - k = 0
      BY <2>3, <2>4
    <3> QED
      BY <2>2, <3>1 DEF Talking
  <2>6. Head(todo).n = Receives(t) + Msg /\ Receives(t) \in Nat /\ Between(todo')
    BY <1>1, <2>5, ReceiveTail, ExchangeParts DEF ReceiveStep
  <2>7. down # 0
    BY <1>1, <2>6 DEF Msg
  <2>8. Answered(t, k)
    BY <2>2, <2>7 DEF Talking, Untaken, Taken
  <2>9. down' = 0
    BY <1>1, <2>6, <2>8 DEF Answered, Msg
  <2> QED
    BY <1>1, <2>6, <2>8, <2>9 DEF Answered, Idle, Talk
<1> QED
  BY <1>1, <1>4, <1>5, <1>6 DEF LinkInv

\* The child takes a message, which is one, and not data of the one before.
LEMMA TakeMessageKeeps ==
  ASSUME LinkInv, TakeMessage
  PROVE  LinkInv'
<1>1. /\ todo \in Seq(Step) /\ job = <<>> /\ up \in Seq(Word) /\ down \in Nat
      /\ Len(up) >= Msg /\ up' = SubSeq(up, Msg + 1, Len(up))
      /\ job' = IF Head(up) = Other THEN <<GiveStep(Msg)>> ELSE Job(Head(up))
      /\ UNCHANGED <<prog, todo, sock, radar, down, cut>>
  BY DEF TakeMessage, LinkInv, LinkTypeOK, Word
<1>2. /\ Len(up) \in Nat /\ up' \in Seq(Word) /\ Len(up') = Len(up) - Msg
      /\ Head(up) = up[1] /\ up[1] \in Word
  <2>1. Msg \in Nat /\ Msg <= Len(up)
    BY <1>1 DEF Msg
  <2>2. Len(up) \in Nat /\ up' \in Seq(Word) /\ Len(up') = Len(up) - Msg
    BY <1>1, <2>1, Rest
  <2>3. up # <<>>
    BY <1>1 DEF Msg
  <2>4. Head(up) = up[1] /\ Head(up) \in Word
    BY <1>1, <2>3, HeadTailProperties
  <2> QED
    BY <2>2, <2>4
<1>3. LinkTypeOK'
  <2>1. job' \in Seq(JobStep)
    <3>1. CASE Head(up) = Other
      BY <1>1, <3>1 DEF JobStep, GiveStep, Msg
    <3>2. CASE Head(up) # Other
      BY <1>1, <1>2, <3>2, JobWhole DEF Word
    <3> QED
      BY <3>1, <3>2
  <2> QED
    BY <1>1, <1>2, <2>1 DEF LinkInv, LinkTypeOK, Word, JobStep
<1>4. ASSUME prog = "run", sock = "up" PROVE Talk'
  <2>1. ~ Idle
    BY <1>1 DEF Idle, Msg
  <2>a. PICK t \in Type : \E k \in 0 .. Parts(t) : Talking(t, k)
    BY <1>4, <2>1 DEF LinkInv, Talk
  <2>2. PICK k \in 0 .. Parts(t) : Talking(t, k)
    BY <2>a
  <2>3. ~ Answered(t, k)
    BY <1>1 DEF Answered, Msg
  <2>4. ~ Taken(t, k)
    <3> SUFFICES ASSUME NEW j \in 0 .. k, JobFrom(job, t, j) PROVE FALSE
      BY DEF Taken
    <3>1. Len(job) = Parts(t) - j + 1 /\ Parts(t) - j >= 0 /\ Len(job) = 0
      BY <1>1, PartsType DEF JobFrom
    <3> QED
      BY <3>1, PartsType
  <2>5. Untaken(t, k) /\ RestTo(todo', 0, Parts(t) - k, t)
    BY <1>1, <2>2, <2>3, <2>4 DEF Talking
  <2>6. t # Other
    BY DEF Type, Other
  <2>7. JobFrom(job', t, 0)
    BY <1>1, <1>2, <2>5, <2>6, JobWhole DEF Untaken
  <2>8. k \in 0 .. Parts(t) /\ 0 \in 0 .. k /\ Before(t)[0 + 1] = 0 /\ k + 1 \in 1 .. Len(Before(t))
    BY PartsType, ExchangeParts
  <2>9. Before(t)[k + 1] \in Nat
    BY <2>8, ExchangeParts, ElementOfSeq
  <2>10. down' = 0 /\ Len(up') = Before(t)[k + 1] - Before(t)[0 + 1]
    BY <1>1, <1>2, <2>5, <2>8, <2>9 DEF Untaken, Msg
  <2>11. Taken(t, k)'
    BY <2>7, <2>8, <2>10 DEF Taken
  <2>12. Talking(t, k)'
    BY <2>5, <2>11 DEF Talking
  <2> QED
    BY <2>12 DEF Talk
<1> QED
  BY <1>1, <1>3, <1>4 DEF LinkInv

\* The child takes a part, which is as long as it was sent.
LEMMA TakeDataKeeps ==
  ASSUME LinkInv, TakeData
  PROVE  LinkInv'
<1>1. /\ todo \in Seq(Step) /\ job \in Seq(JobStep) /\ job # <<>> /\ up \in Seq(Word)
      /\ Head(job).op = "take"
      /\ Len(up) >= Head(job).n \/ sock = "closed"
      /\ up' = SubSeq(up, Head(job).n + 1, Len(up)) /\ job' = Tail(job)
      /\ UNCHANGED <<prog, todo, sock, radar, down, cut>>
  BY DEF TakeData, LinkInv, LinkTypeOK, Word, Closed, JobStep
<1>2. Head(job) \in JobStep /\ Head(job).n \in Nat /\ job' \in Seq(JobStep)
  <2>1. Head(job) \in JobStep /\ job' \in Seq(JobStep)
    BY <1>1, HeadTailProperties
  <2> QED
    BY <2>1 DEF JobStep
<1>3. /\ up' \in Seq(Word) /\ Len(up) \in Nat
      /\ Len(up) >= Head(job).n => Len(up') = Len(up) - Head(job).n
  <2>1. PICK n \in Nat : n = Head(job).n
    BY <1>2
  <2> QED
    BY <1>1, <2>1, Rest
<1>4. LinkTypeOK'
  BY <1>1, <1>2, <1>3 DEF LinkInv, LinkTypeOK, Word, JobStep
<1>5. ASSUME prog = "run", sock = "up" PROVE Talk'
  <2>1. ~ Idle
    BY <1>1 DEF Idle
  <2>a. PICK t \in Type : \E k \in 0 .. Parts(t) : Talking(t, k)
    BY <1>5, <2>1 DEF LinkInv, Talk
  <2>2. PICK k \in 0 .. Parts(t) : Talking(t, k)
    BY <2>a
  <2>3. Taken(t, k) /\ RestTo(todo', 0, Parts(t) - k, t)
    BY <1>1, <2>2 DEF Talking, Untaken, Answered
  <2>4. PICK j \in 0 .. k : /\ JobFrom(job, t, j) /\ down = 0
                            /\ Len(up) = Before(t)[k + 1] - Before(t)[j + 1]
    BY <2>3 DEF Taken
  <2>5. Parts(t) \in Nat /\ j \in 0 .. Parts(t)
    BY PartsType
  <2>6. j # Parts(t)
    <3> SUFFICES ASSUME j = Parts(t) PROVE FALSE
      OBVIOUS
    <3>1. JobFrom(job, t, Parts(t))
      BY <2>4
    <3>2. Head(job) = GiveStep(Receives(t) + Msg)
      BY <1>1, <3>1, JobEnd
    <3> QED
      BY <1>1, <3>2 DEF GiveStep
  <2>7. j \in 0 .. Parts(t) - 1 /\ j + 1 \in 1 .. Parts(t)
    BY <2>5, <2>6
  <2>8. Head(job) = TakeStep(Sends(t)[j + 1]) /\ JobFrom(job', t, j + 1)
    BY <1>1, <2>4, <2>7, JobTail
  <2>9. Head(job).n = Sends(t)[j + 1]
    BY <2>8 DEF TakeStep
  <2>10. Head(job).n # 0 /\ Before(t)[(j + 1) + 1] = Before(t)[j + 1] + Head(job).n
    BY <2>7, <2>9, ExchangeParts
  <2>11. Len(up) >= Head(job).n
    BY <1>1, <1>5
  <2>12. j # k
    <3> SUFFICES ASSUME j = k PROVE FALSE
      OBVIOUS
    <3>1. k + 1 \in 1 .. Len(Before(t))
      BY <2>5, ExchangeParts
    <3>2. Before(t)[k + 1] \in Nat
      BY <3>1, ExchangeParts, ElementOfSeq
    <3>3. Len(up) = 0
      BY <2>4, <3>2
    <3> QED
      BY <1>2, <2>10, <2>11, <3>3
  <2>13. Before(t)[j + 1] \in Nat /\ Before(t)[k + 1] \in Nat /\ j + 1 \in 0 .. k
    <3>1. j < k /\ j + 1 \in 0 .. k
      BY <2>5, <2>12
    <3> QED
      BY <2>5, <3>1, BeforeGrows
  <2>14. Len(up') = Before(t)[k + 1] - Before(t)[(j + 1) + 1]
    <3>1. Len(up') = Len(up) - Head(job).n
      BY <1>3, <2>11
    <3> QED
      BY <1>2, <2>4, <2>10, <2>13, <3>1
  <2>15. Taken(t, k)'
    BY <1>1, <2>4, <2>8, <2>13, <2>14 DEF Taken
  <2>16. Talking(t, k)'
    BY <2>3, <2>15 DEF Talking
  <2> QED
    BY <2>16 DEF Talk
<1> QED
  BY <1>1, <1>4, <1>5 DEF LinkInv

\* The child answers.
LEMMA GiveKeeps ==
  ASSUME LinkInv, Give
  PROVE  LinkInv'
<1>1. /\ job \in Seq(JobStep) /\ job # <<>> /\ Head(job).op = "give"
      /\ down \in Nat /\ up \in Seq(Word)
      /\ down' = (IF sock = "closed" THEN 0 ELSE down + Head(job).n) /\ job' = Tail(job)
      /\ UNCHANGED <<prog, todo, sock, radar, up, cut>>
  BY DEF Give, LinkInv, LinkTypeOK, Word, Closed, JobStep
<1>2. Head(job) \in JobStep /\ Head(job).n \in Nat /\ job' \in Seq(JobStep)
  <2>1. Head(job) \in JobStep /\ job' \in Seq(JobStep)
    BY <1>1, HeadTailProperties
  <2> QED
    BY <2>1 DEF JobStep
<1>3. LinkTypeOK'
  <2>1. down' \in Nat
    BY <1>1, <1>2
  <2> QED
    BY <1>1, <1>2, <2>1 DEF LinkInv, LinkTypeOK, JobStep
<1>4. ASSUME prog = "run", sock = "up" PROVE Talk'
  <2>1. ~ Idle
    BY <1>1 DEF Idle
  <2>a. PICK t \in Type : \E k \in 0 .. Parts(t) : Talking(t, k)
    BY <1>4, <2>1 DEF LinkInv, Talk
  <2>2. PICK k \in 0 .. Parts(t) : Talking(t, k)
    BY <2>a
  <2>3. Taken(t, k) /\ RestTo(todo', 0, Parts(t) - k, t)
    BY <1>1, <2>2 DEF Talking, Untaken, Answered
  <2>4. PICK j \in 0 .. k : /\ JobFrom(job, t, j) /\ down = 0
                            /\ Len(up) = Before(t)[k + 1] - Before(t)[j + 1]
    BY <2>3 DEF Taken
  <2>5. Parts(t) \in Nat
    BY PartsType
  <2>6. j = Parts(t)
    <3> SUFFICES ASSUME j # Parts(t) PROVE FALSE
      OBVIOUS
    <3>1. j \in 0 .. Parts(t) - 1
      BY <2>5
    <3> QED
      BY <1>1, <2>4, <3>1, JobTail DEF TakeStep
  <2>7. k = Parts(t) /\ j = k
    BY <2>5, <2>6
  <2>8. Head(job) = GiveStep(Receives(t) + Msg) /\ job' = <<>>
    BY <1>1, <2>4, <2>6, JobEnd
  <2>9. up' = <<>>
    <3>1. k + 1 \in 1 .. Len(Before(t))
      BY <2>5, ExchangeParts
    <3>2. Before(t)[k + 1] \in Nat
      BY <3>1, ExchangeParts, ElementOfSeq
    <3>3. Len(up) = 0
      BY <2>4, <2>7, <3>2
    <3> QED
      BY <1>1, <3>3, EmptySeq
  <2>10. down' = Receives(t) + Msg
    BY <1>1, <1>4, <2>4, <2>8, ExchangeParts DEF GiveStep, Msg
  <2>11. Talking(t, k)'
    BY <2>3, <2>7, <2>8, <2>9, <2>10 DEF Talking, Answered
  <2> QED
    BY <2>11 DEF Talk
<1> QED
  BY <1>1, <1>3, <1>4 DEF LinkInv

-----------------------------------------------------------------------------
(* Every call of the loop.                                                 *)

\* One of the two ends.
LEMMA OthersKeep ==
  ASSUME LinkInv, SendUnheard \/ ReceiveFails \/ RadarDies \/ EndOfFile
  PROVE  LinkInv'
<1> USE DEF LinkInv, LinkTypeOK
<1>1. CASE SendUnheard
  <2>1. /\ todo \in Seq(Step) /\ todo # <<>> /\ todo' = Tail(todo) /\ sock \in {"fin", "err"}
        /\ sock' = "reset" /\ UNCHANGED <<prog, radar, job, up, down, cut>>
    BY <1>1 DEF SendUnheard, Inside
  <2>2. todo' \in Seq(Step)
    BY <2>1
  <2>3. prog = "run" => Exchanges(todo')
    BY <2>1, ExchangesTail
  <2> QED
    BY <2>1, <2>2, <2>3 DEF SockState
<1>2. CASE ReceiveFails
  <2>1. /\ todo \in Seq(Step) /\ todo # <<>> /\ todo' = Tail(todo) /\ sock \in {"fin", "err", "reset"}
        /\ sock' = (IF sock = "err" THEN "reset" ELSE sock)
        /\ down' = 0 /\ UNCHANGED <<prog, radar, job, up, cut>>
    BY <1>2 DEF ReceiveFails, Inside
  <2>2. todo' \in Seq(Step)
    BY <2>1
  <2>3. prog = "run" => Exchanges(todo')
    BY <2>1, ExchangesTail
  <2> QED
    BY <2>1, <2>2, <2>3 DEF SockState
<1>3. CASE RadarDies
  <2>1. /\ radar = "serving" /\ radar' = "gone" /\ job' = <<>> /\ up' = <<>>
        /\ sock' \in {"fin", "err", "closed"} /\ (sock' = "closed" <=> sock = "closed")
        /\ UNCHANGED <<prog, todo, down, cut>>
    BY <1>3 DEF RadarDies, Closed
  <2>2. job' \in Seq([op : {"take", "give"}, n : Nat]) /\ up' \in Seq(Type \cup {Other})
    BY <2>1, EmptySeq
  <2> QED
    BY <2>1, <2>2 DEF SockState
<1>4. CASE EndOfFile
  <2>1. /\ radar = "serving" /\ radar' = "gone" /\ up' = <<>> /\ sock = "closed"
        /\ UNCHANGED <<prog, todo, sock, job, down, cut>>
    BY <1>4 DEF EndOfFile, Closed
  <2>2. up' \in Seq(Type \cup {Other})
    BY <2>1, EmptySeq
  <2> QED
    BY <2>1, <2>2 DEF SockState
<1> QED
  BY <1>1, <1>2, <1>3, <1>4

\* The program ends, or is told to.
LEMMA EndKeeps ==
  ASSUME LinkInv, End \/ Signal
  PROVE  LinkInv'
<1> USE DEF LinkInv, LinkTypeOK
<1>1. CASE End
  <2>1. todo' \in Seq(Step)
    BY <1>1, EmptySeq DEF End
  <2> QED
    BY <1>1, <2>1 DEF End, SockState
<1>2. CASE Signal
  <2>1. todo' \in Seq(Step)
    BY <1>2, ExchangeWhole DEF Signal, Type
  <2>2. cut' \in BOOLEAN
    BY <1>2 DEF Signal, Owing
  <2> QED
    BY <1>2, <2>1, <2>2 DEF Signal
<1> QED
  BY <1>1, <1>2

\* Every step of the connection keeps the invariant.
LEMMA LinkKeeps ==
  ASSUME LinkInv, LinkStep
  PROVE  LinkInv'
<1>1. SigPipe \/ QuitDone \/ Killed => End
  BY DEF SigPipe, QuitDone, Killed
<1> QED
  BY <1>1, SendKeeps, ReceiveKeeps, TakeMessageKeeps, TakeDataKeeps, GiveKeeps, OthersKeep,
     EndKeeps DEF LinkStep, Communicate, Operate, Faults

\* Between two calls of the site library the connection is idle.
LEMMA BetweenCalls ==
  ASSUME LinkInv, Connected, sock = "up"
  PROVE  Idle
<1> SUFFICES ASSUME NEW t \in Type, NEW k \in 0 .. Parts(t), Talking(t, k) PROVE FALSE
  BY DEF LinkInv, Connected, Talk
<1>1. Parts(t) - k + 1 <= Len(todo)
  BY DEF Talking, RestTo
<1>2. Len(todo) = 0
  BY DEF Connected
<1>3. Parts(t) \in Nat
  BY PartsType
<1> QED
  BY <1>1, <1>2, <1>3

\* What a routine of the site library may send and receive.
Calls == {list \in Seq(Step) : Exchanges(list) /\ Between(list)}

\* Exchanges, and what is made of them, are calls.
LEMMA CallsWhole ==
  /\ <<>> \in Calls
  /\ \A t \in Type : Exchange(t) \in Calls /\ Exchange(t) # <<>>
  /\ \A a, b \in Calls : a \o b \in Calls
<1>1. <<>> \in Calls
  BY EmptySeq DEF Calls, Exchanges, Between
<1>2. \A t \in Type : Exchange(t) \in Calls /\ Exchange(t) # <<>>
  BY ExchangeWhole DEF Calls
<1>3. ASSUME NEW a \in Calls, NEW b \in Calls PROVE a \o b \in Calls
  <2>1. a \in Seq(Step) /\ b \in Seq(Step) /\ Exchanges(a) /\ Exchanges(b) /\ Between(a) /\ Between(b)
    BY DEF Calls
  <2>2. a \o b \in Seq(Step) /\ Exchanges(a \o b) /\ Between(a \o b)
    BY <2>1, Joined
  <2> QED
    BY <2>2 DEF Calls
<1> QED
  BY <1>1, <1>2, <1>3

\* The program calls a routine between two others.
Calling == \E list \in Calls : Begin(list) /\ UNCHANGED <<prog, sock, radar, job, up, down, cut>>

\* A call begins where the last one has ended.
LEMMA CallingKeeps ==
  ASSUME LinkInv, Calling
  PROVE  LinkInv'
<1>1. PICK list \in Calls : Begin(list) /\ UNCHANGED <<prog, sock, radar, job, up, down, cut>>
  BY DEF Calling
<1>2. todo' \in Seq(Step) /\ Exchanges(todo') /\ Between(todo')
  BY <1>1 DEF Calls, Begin
<1>3. LinkTypeOK'
  BY <1>1, <1>2 DEF LinkInv, LinkTypeOK
<1>4. ASSUME sock = "up" PROVE Talk'
  <2>1. Idle
    BY <1>1, <1>4, BetweenCalls DEF Begin
  <2> QED
    BY <1>1, <1>2, <2>1 DEF Talk, Idle
<1> QED
  BY <1>1, <1>2, <1>3, <1>4 DEF LinkInv

\* Every step of the loop is a call, of no exchange at least.
LEMMA LoopCalls == Loop => Calling
<1> SUFFICES ASSUME Loop PROVE Calling
  OBVIOUS
<1>1. ASSUME NEW list \in Calls, NEW a, NEW b, Do(a, list, b) PROVE Calling
  BY <1>1 DEF Do, Calling
<1>2. /\ "SET_RADAR_CHAN" \in Type /\ "GET_PARAMETERS" \in Type /\ "REGISTER_SEQ" \in Type
      /\ "PING" \in Type /\ "SET_PARAMETERS" \in Type /\ "REQUEST_CLEAR_FREQ_SEARCH" \in Type
      /\ "REQUEST_ASSIGNED_FREQ" \in Type /\ "SET_READY_FLAG" \in Type /\ "GET_DATA" \in Type
  BY DEF Type
<1>3. CASE SetupRadar
  <2>1. Exchange("SET_RADAR_CHAN") \o Exchange("GET_PARAMETERS") \in Calls
    BY <1>2, CallsWhole
  <2> QED
    BY <1>1, <1>3, <2>1 DEF SetupRadar
<1>4. CASE TimeSeq \/ Wait
  BY <1>1, <1>2, <1>4, CallsWhole DEF TimeSeq, Wait
<1>5. CASE StartScan \/ Integrate \/ IntegrateDone \/ EndScan \/ Boundary
  BY <1>1, <1>5, CallsWhole DEF StartScan, Integrate, IntegrateDone, EndScan, Boundary
<1>6. CASE StartIntt
  <2>1. Exchange("PING") \o Exchange("GET_PARAMETERS") \o Exchange("SET_PARAMETERS") \in Calls
    BY <1>2, CallsWhole
  <2> QED
    BY <1>1, <1>6, <2>1 DEF StartIntt
<1>7. CASE FCLR
  <2>1. Exchange("REQUEST_CLEAR_FREQ_SEARCH") \o Exchange("REQUEST_ASSIGNED_FREQ") \in Calls
    BY <1>2, CallsWhole
  <2> QED
    BY <1>1, <1>7, <2>1 DEF FCLR
<1>8. CASE Sequence
  <2>1. Exchange("SET_PARAMETERS") \o Exchange("SET_READY_FLAG")
          \o Exchange("GET_DATA") \o Exchange("GET_PARAMETERS") \in Calls
    BY <1>2, CallsWhole
  <2> QED
    BY <1>1, <1>8, <2>1 DEF Sequence
<1>9. ASSUME NEW d \in Dur \cup {0}, Sum(d) PROVE Calling
  BY <1>1, <1>9, CallsWhole DEF Sum
<1>10. ASSUME NEW s, NEW e, NEW b, NEW x, Record(s, e, b, x) PROVE Calling
  BY <1>1, <1>10, CallsWhole DEF Record
<1>11. CASE RecordOnly \/ RecordAndEdit
  BY <1>10, <1>11 DEF RecordOnly, RecordAndEdit
<1> QED
  BY <1>3, <1>4, <1>5, <1>6, <1>7, <1>8, <1>9, <1>11 DEF Loop

\* The two sides fit together in every state.
LEMMA LinkCorrect == Spec => []LinkInv
<1>1. Init => LinkInv
  BY LinkInvInit DEF Init
<1>2. LinkInv /\ [Next]_vars => LinkInv'
  <2> SUFFICES ASSUME LinkInv, [Next]_vars PROVE LinkInv'
    OBVIOUS
  <2>1. CASE UNCHANGED vars
    <3>1. UNCHANGED <<prog, todo, sock, radar, job, up, down, cut>>
      BY <2>1 DEF vars, linkVars
    <3> QED
      BY <3>1 DEF LinkInv, LinkTypeOK, Talk, Idle, Talking, Untaken, Taken, Answered
  <2>2. CASE Loop
    BY <2>2, LoopCalls, CallingKeeps
  <2>3. CASE Link
    BY <2>3, LinkKeeps DEF Link
  <2>4. CASE Over
    BY <2>1, <2>4 DEF Over
  <2> QED
    BY <2>1, <2>2, <2>3, <2>4 DEF Next
<1> QED
  BY <1>1, <1>2, PTL DEF Spec

\* Within an exchange the child has, or will have, what it waits for.
LEMMA InExchange ==
  ASSUME LinkInv, NEW t \in Type, NEW k \in 0 .. Parts(t), Talking(t, k)
  PROVE  /\ todo # <<>>
         /\ job = <<>> /\ up # <<>> => Head(up) # Other
         /\ k < Parts(t) => /\ Head(todo).op = "data" /\ down = 0
                            /\ job # <<>> => Head(job).op = "take"
         /\ k = Parts(t) => /\ Head(todo).op = "recv"
                            /\ \/ down = Head(todo).n /\ job = <<>> /\ up = <<>>
                               \/ down = 0 /\ Len(up) >= Wanted
<1>1. /\ todo \in Seq(Step) /\ up \in Seq(Word) /\ job \in Seq(JobStep)
      /\ Parts(t) \in Nat /\ k \in Nat
  BY PartsType DEF LinkInv, LinkTypeOK, Word, JobStep
<1>2. ASSUME k < Parts(t) PROVE todo # <<>> /\ Head(todo).op = "data"
  <2>1. k \in 0 .. Parts(t) - 1
    BY <1>1, <1>2
  <2> QED
    BY <1>1, <2>1, DataTail DEF Talking, DataStep
<1>3. ASSUME k = Parts(t) PROVE todo # <<>> /\ Head(todo) = ReceiveStep(Receives(t) + Msg)
  <2>1. Parts(t) - k = 0
    BY <1>1, <1>3
  <2> QED
    BY <1>1, <2>1, ReceiveTail DEF Talking
<1>4. todo # <<>> /\ (k < Parts(t) \/ k = Parts(t))
  BY <1>1, <1>2, <1>3
<1>5. /\ k < Parts(t) => Head(todo).op = "data"
      /\ k = Parts(t) => Head(todo).op = "recv" /\ Head(todo).n = Receives(t) + Msg
  BY <1>2, <1>3 DEF ReceiveStep
<1>6. k + 1 \in 1 .. Len(Before(t)) /\ Before(t)[k + 1] \in Nat
  <2>1. k + 1 \in 1 .. Len(Before(t))
    BY <1>1, ExchangeParts
  <2> QED
    BY <2>1, ExchangeParts, ElementOfSeq
<1>7. CASE Untaken(t, k)
  <2>1. job = <<>> /\ down = 0 /\ Len(up) = Msg + Before(t)[k + 1] /\ up[1] = t
    BY <1>7 DEF Untaken
  <2>2. Len(up) >= Msg /\ Wanted = Msg
    BY <1>6, <2>1 DEF Msg, Wanted
  <2>3. Head(up) # Other
    <3>1. up # <<>>
      BY <2>2 DEF Msg
    <3> QED
      BY <1>1, <2>1, <3>1, HeadTailProperties DEF Type, Other
  <2> QED
    BY <1>4, <1>5, <2>1, <2>2, <2>3
<1>8. ASSUME NEW j \in 0 .. k, JobFrom(job, t, j), down = 0,
             Len(up) = Before(t)[k + 1] - Before(t)[j + 1]
      PROVE  /\ job # <<>> /\ (k < Parts(t) => Head(job).op = "take")
             /\ k = Parts(t) => Len(up) >= Wanted
  <2>1. CASE j = Parts(t)
    <3>1. job # <<>> /\ Head(job).op = "give"
      BY <1>1, <1>8, <2>1, JobEnd DEF GiveStep
    <3>2. Wanted = 0 /\ Len(up) \in Nat /\ k = Parts(t)
      BY <1>1, <2>1, <3>1 DEF Wanted
    <3> QED
      BY <3>1, <3>2
  <2>2. CASE j # Parts(t)
    <3>1. j \in 0 .. Parts(t) - 1 /\ j + 1 \in 0 .. Parts(t) /\ j + 1 \in 1 .. Parts(t)
      BY <1>1, <2>2
    <3>2. job # <<>> /\ Head(job).op = "take" /\ Head(job).n = Sends(t)[j + 1]
      BY <1>1, <1>8, <3>1, JobTail DEF TakeStep
    <3>3. ASSUME k = Parts(t) PROVE Len(up) >= Wanted
      <4>1. /\ Before(t)[(j + 1) + 1] = Before(t)[j + 1] + Sends(t)[j + 1]
            /\ Sends(t)[j + 1] \in Nat /\ Wanted = Sends(t)[j + 1]
        BY <3>1, <3>2, ExchangeParts DEF Wanted
      <4>2. Before(t)[j + 1] \in Nat
        <5>1. j < j + 1 /\ j \in 0 .. Parts(t)
          BY <1>1, <3>1
        <5> QED
          BY <3>1, <5>1, BeforeGrows
      <4>3. Before(t)[(j + 1) + 1] <= Before(t)[k + 1]
        <5>1. CASE j + 1 = k
          BY <1>6, <5>1
        <5>2. CASE j + 1 # k
          <6>1. j + 1 < k
            BY <3>1, <3>3, <5>2, <1>1
          <6> QED
            BY <3>1, <6>1, BeforeGrows
        <5> QED
          BY <5>1, <5>2
      <4> QED
        BY <1>6, <1>8, <4>1, <4>2, <4>3
    <3> QED
      BY <3>2, <3>3
  <2> QED
    BY <2>1, <2>2
<1>9. CASE Taken(t, k)
  <2>1. PICK j \in 0 .. k : /\ JobFrom(job, t, j) /\ down = 0
                            /\ Len(up) = Before(t)[k + 1] - Before(t)[j + 1]
    BY <1>9 DEF Taken
  <2> QED
    BY <1>4, <1>5, <1>8, <2>1
<1>10. CASE Answered(t, k)
  <2>1. k = Parts(t) /\ job = <<>> /\ up = <<>> /\ down = Receives(t) + Msg
    BY <1>10 DEF Answered
  <2> QED
    BY <1>1, <1>4, <1>5, <2>1
<1> QED
  BY <1>7, <1>9, <1>10 DEF Talking

(***************************************************************************)
(* While the radar is there and no signal has come, the two sides stay in  *)
(* step within each exchange and between them: the parts both sides write  *)
(* down by hand are the same, in number, order and length, for every       *)
(* length of the structures (site.c:82-443, radar.c:71-177).               *)
(***************************************************************************)
THEOREM InStepHolds == Spec => []InStep
<1>1. LinkInv => InStep
  <2> SUFFICES ASSUME LinkInv, prog = "run", sock = "up" PROVE InStep
    BY DEF InStep
  <2>1. CASE Idle
    <3>1. todo = <<>> \/ Head(todo).op = "msg"
      BY <2>1, HeadTailProperties DEF Idle, Between, LinkInv, LinkTypeOK
    <3> QED
      BY <2>1, <3>1 DEF Idle, InStep
  <2>2. ASSUME NEW t \in Type, NEW k \in 0 .. Parts(t), Talking(t, k) PROVE InStep
    <3>1. k < Parts(t) \/ k = Parts(t)
      BY PartsType
    <3> QED
      BY <2>2, <3>1, InExchange DEF InStep
  <2> QED
    BY <2>1, <2>2 DEF LinkInv, Talk
<1> QED
  BY <1>1, LinkCorrect, PTL

-----------------------------------------------------------------------------
(* A radar that is gone.                                                   *)

\* Two messages are still to be sent, or one when the next brings SIGPIPE.
WillSend(list) ==
  \E i \in 1 .. Len(list) :
    /\ IsSend(list[i])
    /\ sock # "reset" => \E j \in 1 .. i - 1 : IsSend(list[j])

\* After a record that was made without a radar the loop comes to SiteStartIntt()
\* or SiteEndScan(), and not beyond them.
LateInv ==
  /\ late \in {0, 1}
  /\ late = 1 =>
       /\ prog = "run" /\ sock \in {"fin", "err", "reset"}
       /\ pc \in {"beam", "endscan", "wait", "scan", "intt"}
       /\ pc = "intt" => WillSend(todo)

\* SiteStartIntt() sends three messages.
LEMMA WillSendThree ==
  ASSUME NEW a \in Type, NEW b \in Type, NEW c \in Type
  PROVE  WillSend(Exchange(a) \o Exchange(b) \o Exchange(c))
<1> DEFINE x == Exchange(a)
           y == Exchange(b)
           z == Exchange(c)
<1>1. /\ x \in Seq(Step) /\ y \in Seq(Step) /\ z \in Seq(Step)
      /\ x # <<>> /\ y # <<>> /\ x[1].op = "msg" /\ y[1].op = "msg"
  BY ExchangeWhole DEF Between
<1> HIDE DEF x, y, z
<1> DEFINE l == x \o y \o z
<1>2. Len(x) \in Nat /\ Len(x) >= 1 /\ Len(y) \in Nat /\ Len(y) >= 1 /\ Len(z) \in Nat
  BY <1>1, Tails
<1>3. Len(l) = Len(x) + Len(y) + Len(z) /\ l[1] = x[1] /\ l[Len(x) + 1] = y[1]
  BY <1>1, <1>2
<1> HIDE DEF l
<1>4. IsSend(l[1]) /\ IsSend(l[Len(x) + 1])
  BY <1>1, <1>3 DEF IsSend
<1>5. Len(x) + 1 \in 1 .. Len(l) /\ 1 \in 1 .. (Len(x) + 1) - 1
  BY <1>2, <1>3
<1>6. WillSend(l)
  BY <1>4, <1>5 DEF WillSend
<1> QED
  BY <1>6 DEF l, x, y, z

\* A step of the connection brings SIGPIPE closer.
LEMMA LinkKeepsLate ==
  ASSUME LinkInv, LateInv, LinkStep, prog' = "run", UNCHANGED <<pc, late>>
  PROVE  LateInv'
<1> SUFFICES ASSUME late = 1
             PROVE  sock' \in {"fin", "err", "reset"} /\ (pc = "intt" => WillSend(todo)')
  BY DEF LateInv
<1>1. /\ prog = "run" /\ sock \in {"fin", "err", "reset"} /\ radar # "serving" /\ todo \in Seq(Step)
      /\ pc = "intt" => WillSend(todo)
  BY DEF LateInv, LinkInv, LinkTypeOK
<1>2. CASE UNCHANGED <<todo, sock>>
  BY <1>1, <1>2 DEF WillSend
<1>3. CASE SendUnheard
  <2>1. /\ todo # <<>> /\ sock \in {"fin", "err"} /\ sock' = "reset" /\ todo' = Tail(todo)
    BY <1>3 DEF SendUnheard, Inside
  <2>2. ASSUME pc = "intt" PROVE WillSend(todo)'
    <3>1. PICK i \in 1 .. Len(todo) : IsSend(todo[i]) /\ \E j \in 1 .. i - 1 : IsSend(todo[j])
      BY <1>1, <2>1, <2>2 DEF WillSend
    <3>2. i - 1 \in 1 .. Len(todo) - 1 /\ (i - 1) + 1 = i /\ Len(todo) \in Nat
      BY <1>1, <2>1, <3>1, Tails
    <3>3. todo'[i - 1] = todo[i] /\ i - 1 \in 1 .. Len(todo')
      BY <1>1, <2>1, <3>2, Tails
    <3> QED
      BY <2>1, <3>1, <3>3 DEF WillSend
  <2> QED
    BY <2>1, <2>2
<1>4. CASE ReceiveFails \/ Receive
  <2>1. /\ todo # <<>> /\ sock' \in {"fin", "reset", sock} /\ todo' = Tail(todo) /\ ~ IsSend(Head(todo))
        /\ sock' # "reset" => sock # "reset"
    BY <1>1, <1>4 DEF ReceiveFails, Receive, Inside
  <2>2. ASSUME pc = "intt" PROVE WillSend(todo)'
    <3>1. ~ IsSend(todo[1]) /\ Len(todo) \in Nat /\ \A i \in 1 .. Len(todo) - 1 : todo'[i] = todo[i + 1]
          /\ Len(todo') = Len(todo) - 1
      BY <1>1, <2>1, Tails
    <3>2. PICK i \in 1 .. Len(todo) : /\ IsSend(todo[i])
                                      /\ sock # "reset" => \E j \in 1 .. i - 1 : IsSend(todo[j])
      BY <1>1, <2>2 DEF WillSend
    <3>3. ASSUME NEW h \in 1 .. Len(todo), IsSend(todo[h])
          PROVE  h - 1 \in 1 .. Len(todo') /\ IsSend(todo'[h - 1])
      <4>1. h # 1
        BY <3>1, <3>3
      <4>2. h - 1 \in 1 .. Len(todo) - 1 /\ (h - 1) + 1 = h
        BY <3>1, <4>1
      <4> QED
        BY <3>1, <3>3, <4>2
    <3>4. ASSUME sock' # "reset" PROVE \E j \in 1 .. (i - 1) - 1 : IsSend(todo'[j])
      <4>1. PICK j \in 1 .. i - 1 : IsSend(todo[j])
        BY <2>1, <3>2, <3>4
      <4>2. j \in 1 .. Len(todo)
        BY <3>1
      <4>3. j - 1 \in 1 .. Len(todo') /\ IsSend(todo'[j - 1])
        BY <3>3, <4>1, <4>2
      <4>4. j - 1 \in 1 .. (i - 1) - 1
        BY <4>3
      <4> QED
        BY <4>3, <4>4
    <3>5. i - 1 \in 1 .. Len(todo') /\ IsSend(todo'[i - 1])
      BY <3>2, <3>3
    <3> QED
      BY <3>4, <3>5 DEF WillSend
  <2> QED
    BY <1>1, <2>1, <2>2
<1>5. ~ Send
  BY <1>1 DEF Send
<1>6. ~ (SigPipe \/ QuitDone \/ Killed \/ Signal)
  BY DEF SigPipe, QuitDone, Killed, Signal, End
<1>7. ~ (Operate \/ RadarDies)
  BY <1>1 DEF Operate, TakeMessage, TakeData, Give, EndOfFile, RadarDies
<1> QED
  BY <1>2, <1>3, <1>4, <1>5, <1>6, <1>7 DEF LinkStep, Communicate, Faults

\* A step of the loop makes one late record at most.
LEMMA LoopKeepsLate ==
  ASSUME LinkInv, LateInv, Loop
  PROVE  LateInv'
<1>1. prog = "run" /\ todo = <<>> /\ sock # "closed"
  BY LoopCalls DEF Calling, Begin, Connected, LinkInv
<1>2. sock \in {"up", "fin", "err", "reset"}
  BY <1>1 DEF LinkInv, LinkTypeOK, SockState
<1>3. ~ WillSend(todo)
  BY <1>1 DEF WillSend
<1>4. UNCHANGED <<prog, sock>>
  BY LoopCalls DEF Calling
<1> USE DEF Do, LateInv, Begin
<1>5. CASE SetupRadar \/ TimeSeq \/ FCLR
  BY <1>3, <1>4, <1>5 DEF SetupRadar, TimeSeq, FCLR
<1>6. CASE Integrate \/ Sequence \/ IntegrateDone
  BY <1>3, <1>4, <1>6 DEF Integrate, Sequence, IntegrateDone
<1>7. ASSUME NEW d \in Dur \cup {0}, Sum(d) PROVE LateInv'
  BY <1>3, <1>4, <1>7 DEF Sum
<1>8. CASE StartScan \/ EndScan \/ Wait \/ Boundary
  BY <1>4, <1>8 DEF StartScan, EndScan, Wait, Boundary
<1>9. CASE StartIntt
  <2>1. WillSend(Exchange("PING") \o Exchange("GET_PARAMETERS") \o Exchange("SET_PARAMETERS"))
    BY WillSendThree DEF Type
  <2>2. /\ todo' = Exchange("PING") \o Exchange("GET_PARAMETERS") \o Exchange("SET_PARAMETERS")
        /\ late' = late /\ pc' = "intt"
    BY <1>9 DEF StartIntt
  <2>3. WillSend(todo)'
    BY <1>4, <2>1, <2>2 DEF WillSend
  <2> QED
    BY <1>4, <2>2, <2>3
<1>10. ASSUME NEW s, NEW e, NEW b, NEW x, Record(s, e, b, x) PROVE LateInv'
  BY <1>1, <1>2, <1>4, <1>10 DEF Record
<1>11. CASE RecordOnly \/ RecordAndEdit
  BY <1>10, <1>11 DEF RecordOnly, RecordAndEdit
<1> QED
  BY <1>5, <1>6, <1>7, <1>8, <1>9, <1>11 DEF Loop

\* One record at most is late, in every state.
LEMMA LateCorrect == Spec => []LateInv
<1>1. Init => LateInv
  BY DEF Init, LateInv
<1>2. LinkInv /\ LateInv /\ [Next]_vars => LateInv'
  <2> SUFFICES ASSUME LinkInv, LateInv, [Next]_vars PROVE LateInv'
    OBVIOUS
  <2>1. CASE UNCHANGED vars
    BY <2>1 DEF vars, linkVars, LateInv, WillSend
  <2>2. CASE Link
    <3>1. CASE prog' = "run"
      BY <2>2, <3>1, LinkKeepsLate DEF Link
    <3>2. CASE prog' # "run"
      BY <2>2, <3>2 DEF Link, Forgotten, LateInv
    <3> QED
      BY <3>1, <3>2
  <2>3. CASE Over
    BY <2>1, <2>3 DEF Over
  <2> QED
    BY <2>1, <2>2, <2>3, LoopKeepsLate DEF Next
<1> QED
  BY <1>1, <1>2, LinkCorrect, PTL DEF Spec

(***************************************************************************)
(* Whenever the radar goes, one record at most is made without it before   *)
(* SIGPIPE ends the program, though no recv() of the site library is       *)
(* looked at (site.c:43-72, 334-368, 404-436).                             *)
(***************************************************************************)
THEOREM OneLateRecordHolds == Spec => []OneLateRecord
<1>1. LateInv => OneLateRecord
  BY DEF LateInv, OneLateRecord
<1> QED
  BY <1>1, LateCorrect, PTL

-----------------------------------------------------------------------------
(* The types of the loop.                                                  *)

\* What is left and what is counted of a division.
LEMMA ModType ==
  ASSUME NEW a \in Nat, NEW b \in Nat \ {0}
  PROVE  a % b \in 0 .. b - 1 /\ a \div b \in Nat
  OBVIOUS

\* The two make up the number.
LEMMA DivMod ==
  ASSUME NEW a \in Nat, NEW b \in Nat \ {0}
  PROVE  a = b * (a \div b) + (a % b)
  OBVIOUS

\* A time of the day is in one of its blocks.
LEMMA DivBelow ==
  ASSUME NEW a \in Nat, NEW b \in Nat \ {0}, NEW c \in Nat \ {0}, c % b = 0, a < c
  PROVE  a \div b \in 0 .. c \div b - 1
<1>1. c = b * (c \div b) /\ c \div b \in Nat
  OBVIOUS
<1>2. a = b * (a \div b) + (a % b) /\ a % b >= 0 /\ a \div b \in Nat
  <2>1. a % b \in Nat /\ a \div b \in Nat
    BY ModType
  <2>2. a = b * (a \div b) + (a % b)
    BY DivMod
  <2> QED
    BY <2>1, <2>2
<1>3. b * (a \div b) < b * (c \div b)
  BY <1>1, <1>2
<1> DEFINE x == a \div b
           y == c \div b
<1>4. x \in Nat /\ y \in Nat /\ b * x < b * y
  BY <1>1, <1>2, <1>3
<1> HIDE DEF x, y
<1>5. x < y
  <2> SUFFICES ASSUME y <= x PROVE FALSE
    BY <1>4
  <2>1. b * y <= b * x
    BY <1>4
  <2> QED
    BY <1>4, <2>1
<1> QED
  BY <1>4, <1>5 DEF x, y

\* The numbers among the constants.
LEMMA Constants ==
  /\ Day \in Nat \ {0} /\ Sec \in Nat \ {0} /\ Hour \in Nat \ {0} /\ Half \in Nat \ {0}
  /\ Block \in Nat \ {0} /\ Scan \in Nat \ {0} /\ Intt \in Nat \ {0} /\ Nap \in Nat \ {0}
  /\ Lead \in Nat /\ MaxEdit \in Nat /\ Dur \subseteq Nat
  /\ Day % Block = 0 /\ Day % Scan = 0
  /\ Begins \subseteq 0 .. Day - 1
  BY ScanLoopAssumption DEF ScanLoopAssumption

\* The largest of the beams, and of the numbers xcnt may be.
LEMMA Bounds ==
  /\ Past \in Nat \ {0} /\ Beam = 0 .. Past - 1
  /\ MaxCnt \in Nat /\ MaxCnt >= 1
  /\ \A x \in XcfEdit \cup {XcfEvery} : x \in Nat /\ x < MaxCnt
<1>1. PICK n \in Beam : Beam = 0 .. n /\ n \in Nat
  BY ScanLoopAssumption DEF ScanLoopAssumption
<1>2. Largest(Beam) = n
  <2>1. n \in Beam /\ \A y \in Beam : y <= n
    BY <1>1
  <2>2. Largest(Beam) \in Beam /\ \A y \in Beam : y <= Largest(Beam)
    BY <2>1 DEF Largest
  <2> QED
    BY <1>1, <2>1, <2>2
<1> DEFINE S == XcfEdit \cup {XcfEvery}
<1>3. S \subseteq Nat /\ \E m \in S : \A x \in S : x <= m
  BY ScanLoopAssumption DEF ScanLoopAssumption
<1> HIDE DEF S
<1>4. Largest(S) \in S /\ \A y \in S : y <= Largest(S)
  BY <1>3 DEF Largest
<1>5. MaxCnt = Largest(S) + 1
  BY DEF MaxCnt, S
<1>6. Past \in Nat \ {0} /\ Beam = 0 .. Past - 1
  BY <1>1, <1>2 DEF Past
<1>7. MaxCnt \in Nat /\ MaxCnt >= 1 /\ \A x \in S : x \in Nat /\ x < MaxCnt
  <2>1. PICK m \in Nat : m = Largest(S)
    BY <1>3, <1>4
  <2> QED
    BY <1>3, <1>4, <1>5, <2>1
<1> QED
  BY <1>6, <1>7 DEF S

\* Blocks and scans of the day.
LEMMA ClockTypes ==
  ASSUME NEW t \in 0 .. Day - 1
  PROVE  /\ BlockOf(t) \in 0 .. Day \div Block - 1
         /\ PeriodOf(t) \in -1 .. Day \div Scan - 1
         /\ t % Scan \in 0 .. Scan - 1
         /\ FirstAt(t) \in -Scan .. Scan
<1>1. BlockOf(t) \in 0 .. Day \div Block - 1
  BY Constants, DivBelow DEF BlockOf
<1>2. t % Scan \in 0 .. Scan - 1
  BY Constants, ModType
<1>3. FirstAt(t) \in -Scan .. Scan
  BY <1>2, Constants DEF FirstAt
<1>4. PeriodOf(t) \in -1 .. Day \div Scan - 1
  <2>1. 0 \div Scan \in 0 .. Day \div Scan - 1
    BY Constants, DivBelow
  <2>2. Day \div Scan \in Nat
    BY Constants, ModType
  <2>3. Day \div Scan \in Nat \ {0}
    BY <2>1, <2>2
  <2>4. t \div Scan \in Nat
    BY Constants, ModType
  <2> DEFINE u == (t \div Scan) + IF BeamsOver(t) THEN 1 ELSE 0
             v == Day \div Scan
  <2>5. u \in Nat /\ v \in Nat \ {0}
    BY <2>3, <2>4
  <2>6. PeriodOf(t) = u % v
    BY DEF PeriodOf
  <2> HIDE DEF u, v
  <2>7. u % v \in 0 .. v - 1
    BY <2>5, ModType
  <2>8. u % v \in -1 .. v - 1
    BY <2>5, <2>7
  <2> QED
    BY <2>6, <2>8 DEF v
<1> QED
  BY <1>1, <1>2, <1>3, <1>4

\* A beam that is being made is one of the radar's.
BeamInv == pc # "beam" => bmnum \in Beam

\* What a step of the loop leaves to be shown, connection apart.
LoopTypeOK ==
  /\ pc \in PC /\ now \in 0 .. Day - 1
  /\ clk \in 0 .. Day \div Block - 1 /\ files \in 0 .. Day \div Block - 1
  /\ then \in -1 .. Day \div Block - 1
  /\ sbm \in Beam /\ ebm \in Beam /\ bmnum \in Beam \cup {Past}
  /\ xcnt \in XcfEdit \cup {XcfEvery} /\ cnt \in 0 .. MaxCnt /\ xcf \in {0, 1}
  /\ ran \in Nat /\ nave \in Nat /\ left \in -1 .. Scan
  /\ edits \in 0 .. MaxEdit /\ old \in Nat /\ late \in Nat
  /\ period \in -1 .. Day \div Scan - 1 /\ first \in -Scan .. Scan /\ age \in 0 .. MaxAge
  /\ excuse \subseteq Excuse

TypeInv == LoopTypeOK /\ BeamInv

\* The loop is left.
LEMMA ForgottenTypes == Forgotten => TypeInv'
<1>1. 0 \in 0 .. Day - 1
  BY Constants
<1>2. 0 \in 0 .. Day \div Block - 1
  <2>1. BlockOf(0) \in 0 .. Day \div Block - 1
    BY <1>1, ClockTypes
  <2>2. PICK n \in Nat : n = Day \div Block
    BY Constants, ModType
  <2> QED
    BY <2>1, <2>2
<1>3. Day \div Scan \in Nat /\ -1 \in -1 .. Day \div Scan - 1 /\ -1 \in -1 .. Day \div Block - 1
  BY Constants, ModType
<1>4. FirstBeam \in Beam /\ LastBeam \in Beam
  BY ScanLoopAssumption DEF ScanLoopAssumption
<1>5. 0 \in 0 .. MaxCnt /\ 0 \in 0 .. MaxEdit /\ 0 \in 0 .. MaxAge /\ 0 \in -Scan .. Scan /\ 0 \in -1 .. Scan
  BY Constants, Bounds DEF MaxAge
<1> QED
  BY <1>1, <1>2, <1>3, <1>4, <1>5 DEF Forgotten, TypeInv, LoopTypeOK, BeamInv, PC

\* The loop begins.
LEMMA InitLoopTypes == Init => TypeInv
<1> SUFFICES ASSUME Init PROVE TypeInv
  OBVIOUS
<1>1. now \in 0 .. Day - 1 /\ clk = BlockOf(now)
  BY Constants DEF Init
<1>2. clk \in 0 .. Day \div Block - 1
  BY <1>1, ClockTypes
<1>3. Day \div Scan \in Nat /\ -1 \in -1 .. Day \div Scan - 1 /\ -1 \in -1 .. Day \div Block - 1
  BY Constants, ModType
<1>4. FirstBeam \in Beam /\ LastBeam \in Beam
  BY ScanLoopAssumption DEF ScanLoopAssumption
<1>5. 0 \in 0 .. MaxCnt /\ 0 \in 0 .. MaxEdit /\ 0 \in 0 .. MaxAge /\ 0 \in -Scan .. Scan /\ 0 \in -1 .. Scan
  BY Constants, Bounds DEF MaxAge
<1> QED
  BY <1>1, <1>2, <1>3, <1>4, <1>5 DEF Init, TypeInv, LoopTypeOK, BeamInv, PC

\* The clock and the age of the scan.
LEMMA PassTypes ==
  ASSUME LoopTypeOK, NEW d \in Nat, Pass(d)
  PROVE  now' \in 0 .. Day - 1 /\ age' \in 0 .. MaxAge
<1>1. now + d \in Nat /\ Day \in Nat \ {0}
  BY Constants DEF LoopTypeOK
<1>2. now' \in 0 .. Day - 1
  BY <1>1, ModType DEF Pass
<1>3. MaxAge \in Nat
  BY Constants DEF MaxAge
<1>4. age' \in 0 .. MaxAge
  BY <1>3 DEF Pass, LoopTypeOK
<1> QED
  BY <1>2, <1>4

\* The beam OpsFindSkip() begins with.
LEMMA StartBeamType ==
  ASSUME LoopTypeOK, NEW t \in 0 .. Day - 1
  PROVE  StartBeam(FindSkip(t)) \in Beam
<1>1. PICK n \in Int : n = Past - 1 /\ Beam = 0 .. n
  BY Bounds
<1>2. sbm \in 0 .. n /\ ebm \in 0 .. n
  BY <1>1 DEF LoopTypeOK
<1>3. FindSkip(t) \in Nat
  <2>1. t % Hour \in Nat /\ Intt \div 2 \in Nat /\ Half \in Nat /\ Lead \in Nat
    BY Constants, ModType
  <2>2. Tv(t) \in Int
    BY <2>1 DEF Tv, Overflows, Nearest
  <2>3. Tv(t) >= 0 => (Tv(t) % Scan) \div Intt \in Nat
    <3> SUFFICES ASSUME Tv(t) >= 0 PROVE (Tv(t) % Scan) \div Intt \in Nat
      OBVIOUS
    <3>1. PICK x \in Nat : x = Tv(t)
      BY <2>2
    <3>2. x % Scan \in 0 .. Scan - 1
      BY Constants, ModType
    <3>3. PICK y \in Nat : y = x % Scan
      BY <3>2
    <3>4. y \div Intt \in Nat
      BY Constants, ModType
    <3> QED
      BY <3>1, <3>3, <3>4
  <2> QED
    BY <2>2, <2>3 DEF FindSkip
<1> QED
  BY <1>1, <1>2, <1>3 DEF StartBeam

\* Each step of the loop keeps the types.
LEMMA LoopKeepsTypes ==
  ASSUME TypeInv, Loop
  PROVE  TypeInv'
<1> USE DEF TypeInv, LoopTypeOK, BeamInv, PC, Do, beamVars, xcfVars, fileVars, inttVars, scanVars
<1>1. now \in 0 .. Day - 1 /\ BlockOf(now) \in 0 .. Day \div Block - 1
  BY ClockTypes
<1>2. CASE SetupRadar \/ TimeSeq \/ StartIntt \/ FCLR
  <2>1. CASE SetupRadar
    BY <2>1 DEF SetupRadar
  <2>2. CASE TimeSeq
    BY <1>1, <2>2 DEF TimeSeq
  <2>3. CASE StartIntt
    BY <1>1, <2>3 DEF StartIntt
  <2>4. CASE FCLR
    BY <2>4 DEF FCLR
  <2> QED
    BY <1>2, <2>1, <2>2, <2>3, <2>4
<1>3. CASE StartScan
  <2>1. /\ PeriodOf(now) \in -1 .. Day \div Scan - 1 /\ FirstAt(now) \in -Scan .. Scan
        /\ StartBeam(FindSkip(now)) \in Beam
    BY ClockTypes, StartBeamType
  <2>2. MaxCnt \in Nat /\ MaxAge \in Nat /\ MaxCnt >= 1
    BY Constants, Bounds DEF MaxAge
  <2>3. cnt' \in 0 .. MaxCnt /\ xcf' \in {0, 1} /\ UNCHANGED xcnt
    <3>1. cnt \in 0 .. MaxCnt /\ (cnt # MaxCnt => cnt + 1 \in 0 .. MaxCnt) /\ 0 \in 0 .. MaxCnt
      BY <2>2
    <3> QED
      BY <1>3, <3>1 DEF StartScan, Xcf
  <2>4. then' = clk /\ files' \in {files, BlockOf(now)} /\ old' \in Nat
    BY <1>3 DEF StartScan, ReOpen
  <2>5. excuse' \subseteq Excuse
    BY <1>3 DEF StartScan, Excuse
  <2>6. /\ pc' = "beam" /\ clk' = BlockOf(now) /\ bmnum' = StartBeam(FindSkip(now))
        /\ period' = PeriodOf(now) /\ first' = FirstAt(now) /\ age' = 0
        /\ UNCHANGED <<now, sbm, ebm, xcnt, inttVars, left, edits, late>>
    BY <1>3 DEF StartScan
  <2>7. \A b : b \in 0 .. Day \div Block - 1 => b \in -1 .. Day \div Block - 1
    OBVIOUS
  <2>8. age' \in 0 .. MaxAge
    BY <2>2, <2>6
  <2> QED
    BY <1>1, <2>1, <2>3, <2>4, <2>5, <2>6, <2>7, <2>8
<1>4. CASE Integrate \/ IntegrateDone
  <2>1. CASE Integrate
    BY <2>1 DEF Integrate
  <2>2. CASE IntegrateDone
    BY <2>2 DEF IntegrateDone
  <2> QED
    BY <1>4, <2>1, <2>2
<1>5. CASE Sequence
  BY <1>5 DEF Sequence
<1>6. ASSUME NEW d \in Dur \cup {0}, Sum(d) PROVE TypeInv'
  <2>1. d \in Nat
    BY Constants
  <2>2. now' \in 0 .. Day - 1 /\ age' \in 0 .. MaxAge
    BY <1>6, <2>1, PassTypes DEF Sum
  <2>3. nave' \in Nat /\ ran' \in Nat
    BY <1>6, <2>1 DEF Sum
  <2> QED
    BY <1>6, <2>2, <2>3 DEF Sum
<1>7. ASSUME NEW s \in Beam, NEW e \in Beam, NEW b \in Beam, NEW x \in XcfEdit \cup {XcfEvery},
             Record(s, e, b, x), edits' \in 0 .. MaxEdit, excuse' \subseteq Excuse
      PROVE  TypeInv'
  <2>1. bmnum' \in Beam \cup {Past} /\ (b = e => bmnum' \in Beam)
    <3>1. Past \in Nat \ {0} /\ Beam = 0 .. Past - 1
      BY Bounds
    <3>5. b + 1 \in Beam \cup {Past}
      BY <3>1
    <3> QED
      BY <1>7, <3>5 DEF Record
  <2>2. late' \in Nat
    BY <1>7 DEF Record
  <2>3. /\ pc' = (IF b = e THEN "endscan" ELSE "beam") /\ sbm' = s /\ ebm' = e /\ xcnt' = x
        /\ UNCHANGED <<now, clk, cnt, xcf, fileVars, inttVars, left, scanVars, age>>
    BY <1>7 DEF Record
  <2> QED
    BY <1>7, <2>1, <2>2, <2>3
<1>8. CASE RecordOnly \/ RecordAndEdit
  <2>1. bmnum \in Beam
    BY <1>8 DEF RecordOnly, RecordAndEdit, Record
  <2>2. CASE RecordOnly
    BY <1>7, <2>1, <2>2 DEF RecordOnly
  <2>3. CASE RecordAndEdit
    <3>1. edits' \in 0 .. MaxEdit
      BY <2>3, Constants DEF RecordAndEdit
    <3>2. excuse' \subseteq Excuse
      BY <2>3 DEF RecordAndEdit, Excuse
    <3>3. \/ \E v \in Beam : Record(v, ebm, bmnum, xcnt) \/ Record(sbm, v, bmnum, xcnt)
                              \/ Record(sbm, ebm, v, xcnt)
          \/ \E v \in XcfEdit : Record(sbm, ebm, bmnum, v)
      BY <2>3 DEF RecordAndEdit
    <3> QED
      BY <1>7, <2>1, <3>1, <3>2, <3>3
  <2> QED
    BY <1>8, <2>2, <2>3
<1>9. CASE EndScan
  <2>1. now % Scan \in 0 .. Scan - 1 /\ Scan \in Nat
    BY Constants, ModType
  <2>2. left' \in -1 .. Scan
    BY <1>9, <2>1 DEF EndScan
  <2> QED
    BY <1>9, <2>2 DEF EndScan
<1>10. CASE Wait
  <2>1. left \in 0 .. Scan /\ Nap \in Nat /\ Scan \in Nat
    BY <1>10, Constants DEF Wait
  <2>2. Sleep \in Nat /\ left - Sleep \in -1 .. Scan
    BY <2>1 DEF Sleep
  <2>3. now' \in 0 .. Day - 1 /\ age' \in 0 .. MaxAge
    BY <1>10, <2>2, PassTypes DEF Wait
  <2> QED
    BY <1>10, <2>2, <2>3 DEF Wait
<1>11. CASE Boundary
  BY <1>11, Constants DEF Boundary
<1> QED
  BY <1>2, <1>3, <1>4, <1>5, <1>6, <1>8, <1>9, <1>10, <1>11 DEF Loop

\* The variables of the loop have their types in every state.
LEMMA LoopTypesCorrect == Spec => []TypeInv
<1>1. TypeInv /\ [Next]_vars => TypeInv'
  <2> SUFFICES ASSUME TypeInv, [Next]_vars PROVE TypeInv'
    OBVIOUS
  <2>1. CASE UNCHANGED <<pc, now, clk, beamVars, xcfVars, fileVars, inttVars, left,
                         edits, scanVars, age, late, excuse>>
    BY <2>1 DEF TypeInv, LoopTypeOK, BeamInv, beamVars, xcfVars, fileVars, inttVars, scanVars
  <2>2. CASE Link
    BY <2>1, <2>2, ForgottenTypes DEF Link
  <2>3. CASE Over \/ UNCHANGED vars
    BY <2>1, <2>3 DEF Over, vars
  <2> QED
    BY <2>2, <2>3, LoopKeepsTypes DEF Next
<1> QED
  BY <1>1, InitLoopTypes, PTL DEF Spec

(***************************************************************************)
(* The clock, the beams, the blocks and scans of the day, and what is on   *)
(* the connection stay within their bounds (normalscan.c:262-401,          *)
(* sync.c:39-70, site.c:43-72).                                            *)
(***************************************************************************)
THEOREM TypeCorrect == Spec => []TypeOK
<1>1. TypeInv /\ LinkInv => TypeOK
  BY DEF TypeInv, LoopTypeOK, LinkInv, TypeOK
<1> QED
  BY <1>1, LoopTypesCorrect, LinkCorrect, PTL

-----------------------------------------------------------------------------
(* How far the beams are behind their time.                                *)

\* A division, and what is left of it.
LEMMA Divided ==
  ASSUME NEW a \in Nat, NEW b \in Nat \ {0}
  PROVE  \E q, r \in Nat : q = a \div b /\ r = a % b /\ a = b * q + r /\ r < b
<1>1. a % b \in 0 .. b - 1 /\ a \div b \in Nat
  BY ModType
<1>2. a = b * (a \div b) + (a % b)
  BY DivMod
<1> QED
  BY <1>1, <1>2

\* There is but one.
LEMMA Remainder ==
  ASSUME NEW q \in Nat, NEW r \in Nat, NEW b \in Nat \ {0}, r < b
  PROVE  (b * q + r) % b = r
  OBVIOUS

\* The longest sequence.
LEMMA SlipType == Slip \in Nat /\ \A d \in Dur \cup {0} : d \in Nat /\ d <= Slip
<1>1. Dur \subseteq Nat /\ \E n \in Dur : \A d \in Dur : d <= n
  BY ScanLoopAssumption DEF ScanLoopAssumption
<1>2. Slip \in Dur /\ \A d \in Dur : d <= Slip
  BY <1>1 DEF Slip, Largest
<1> QED
  BY <1>1, <1>2

\* A sequence is begun within the integration time.
LEMMA InTime ==
  ASSUME LoopTypeOK, ~TimeIsUp
  PROVE  ran <= Intt
<1>1. Sec \in Nat \ {0} /\ Intt \in Nat /\ ran \in Nat /\ now \in Int
  BY Constants DEF LoopTypeOK
<1> DEFINE start == (now - ran) % Sec
           tavg == IF nave > 0 THEN ran \div nave ELSE 0
<1>2. start \in Nat
  BY <1>1
<1>3. tavg \in Nat
  <2>1. CASE nave > 0
    <3>1. nave \in Nat \ {0}
      BY <2>1 DEF LoopTypeOK
    <3>2. ran \div nave \in Nat
      BY <1>1, <3>1, ModType
    <3> QED
      BY <2>1, <3>2
  <2> QED
    BY <2>1
<1> DEFINE tick == [sec  |-> ((start + ran) \div Sec) + (tavg \div Sec),
                    usec |-> ((start + ran) % Sec) + (tavg % Sec)]
           tock == [sec |-> Intt \div Sec, usec |-> start + (Intt % Sec)]
<1>4. ~(tick.sec > tock.sec \/ (tick.sec >= tock.sec /\ tick.usec > tock.usec))
  BY DEF TimeIsUp
<1>5. start + ran \in Nat
  BY <1>1, <1>2
<1>6. PICK a, b \in Nat : /\ a = (start + ran) \div Sec /\ b = (start + ran) % Sec
                         /\ start + ran = Sec * a + b /\ b < Sec
  BY <1>1, <1>5, Divided
<1>8. PICK c, e \in Nat : c = Intt \div Sec /\ e = Intt % Sec /\ Intt = Sec * c + e
  BY <1>1, Divided
<1>9. PICK f, g \in Nat : f = tavg \div Sec /\ g = tavg % Sec
  BY <1>1, <1>3, Divided
<1>10. a + f <= c /\ (a + f < c \/ b + g <= start + e)
  <2>1. tick.sec = a + f /\ tick.usec = b + g /\ tock.sec = c /\ tock.usec = start + e
    BY <1>6, <1>8, <1>9
  <2> HIDE DEF tick, tock
  <2> QED
    BY <1>2, <1>4, <2>1
<1> HIDE DEF start, tavg
<1>11. CASE a < c
  <2>1. Sec * a + Sec <= Sec * c
    <3>1. PICK m \in Nat : c = a + 1 + m
      <4>1. c - a - 1 \in Nat
        BY <1>11
      <4> QED
        BY <4>1
    <3>2. Sec * c = Sec * a + Sec + Sec * m /\ Sec * m >= 0
      BY <1>1, <3>1
    <3> QED
      BY <1>1, <3>2
  <2>2. Sec * a \in Nat /\ Sec * c \in Nat
    BY <1>1
  <2> QED
    BY <1>1, <1>2, <1>6, <1>8, <2>1, <2>2
<1>12. CASE a = c
  <2>1. b <= start + e
    BY <1>2, <1>10, <1>12
  <2>2. PICK x \in Nat : x = Sec * a /\ x = Sec * c
    BY <1>1, <1>12
  <2> QED
    BY <1>1, <1>2, <1>6, <1>8, <2>1, <2>2
<1> QED
  BY <1>10, <1>11, <1>12

\* How far a beam is behind its time in the scan, and how far it may be.
Behind == first + age - (bmnum - sbm) * Intt
Allowed == (Intt \div 2) + Lead + (bmnum - sbm) * Slip

BehindInv ==
  /\ "beams" \notin excuse => sbm = FirstBeam /\ ebm = LastBeam
  /\ pc = "sum" => ran <= Intt
  /\ pc = "sequence" => ran <= Intt + Slip
  /\ excuse \cap {"overflow", "beams"} = {} =>
       /\ pc \in {"beam", "intt", "fclr"} => Behind <= Allowed
       /\ pc \in {"sequence", "sum"} => Behind <= Allowed + ran
       /\ pc = "record" => Behind <= Allowed + Intt + Slip

\* They are integers.
LEMMA BehindType ==
  ASSUME LoopTypeOK
  PROVE  Behind \in Int /\ Allowed \in Int /\ Intt \div 2 \in Nat
<1>1. Intt \in Nat /\ Lead \in Nat /\ Scan \in Nat /\ MaxAge \in Nat
  BY Constants DEF MaxAge
<1>2. Intt \div 2 \in Nat
  BY <1>1, ModType
<1>3. Past \in Nat /\ Beam = 0 .. Past - 1
  BY Bounds
<1>4. PICK k \in Int : k = bmnum - sbm
  BY <1>3 DEF LoopTypeOK
<1>5. k * Intt \in Int /\ k * Slip \in Int
  BY <1>1, SlipType
<1>6. first \in Int /\ age \in Int
  BY <1>1 DEF LoopTypeOK
<1> QED
  BY <1>1, <1>2, <1>4, <1>5, <1>6, SlipType DEF Behind, Allowed

\* The time of the hour, in scans.
LEMMA ScanInHour ==
  ASSUME NEW t \in Nat
  PROVE  \E q \in Nat : t % Hour = q * Scan + (t % Scan)
<1>1. Scan \in Nat \ {0} /\ Hour \in Nat \ {0}
  BY Constants
<1>2. PICK r \in Nat : r = t % Scan /\ r < Scan
  BY <1>1, Divided
<1>3. PICK p, w \in Nat : p = t \div Hour /\ w = t % Hour /\ t = Hour * p + w
  BY <1>1, Divided
<1>4. PICK u \in Nat : Hour = Scan * u
  <2>1. Hour % Scan = 0
    BY ScanLoopAssumption DEF ScanLoopAssumption
  <2>2. PICK y, m \in Nat : y = Hour \div Scan /\ m = Hour % Scan /\ Hour = Scan * y + m
    BY <1>1, Divided
  <2>3. Scan * y \in Nat
    BY <1>1
  <2> QED
    BY <2>1, <2>2, <2>3
<1>5. PICK v, z \in Nat : w = Scan * v + z /\ z < Scan
  BY <1>1, Divided
<1>6. t = Scan * (u * p + v) + z /\ u * p + v \in Nat
  <2>1. Hour * p = Scan * (u * p)
    BY <1>1, <1>4
  <2>2. u * p \in Nat
    BY <1>4
  <2>3. PICK y \in Nat : y = u * p
    BY <2>2
  <2>4. Scan * (y + v) = Scan * y + Scan * v
    BY <1>1
  <2>5. t = Scan * y + Scan * v + z
    <3>1. Hour * p = Scan * y
      BY <2>1, <2>3
    <3>2. Scan * y \in Nat /\ Scan * v \in Nat /\ Hour * p \in Nat
      BY <1>1
    <3> QED
      BY <1>3, <1>5, <3>1, <3>2
  <2> QED
    BY <2>3, <2>4, <2>5
<1>7. z = r
  <2>1. PICK x \in Nat : x = u * p + v /\ t = Scan * x + z
    BY <1>6
  <2>2. (Scan * x + z) % Scan = z
    BY <1>1, <1>5, Remainder
  <2> QED
    BY <1>2, <2>1, <2>2
<1>8. Scan * v = v * Scan /\ w = v * Scan + r
  BY <1>1, <1>5, <1>7
<1> QED
  BY <1>3, <1>8, <1>2

\* No more beams are passed over than there are.
LEMMA SkipType ==
  ASSUME NEW t \in 0 .. Day - 1, NEW n \in Nat, sbm \in Nat, ebm = sbm + n
  PROVE  \E k \in 0 .. n : FindSkip(t) = k
<1>1. /\ Intt \in Nat \ {0} /\ Scan \in Nat \ {0} /\ Hour \in Nat \ {0} /\ Lead \in Nat
      /\ Half \in Nat /\ t \in Nat
  BY Constants
<1>2. Distance(ebm, sbm) = n
  BY DEF Distance
<1>3. Tv(t) \in Int
  <2>1. t % Hour \in Nat /\ Intt \div 2 \in Nat
    BY <1>1, ModType
  <2> QED
    BY <1>1, <2>1 DEF Tv, Nearest
<1>4. Tv(t) >= 0 => (Tv(t) % Scan) \div Intt \in Nat
  <2> SUFFICES ASSUME Tv(t) >= 0 PROVE (Tv(t) % Scan) \div Intt \in Nat
    OBVIOUS
  <2>1. PICK x \in Nat : x = Tv(t)
    BY <1>3
  <2>2. PICK y \in Nat : y = x % Scan
    BY <1>1, ModType
  <2> QED
    BY <1>1, <2>1, <2>2, ModType
<1> QED
  BY <1>2, <1>3, <1>4 DEF FindSkip

\* OpsFindSkip() passes over the beams that are past: the beam a scan begins
\* with is half a beam and Lead behind its time at most.
LEMMA SkipInTime ==
  ASSUME NEW t \in 0 .. Day - 1, ~Overflows(t), sbm = FirstBeam, ebm = LastBeam
  PROVE  \E k \in Nat : /\ StartBeam(FindSkip(t)) - sbm = k
                        /\ FirstAt(t) - k * Intt <= (Intt \div 2) + Lead
<1>1. /\ Intt \in Nat \ {0} /\ Scan \in Nat \ {0} /\ Hour \in Nat \ {0} /\ Lead \in Nat
      /\ t \in Nat
  BY Constants
<1>2. PICK n \in Nat : n = LastBeam - FirstBeam /\ FirstBeam \in Nat /\ LastBeam \in Nat
  BY ScanLoopAssumption DEF ScanLoopAssumption
<1>3. Beams = n + 1 /\ (n + 1) * Intt <= Scan
  <2>1. Beams = n + 1
    BY <1>2 DEF Beams
  <2> QED
    BY <2>1, TimesAssumption DEF TimesAssumption
<1>4. PICK h \in Nat : h = Intt \div 2 /\ Intt <= 2 * h + 1
  <2>1. Intt \div 2 \in Nat /\ Intt = 2 * (Intt \div 2) + (Intt % 2) /\ Intt % 2 \in 0 .. 1
    BY <1>1
  <2> QED
    BY <2>1
<1>5. PICK r \in Nat : r = t % Scan /\ r < Scan
  BY <1>1, Divided
<1>6. PICK q \in Nat : t % Hour = q * Scan + r
  BY <1>1, <1>5, ScanInHour
<1> DEFINE over == r + h - Lead
<1>7. over \in Int /\ Tv(t) = q * Scan + over /\ q * Scan \in Nat
  BY <1>1, <1>4, <1>5, <1>6 DEF Tv, Nearest
<1>8. /\ BeamsOver(t) <=> over >= (n + 1) * Intt
      /\ FirstAt(t) = IF BeamsOver(t) THEN r - Scan ELSE r
  BY <1>3, <1>4, <1>5 DEF BeamsOver, FirstAt
<1>9. (n + 1) * Intt \in Nat
  BY <1>1
<1>10. \E k \in 0 .. n : FindSkip(t) = k
  <2>1. ebm = sbm + n /\ sbm \in Nat
    BY <1>2
  <2> QED
    BY <2>1, SkipType
<1>11. PICK k \in 0 .. n : FindSkip(t) = k
  BY <1>10
<1>12. StartBeam(FindSkip(t)) - sbm = k
  BY <1>2, <1>11 DEF StartBeam
<1>13. k * Intt \in Nat
  BY <1>1
<1>14. FirstAt(t) - k * Intt <= h + Lead
  <2>1. CASE BeamsOver(t)
    BY <1>1, <1>4, <1>5, <1>8, <1>13, <2>1
  <2>2. CASE ~BeamsOver(t) /\ over < 0
    BY <1>1, <1>4, <1>5, <1>8, <1>13, <2>2
  <2>3. CASE ~BeamsOver(t) /\ over >= 0
    <3>1. over \in Nat /\ over < (n + 1) * Intt /\ over < Scan
      BY <1>1, <1>3, <1>7, <1>8, <1>9, <2>3
    <3>2. Tv(t) % Scan = over /\ Tv(t) >= 0
      <4>1. PICK m \in Nat : m = over
        BY <3>1
      <4>2. (Scan * q + m) % Scan = m
        BY <1>1, <3>1, <4>1, Remainder
      <4>3. Scan * q = q * Scan
        BY <1>1
      <4> QED
        BY <1>7, <3>1, <4>1, <4>2, <4>3
    <3>4. PICK s, m \in Nat : s = over \div Intt /\ over = Intt * s + m /\ m < Intt
      BY <1>1, <3>1, Divided
    <3>5. s <= n
      <4> SUFFICES ASSUME s >= n + 1 PROVE FALSE
        OBVIOUS
      <4>1. PICK j \in Nat : s = n + 1 + j
        <5>1. s - n - 1 \in Nat
          OBVIOUS
        <5> QED
          BY <5>1
      <4>2. Intt * s = (n + 1) * Intt + Intt * j /\ Intt * j \in Nat /\ Intt * s \in Nat
        BY <1>1, <4>1
      <4> QED
        BY <1>9, <3>1, <3>4, <4>2
    <3>6. k = s
      <4>1. Distance(ebm, sbm) = n
        BY <1>2 DEF Distance
      <4>2. Tv(t) \in Int
        BY <1>7
      <4> QED
        BY <1>11, <3>2, <3>4, <3>5, <4>1, <4>2 DEF FindSkip
    <3>7. PICK x \in Nat : x = k * Intt /\ x = Intt * s
      BY <1>1, <3>6
    <3> QED
      BY <1>1, <1>4, <1>5, <1>8, <2>3, <3>4, <3>7
  <2> QED
    BY <1>7, <2>1, <2>2, <2>3
<1> QED
  BY <1>4, <1>11, <1>12, <1>14

\* While nothing of the scan changes but the place in a beam.
LEMMA SameBehind ==
  ASSUME UNCHANGED <<first, age, bmnum, sbm>>
  PROVE  Behind' = Behind /\ Allowed' = Allowed
  BY DEF Behind, Allowed

\* A sequence.
LEMMA SumBehind ==
  ASSUME LoopTypeOK, LoopTypeOK', NEW d \in Nat, age' <= age + d, UNCHANGED <<first, bmnum, sbm>>
  PROVE  Behind' <= Behind + d /\ Behind' \in Int /\ Allowed' = Allowed
<1>1. Allowed' = Allowed
  BY DEF Allowed
<1>2. PICK x \in Int : x = (bmnum - sbm) * Intt
  <2>1. Past \in Nat /\ Beam = 0 .. Past - 1
    BY Bounds
  <2>2. PICK k \in Int : k = bmnum - sbm
    BY <2>1 DEF LoopTypeOK
  <2>3. k * Intt \in Int
    BY Constants
  <2> QED
    BY <2>2, <2>3
<1>3. Behind = first + age - x /\ Behind' = first + age' - x
  BY <1>2 DEF Behind
<1>4. first \in Int /\ age \in Int /\ age' \in Int
  <2>1. MaxAge \in Nat /\ Scan \in Nat
    BY Constants DEF MaxAge
  <2> QED
    BY <2>1 DEF LoopTypeOK
<1> QED
  BY <1>1, <1>2, <1>3, <1>4

\* The next beam.
LEMMA NextBeamBehind ==
  ASSUME LoopTypeOK, LoopTypeOK', bmnum' = bmnum + 1, UNCHANGED <<first, age, sbm>>
  PROVE  Behind' = Behind - Intt /\ Allowed' = Allowed + Slip
<1>1. Past \in Nat /\ Beam = 0 .. Past - 1
  BY Bounds
<1>2. PICK k \in Int : k = bmnum - sbm /\ k + 1 = bmnum' - sbm'
  BY <1>1 DEF LoopTypeOK
<1>3. Intt \in Nat /\ Slip \in Nat /\ Lead \in Nat /\ Intt \div 2 \in Nat
  BY Constants, SlipType, ModType
<1>4. PICK x, y \in Int : x = k * Intt /\ y = k * Slip /\ (k + 1) * Intt = x + Intt /\ (k + 1) * Slip = y + Slip
  <2>1. k * Intt \in Int /\ (k + 1) * Intt = k * Intt + Intt
    BY <1>3
  <2>2. k * Slip \in Int /\ (k + 1) * Slip = k * Slip + Slip
    BY <1>3
  <2> QED
    BY <2>1, <2>2
<1>5. first \in Int /\ age \in Int
  <2>1. MaxAge \in Nat /\ Scan \in Nat
    BY Constants DEF MaxAge
  <2> QED
    BY <2>1 DEF LoopTypeOK
<1>6. Behind = first + age - x /\ Behind' = first + age - (x + Intt)
  BY <1>2, <1>4 DEF Behind
<1>7. PICK h \in Nat : h = Intt \div 2
  BY <1>3
<1>8. Allowed = h + Lead + y /\ Allowed' = h + Lead + (y + Slip)
  BY <1>2, <1>4, <1>7 DEF Allowed
<1> QED
  BY <1>3, <1>4, <1>5, <1>6, <1>7, <1>8

\* The scan begins with a beam that is not behind.
LEMMA StartScanBehind ==
  ASSUME TypeInv, BehindInv, StartScan
  PROVE  BehindInv'
<1> USE DEF Do
<1>1. /\ pc' = "beam" /\ UNCHANGED <<sbm, ebm>>
      /\ bmnum' = StartBeam(FindSkip(now)) /\ first' = FirstAt(now) /\ age' = 0
      /\ excuse' = (excuse \ Passing) \cup (IF Overflows(now) THEN {"overflow"} ELSE {})
  BY DEF StartScan
<1>2. "beams" \notin excuse' => sbm = FirstBeam /\ ebm = LastBeam
  BY <1>1 DEF Passing, BehindInv
<1>3. ASSUME excuse' \cap {"overflow", "beams"} = {}
      PROVE  Behind' <= Allowed'
  <2>1. ~Overflows(now) /\ "beams" \notin excuse'
    BY <1>1, <1>3
  <2>2. now \in 0 .. Day - 1
    BY DEF TypeInv, LoopTypeOK
  <2>3. PICK k \in Nat : /\ StartBeam(FindSkip(now)) - sbm = k
                         /\ FirstAt(now) - k * Intt <= (Intt \div 2) + Lead
    BY <1>2, <2>1, <2>2, SkipInTime
  <2>4. Intt \div 2 \in Nat /\ Lead \in Nat /\ k * Slip \in Nat /\ k * Intt \in Nat
    BY Constants, SlipType, ModType
  <2>5. FirstAt(now) \in Int
    BY <2>2, ClockTypes, Constants
  <2>6. bmnum' - sbm' = k
    BY <1>1, <2>3
  <2>7. Behind' = FirstAt(now) - k * Intt
    <3>1. Behind' = FirstAt(now) + (0 - (bmnum' - sbm') * Intt)
      BY <1>1 DEF Behind
    <3>2. (bmnum' - sbm') * Intt = k * Intt
      BY <2>6, Zenon
    <3>3. PICK y \in Nat : y = k * Intt
      BY <2>4
    <3> QED
      BY <2>5, <3>1, <3>2, <3>3
  <2>8. Allowed' = (Intt \div 2) + Lead + k * Slip
    BY <2>6 DEF Allowed
  <2>9. PICK h, x, y \in Nat : h = Intt \div 2 /\ x = k * Slip /\ y = k * Intt
    BY <2>4
  <2> QED
    BY <2>3, <2>4, <2>5, <2>7, <2>8, <2>9
<1> QED
  BY <1>1, <1>2, <1>3 DEF BehindInv

\* A record, and an edit.
LEMMA RecordBehind ==
  ASSUME TypeInv, TypeInv', BehindInv, RecordOnly \/ RecordAndEdit
  PROVE  BehindInv'
<1> USE DEF Do
<1>1. pc = "record" /\ pc' \in {"beam", "endscan"} /\ UNCHANGED <<first, age>>
  BY DEF RecordOnly, RecordAndEdit, Record, scanVars
<1>2. excuse \subseteq excuse'
  BY DEF RecordOnly, RecordAndEdit
<1>3. "beams" \notin excuse' => /\ UNCHANGED <<sbm, ebm>>
                                /\ bmnum' = IF bmnum = ebm THEN bmnum ELSE bmnum + 1
                                /\ pc' = IF bmnum = ebm THEN "endscan" ELSE "beam"
  BY DEF RecordOnly, RecordAndEdit, Record
<1>4. "beams" \notin excuse' => sbm' = FirstBeam /\ ebm' = LastBeam
  BY <1>2, <1>3 DEF BehindInv
<1>5. ASSUME excuse' \cap {"overflow", "beams"} = {}, pc' = "beam"
      PROVE  Behind' <= Allowed'
  <2>1. excuse \cap {"overflow", "beams"} = {} /\ "beams" \notin excuse'
    BY <1>2, <1>5
  <2>2. bmnum' = bmnum + 1 /\ UNCHANGED sbm
    BY <1>3, <1>5, <2>1
  <2>3. Behind' = Behind - Intt /\ Allowed' = Allowed + Slip
    BY <1>1, <2>2, NextBeamBehind DEF TypeInv
  <2>4. Behind <= Allowed + Intt + Slip
    BY <1>1, <2>1 DEF BehindInv
  <2>5. Behind \in Int /\ Allowed \in Int /\ Intt \in Nat /\ Slip \in Nat
    BY BehindType, SlipType, Constants DEF TypeInv
  <2> QED
    BY <2>3, <2>4, <2>5
<1> QED
  BY <1>1, <1>4, <1>5 DEF BehindInv

\* Each step of the loop keeps the invariant.
LEMMA LoopKeepsBehind ==
  ASSUME TypeInv, TypeInv', BehindInv, Loop
  PROVE  BehindInv'
<1> USE DEF Do, beamVars, scanVars, inttVars
<1>1. Behind \in Int /\ Allowed \in Int /\ Intt \in Nat /\ Slip \in Nat /\ ran \in Nat
  BY BehindType, SlipType, Constants DEF TypeInv, LoopTypeOK
<1>2. ASSUME UNCHANGED <<sbm, ebm, bmnum, first, age, excuse>>,
             \/ pc \in {"beam", "intt"} /\ pc' \in {"intt", "fclr"}
             \/ pc' \in {"timeseq", "scan", "endscan", "wait"}
      PROVE  BehindInv'
  <2>1. Behind' = Behind /\ Allowed' = Allowed
    BY <1>2, SameBehind
  <2>2. pc' \notin {"sum", "sequence", "record", "beam"} /\ (pc' \in {"intt", "fclr"} => pc \in {"beam", "intt"})
    BY <1>2
  <2> QED
    BY <1>2, <2>1, <2>2 DEF BehindInv
<1>3. CASE SetupRadar \/ TimeSeq \/ StartIntt \/ FCLR
  BY <1>2, <1>3 DEF SetupRadar, TimeSeq, StartIntt, FCLR
<1>4. CASE EndScan \/ Boundary
  BY <1>2, <1>4 DEF EndScan, Boundary
<1>5. CASE Wait
  <2>1. pc' = "wait" /\ UNCHANGED <<sbm, ebm, excuse>>
    BY <1>5 DEF Wait
  <2> QED
    BY <2>1 DEF BehindInv
<1>6. CASE Integrate
  <2>1. Behind' = Behind /\ Allowed' = Allowed
    BY <1>6, SameBehind DEF Integrate
  <2>2. pc = "fclr" /\ pc' = "sequence" /\ ran' = 0 /\ UNCHANGED <<sbm, ebm, excuse>>
    BY <1>6 DEF Integrate
  <2> QED
    BY <1>1, <2>1, <2>2 DEF BehindInv
<1>7. CASE Sequence
  <2>1. Behind' = Behind /\ Allowed' = Allowed
    BY <1>7, SameBehind DEF Sequence
  <2>2. pc = "sequence" /\ pc' = "sum" /\ UNCHANGED <<sbm, ebm, excuse, ran>>
    BY <1>7 DEF Sequence
  <2>3. ran <= Intt
    BY <1>7, InTime DEF Sequence, TypeInv
  <2> QED
    BY <2>1, <2>2, <2>3 DEF BehindInv
<1>8. ASSUME NEW d \in Dur \cup {0}, Sum(d)
      PROVE  BehindInv'
  <2>1. d \in Nat /\ d <= Slip
    BY SlipType
  <2>2. age' <= age + d
    <3>1. MaxAge \in Nat /\ age \in Nat
      BY Constants DEF MaxAge, TypeInv, LoopTypeOK
    <3> QED
      BY <1>8, <2>1, <3>1 DEF Sum, Pass
  <2>3. Behind' <= Behind + d /\ Behind' \in Int /\ Allowed' = Allowed
    BY <1>8, <2>1, <2>2, SumBehind DEF Sum, TypeInv
  <2>4. pc = "sum" /\ pc' = "sequence" /\ ran' = ran + d /\ UNCHANGED <<sbm, ebm, excuse>>
    BY <1>8 DEF Sum
  <2>5. ran <= Intt
    BY <2>4 DEF BehindInv
  <2>6. ran' <= Intt + Slip
    BY <1>1, <2>1, <2>4, <2>5
  <2>8. excuse \cap {"overflow", "beams"} = {} => Behind' <= Allowed' + ran'
    <3>1. excuse \cap {"overflow", "beams"} = {} => Behind <= Allowed + ran
      BY <2>4 DEF BehindInv
    <3> QED
      BY <1>1, <2>1, <2>3, <2>4, <3>1
  <2> QED
    BY <2>4, <2>6, <2>8 DEF BehindInv
<1>9. CASE IntegrateDone
  <2>1. Behind' = Behind /\ Allowed' = Allowed
    BY <1>9, SameBehind DEF IntegrateDone
  <2>2. pc = "sequence" /\ pc' = "record" /\ UNCHANGED <<sbm, ebm, excuse>>
    BY <1>9 DEF IntegrateDone
  <2>3. ran <= Intt + Slip
    BY <2>2 DEF BehindInv
  <2>4. excuse \cap {"overflow", "beams"} = {} => Behind <= Allowed + Intt + Slip
    <3>1. excuse \cap {"overflow", "beams"} = {} => Behind <= Allowed + ran
      BY <2>2 DEF BehindInv
    <3> QED
      BY <1>1, <2>3, <3>1
  <2> QED
    BY <2>1, <2>2, <2>4 DEF BehindInv
<1> QED
  BY <1>3, <1>4, <1>5, <1>6, <1>7, <1>8, <1>9, StartScanBehind, RecordBehind DEF Loop

\* In every state the beams are no further behind than that.
LEMMA BehindCorrect == Spec => []BehindInv
<1>1. Init => BehindInv
  <2> SUFFICES ASSUME Init PROVE BehindInv
    OBVIOUS
  <2>1. pc = "radar" /\ sbm = FirstBeam /\ ebm = LastBeam
    BY DEF Init
  <2> QED
    BY <2>1 DEF BehindInv
<1>2. TypeInv /\ TypeInv' /\ BehindInv /\ [Next]_vars => BehindInv'
  <2> SUFFICES ASSUME TypeInv, TypeInv', BehindInv, [Next]_vars PROVE BehindInv'
    OBVIOUS
  <2>1. CASE UNCHANGED <<pc, beamVars, ran, scanVars, age, excuse>>
    BY <2>1, SameBehind DEF BehindInv, beamVars, scanVars
  <2>2. CASE Forgotten
    <3>1. pc' = "radar" /\ sbm' = FirstBeam /\ ebm' = LastBeam
      BY <2>2 DEF Forgotten
    <3> QED
      BY <3>1 DEF BehindInv
  <2>3. CASE Link
    BY <2>1, <2>2, <2>3 DEF Link, inttVars
  <2>4. CASE Over \/ UNCHANGED vars
    BY <2>1, <2>4 DEF Over, vars, inttVars
  <2> QED
    BY <2>3, <2>4, LoopKeepsBehind DEF Next
<1> QED
  BY <1>1, <1>2, LoopTypesCorrect, PTL DEF Spec

(***************************************************************************)
(* A beam begins half a beam and 100 ms behind its time at most, and a     *)
(* sequence more for each beam before it, whenever the program and a scan  *)
(* begin, whatever the sequences take, as long as int does not overflow    *)
(* and the operator leaves the beams alone (sync.c:47-63,                  *)
(* normalscan.c:289-297,390-393, site.c:334-368).                          *)
(***************************************************************************)
THEOREM NotBehindHolds == Spec => []NotBehind
<1>1. BehindInv => NotBehind
  BY DEF BehindInv, NotBehind, Behind, Allowed
<1> QED
  BY <1>1, BehindCorrect, PTL

-----------------------------------------------------------------------------
(* Which files a scan goes to.                                             *)

\* More of the same take no less.
LEMMA MoreOf ==
  ASSUME NEW a \in Nat, NEW b \in Nat, NEW c \in Nat, a <= b
  PROVE  a * c \in Nat /\ b * c \in Nat /\ a * c <= b * c
<1>1. PICK m \in Nat : b = a + m
  <2>1. b - a \in Nat
    OBVIOUS
  <2> QED
    BY <2>1
<1>2. b * c = a * c + m * c /\ a * c \in Nat /\ m * c \in Nat
  BY <1>1
<1> QED
  BY <1>2

\* Division does not change the order.
LEMMA DivOrder ==
  ASSUME NEW a \in Nat, NEW b \in Nat, NEW c \in Nat \ {0}, a <= b
  PROVE  a \div c \in Nat /\ b \div c \in Nat /\ a \div c <= b \div c
<1>1. PICK q, r \in Nat : q = a \div c /\ r = a % c /\ a = c * q + r /\ r < c
  BY Divided
<1>2. PICK p, s \in Nat : p = b \div c /\ s = b % c /\ b = c * p + s /\ s < c
  BY Divided
<1>3. q <= p
  <2> SUFFICES ASSUME p + 1 <= q PROVE FALSE
    OBVIOUS
  <2>1. (p + 1) * c <= q * c /\ (p + 1) * c = p * c + c
    BY MoreOf
  <2>2. PICK x, y \in Nat : x = p * c /\ x = c * p /\ y = q * c /\ y = c * q
    OBVIOUS
  <2> QED
    BY <1>1, <1>2, <2>1, <2>2
<1> QED
  BY <1>1, <1>2, <1>3

\* The time of the day, d later.
LEMMA LaterInDay ==
  ASSUME NEW s \in Nat, NEW d \in Nat
  PROVE  s % Day \in 0 .. Day - 1 /\ ((s % Day) + d) % Day = (s + d) % Day
<1>1. Day \in Nat \ {0}
  BY Constants
<1>2. PICK q, y \in Nat : y = s % Day /\ s = Day * q + y /\ y < Day
  BY <1>1, Divided
<1>3. PICK p, z \in Nat : z = (y + d) % Day /\ y + d = Day * p + z /\ z < Day
  BY <1>1, Divided
<1>4. s + d = Day * (p + q) + z
  <2>1. PICK i, j \in Nat : i = Day * q /\ j = Day * p /\ Day * (p + q) = i + j
    BY <1>1
  <2> QED
    BY <1>2, <1>3, <2>1
<1>5. (s + d) % Day = z
  <2>1. PICK n \in Nat : n = p + q
    OBVIOUS
  <2>2. (Day * n + z) % Day = z
    BY <1>1, <1>3, Remainder
  <2> QED
    BY <1>4, <2>1, <2>2
<1> QED
  BY <1>1, <1>2, <1>3, <1>5

\* What is between two times of a block is in that block, unless a day but for
\* a block is between them.
LEMMA BlockBetween ==
  ASSUME NEW x \in 0 .. Day - 1, NEW f \in Nat, NEW g \in Nat, f <= g, g <= Day - Block,
         BlockOf((x + g) % Day) = BlockOf(x)
  PROVE  BlockOf((x + f) % Day) = BlockOf(x)
<1>1. Day \in Nat \ {0} /\ Block \in Nat \ {0}
  BY Constants
<1>2. PICK b, r \in Nat : b = x \div Block /\ r = x % Block /\ x = Block * b + r /\ r < Block
  BY <1>1, Divided
<1>3. x + g < Day
  <2> SUFFICES ASSUME x + g >= Day PROVE FALSE
    BY <1>1
  <2>1. PICK y \in Nat : y = x + g - Day /\ x + g = Day * 1 + y
    BY <1>1
  <2>2. y < Day
    BY <1>1, <2>1
  <2>3. (x + g) % Day = y
    BY <1>1, <2>1, <2>2, Remainder
  <2>4. PICK c, s \in Nat : c = y \div Block /\ s = y % Block /\ y = Block * c + s /\ s < Block
    BY <1>1, Divided
  <2>5. c = b
    BY <1>2, <2>3, <2>4 DEF BlockOf
  <2>6. PICK k \in Nat : k = Block * b /\ k = Block * c
    BY <1>1, <2>5
  <2> QED
    BY <1>1, <1>2, <2>1, <2>4, <2>6
<1>4. (x + g) % Day = x + g /\ (x + f) % Day = x + f
  <2>1. (Day * 0 + (x + g)) % Day = x + g /\ (Day * 0 + (x + f)) % Day = x + f
    <3>1. PICK y, z \in Nat : y = x + g /\ z = x + f /\ y < Day /\ z < Day
      BY <1>1, <1>3
    <3>2. (Day * 0 + y) % Day = y /\ (Day * 0 + z) % Day = z
      BY <1>1, <3>1, Remainder
    <3> QED
      BY <3>1, <3>2
  <2> QED
    BY <1>1, <2>1
<1>5. PICK y, z \in Nat : y = x + f /\ z = x + g /\ x <= y /\ y <= z
  BY <1>1
<1>6. x \div Block <= y \div Block /\ y \div Block <= z \div Block
  BY <1>1, <1>5, DivOrder
<1>7. z \div Block = x \div Block
  BY <1>4, <1>5 DEF BlockOf
<1>8. x \div Block \in Nat /\ y \div Block \in Nat /\ z \div Block \in Nat
  BY <1>1, <1>5, DivOrder
<1> QED
  BY <1>4, <1>5, <1>6, <1>7, <1>8 DEF BlockOf

\* The longest beam, and how many were begun in a scan at most: an edit of
\* bmnum does not bring it back to 0.
Longest == Intt + Slip
Made == edits * (Past - 1) + bmnum
Reach == Made * Longest

LEMMA ReachType ==
  ASSUME TypeInv
  PROVE  /\ Longest \in Nat /\ Made \in Nat /\ Reach \in Nat /\ ran \in Nat
         /\ bmnum \in Beam => Reach + Longest <= MostBeams * Longest
         /\ MostBeams * Longest \in Nat
         /\ MostBeams * Longest + Scan + 1 <= Day - Block
<1>1. Past \in Nat \ {0} /\ Beam = 0 .. Past - 1
  BY Bounds
<1>2. Longest \in Nat /\ edits \in Nat /\ edits <= MaxEdit /\ MaxEdit \in Nat /\ bmnum \in 0 .. Past /\ ran \in Nat
  BY <1>1, Constants, SlipType DEF Longest, TypeInv, LoopTypeOK
<1>3. PICK p \in Nat : p = Past - 1
  BY <1>1
<1>4. edits * p \in Nat /\ MaxEdit * p \in Nat /\ edits * p <= MaxEdit * p
  BY <1>2, MoreOf
<1>5. Made = edits * p + bmnum /\ Made \in Nat
  BY <1>2, <1>3, <1>4 DEF Made
<1>6. MostBeams = MaxEdit * p + Past /\ MostBeams \in Nat
  BY <1>1, <1>3, <1>4 DEF MostBeams
<1>7. Reach \in Nat /\ MostBeams * Longest \in Nat
  BY <1>2, <1>5, <1>6 DEF Reach
<1>8. ASSUME bmnum \in Beam PROVE Reach + Longest <= MostBeams * Longest
  <2>1. PICK i, j \in Nat : i = edits * p /\ j = MaxEdit * p /\ i <= j
    BY <1>4
  <2>2. Made + 1 <= MostBeams
    BY <1>1, <1>2, <1>5, <1>6, <1>8, <2>1
  <2>3. (Made + 1) * Longest <= MostBeams * Longest
    <3>1. PICK n \in Nat : n = Made + 1
      BY <1>5
    <3>2. n * Longest <= MostBeams * Longest
      BY <1>2, <1>6, <2>2, <3>1, MoreOf
    <3> QED
      BY <3>1, <3>2
  <2>4. (Made + 1) * Longest = Reach + Longest
    BY <1>2, <1>5 DEF Reach
  <2> QED
    BY <2>3, <2>4
<1>9. MostBeams * Longest + Scan + 1 <= Day - Block
  BY TimesAssumption DEF TimesAssumption, Longest
<1> QED
  BY <1>2, <1>5, <1>7, <1>8, <1>9

\* A record adds a beam.
LEMMA RecordReach ==
  ASSUME TypeInv, TypeInv', RecordOnly \/ RecordAndEdit, pc' = "beam"
  PROVE  Reach' >= Reach + Longest
<1>1. Past \in Nat \ {0} /\ Beam = 0 .. Past - 1
  BY Bounds
<1>2. bmnum \in 0 .. Past - 1 /\ edits \in Nat
  <2>1. pc = "record"
    BY DEF RecordOnly, RecordAndEdit, Record, Do
  <2>2. bmnum \in Beam /\ edits \in 0 .. MaxEdit
    BY <2>1 DEF TypeInv, LoopTypeOK, BeamInv
  <2> QED
    BY <1>1, <2>2, Constants
<1>3. PICK p \in Nat : p = Past - 1
  BY <1>1
<1>4. PICK i \in Nat : i = edits * p
  BY <1>2
<1>5. Made = i + bmnum
  BY <1>3, <1>4 DEF Made
<1>6. Made' \in Nat /\ Made' >= Made + 1
  <2>1. CASE RecordOnly
    <3>1. bmnum' = bmnum + 1 /\ edits' = edits
      BY <2>1 DEF RecordOnly, Record, Do
    <3>2. Made' = i + (bmnum + 1)
      BY <1>3, <1>4, <3>1 DEF Made
    <3> QED
      BY <1>2, <1>5, <3>2
  <2>2. CASE RecordAndEdit
    <3>1. edits' = edits + 1
      BY <2>2 DEF RecordAndEdit
    <3>2. PICK b \in Nat : bmnum' = b + 1
      <4>1. /\ \A v \in Beam : v \in Nat
            /\ bmnum \in Nat
        BY <1>1, <1>2
      <4>2. \E b \in Beam \cup {bmnum} : pc' = (IF b = ebm' THEN "endscan" ELSE "beam")
                                         /\ bmnum' = IF b = ebm' THEN b ELSE b + 1
        <5>1. \/ \E v \in Beam : Record(v, ebm, bmnum, xcnt) \/ Record(sbm, v, bmnum, xcnt)
                                  \/ Record(sbm, ebm, v, xcnt)
              \/ \E v \in XcfEdit : Record(sbm, ebm, bmnum, v)
          BY <2>2 DEF RecordAndEdit
        <5> QED
          BY <5>1 DEF Record, Do
      <4> QED
        BY <4>1, <4>2
    <3>3. (edits + 1) * p = i + p
      BY <1>2, <1>4
    <3>4. Made' = (i + p) + (b + 1)
      BY <1>3, <3>1, <3>2, <3>3 DEF Made
    <3> QED
      BY <1>1, <1>2, <1>3, <1>5, <3>4
  <2> QED
    BY <2>1, <2>2
<1>7. Longest \in Nat /\ Made \in Nat /\ Longest' = Longest
  BY ReachType DEF Longest
<1>8. PICK n, m \in Nat : n = Made + 1 /\ m = Made' /\ n <= m
  BY <1>6, <1>7
<1>9. n * Longest <= m * Longest /\ n * Longest = Reach + Longest
  <2>1. n * Longest <= m * Longest
    BY <1>7, <1>8, MoreOf
  <2>2. (Made + 1) * Longest = Made * Longest + Longest
    BY <1>7
  <2> QED
    BY <1>8, <2>1, <2>2 DEF Reach
<1>10. Reach' = m * Longest
  BY <1>7, <1>8 DEF Reach
<1> QED
  BY <1>9, <1>10

\* The clock was read for the record before this scan at x, the scan began f
\* later, and the clock was last read g after x.
FilesSince(x, f, g) ==
  /\ then = BlockOf(x) /\ clk = BlockOf((x + g) % Day)
  /\ files \in {BlockOf(x), BlockOf((x + f) % Day)}
  /\ old = IF files = BlockOf((x + f) % Day) THEN 0 ELSE 1
  /\ f <= g
  /\ f <= Longest + (Scan + 1)
  /\ g <= MostBeams * Longest + Scan + 1

\* And it is now e after x.
TimeSince(f, g, e) ==
  /\ g <= e
  /\ pc \in {"beam", "intt", "fclr"} => e <= f + Reach
  /\ pc \in {"sequence", "sum"} => e <= f + Reach + ran
  /\ pc = "record" => e <= f + Reach + Longest
  /\ pc \in {"intt", "fclr"} => e = g
  /\ pc \in {"sequence", "sum"} => e <= g + ran
  /\ pc \in {"record", "endscan"} => e <= g + Longest
  /\ pc = "wait" => e + left <= g + Longest + Scan
  /\ pc = "scan" => e <= g + Longest + (Scan + 1)

Since(x, f, g, e) ==
  /\ pc \notin {"radar", "timeseq"}
  /\ now = (x + e) % Day
  /\ FilesSince(x, f, g) /\ TimeSince(f, g, e)

\* Before the first scan.
BeforeScan ==
  /\ then = -1 /\ old = 0 /\ pc \in {"radar", "timeseq", "scan"}
  /\ pc = "scan" => clk = BlockOf(now) /\ files = BlockOf(now)

FilesInv ==
  BeforeScan \/ \E x \in 0 .. Day - 1 : \E f, g, e \in Nat : Since(x, f, g, e)

\* After the step there are so many beams, too.
LEMMA ReachNext ==
  ASSUME TypeInv'
  PROVE  Reach' \in Nat
<1>1. bmnum' \in Beam \cup {Past} /\ edits' \in 0 .. MaxEdit
  BY DEF TypeInv, LoopTypeOK
<1>2. Past \in Nat \ {0} /\ Beam = 0 .. Past - 1 /\ MaxEdit \in Nat
  BY Bounds, Constants
<1>3. PICK b, m, p \in Nat : b = bmnum' /\ m = edits' /\ p = Past - 1
  BY <1>1, <1>2
<1>4. m * p \in Nat
  BY <1>3
<1>5. Made' = m * p + b
  BY <1>3 DEF Made
<1>6. Made' \in Nat /\ Longest \in Nat
  BY <1>4, <1>5, Constants, SlipType DEF Longest
<1>7. PICK n \in Nat : n = Made'
  BY <1>6
<1>8. Reach' = n * Longest
  BY <1>7 DEF Reach, Longest
<1> QED
  BY <1>6, <1>8

\* A scan begins.
LEMMA StartScanFiles ==
  ASSUME TypeInv, TypeInv', FilesInv, StartScan
  PROVE  FilesInv'
<1> USE DEF Do
<1>1. /\ pc = "scan" /\ pc' = "beam" /\ now' = now /\ clk' = BlockOf(now)
      /\ then' = clk
      /\ files' = IF then # -1 /\ then # clk THEN BlockOf(now) ELSE files
      /\ old' = IF files' = BlockOf(now) THEN 0 ELSE old + 1
  BY DEF StartScan, ReOpen
<1>2. /\ Day \in Nat \ {0} /\ Scan \in Nat /\ now \in 0 .. Day - 1
  BY Constants DEF TypeInv, LoopTypeOK
<1>3. Longest \in Nat /\ Reach' \in Nat /\ MostBeams * Longest \in Nat /\ Longest <= MostBeams * Longest
  <2>1. Longest \in Nat /\ MostBeams * Longest \in Nat
    BY ReachType
  <2>2. Reach' \in Nat
    BY ReachNext
  <2>3. Longest <= MostBeams * Longest
    <3>1. MostBeams \in Nat /\ 1 <= MostBeams
      <4>1. Past \in Nat \ {0} /\ MaxEdit \in Nat
        BY Bounds, Constants
      <4>2. PICK p \in Nat : p = Past - 1
        BY <4>1
      <4>3. MaxEdit * p \in Nat
        BY <4>1
      <4> QED
        BY <4>1, <4>2, <4>3 DEF MostBeams
    <3>2. 1 * Longest <= MostBeams * Longest
      BY <2>1, <3>1, MoreOf
    <3> QED
      BY <2>1, <3>2
  <2> QED
    BY <2>1, <2>2, <2>3
<1>4. ASSUME NEW y \in 0 .. Day - 1, NEW k \in Nat, clk = BlockOf(y), now = (y + k) % Day,
             k <= Longest + (Scan + 1), files' \in {BlockOf(y), BlockOf(now)},
             old' = IF files' = BlockOf(now) THEN 0 ELSE 1
      PROVE  FilesInv'
  <2>1. FilesSince(y, k, k)'
    BY <1>1, <1>2, <1>3, <1>4 DEF FilesSince, Longest
  <2>2. k <= k + Reach'
    <3>1. PICK r \in Nat : r = Reach'
      BY <1>3
    <3>2. k <= k + r
      BY <1>4
    <3> QED
      BY <3>1, <3>2, Zenon
  <2>3. TimeSince(k, k, k)'
    BY <1>1, <2>2 DEF TimeSince
  <2>4. Since(y, k, k, k)'
    BY <1>1, <1>4, <2>1, <2>3 DEF Since
  <2> QED
    BY <1>4, <2>4 DEF FilesInv
<1>5. CASE BeforeScan
  <2>1. clk = BlockOf(now) /\ files' = BlockOf(now) /\ old' = 0
    BY <1>1, <1>5 DEF BeforeScan
  <2>2. (now + 0) % Day = now
    <3>1. PICK n \in Nat : n = now /\ n < Day
      BY <1>2
    <3>2. (Day * 0 + n) % Day = n
      BY <1>2, <3>1, Remainder
    <3> QED
      BY <1>2, <3>1, <3>2
  <2> QED
    BY <1>2, <1>3, <1>4, <2>1, <2>2
<1>6. ASSUME NEW x \in 0 .. Day - 1, NEW f \in Nat, NEW g \in Nat, NEW e \in Nat, Since(x, f, g, e)
      PROVE  FilesInv'
  <2>1. /\ then = BlockOf(x) /\ clk = BlockOf((x + g) % Day)
        /\ files \in {BlockOf(x), BlockOf((x + f) % Day)}
        /\ old = IF files = BlockOf((x + f) % Day) THEN 0 ELSE 1
        /\ f <= g /\ g <= MostBeams * Longest + Scan + 1
        /\ g <= e /\ e <= g + Longest + (Scan + 1) /\ now = (x + e) % Day
    BY <1>1, <1>6 DEF Since, FilesSince, TimeSince
  <2>2. PICK k \in Nat : e = g + k /\ k <= Longest + (Scan + 1)
    <3>1. e - g \in Nat /\ e = g + (e - g)
      BY <2>1
    <3> QED
      BY <1>2, <1>3, <2>1, <3>1
  <2>3. PICK y \in 0 .. Day - 1 : y = (x + g) % Day /\ now = (y + k) % Day
    <3>1. PICK s \in Nat : s = x + g
      BY <1>2
    <3>2. s % Day \in 0 .. Day - 1 /\ ((s % Day) + k) % Day = (s + k) % Day
      BY <3>1, LaterInDay
    <3>3. s + k = x + e
      BY <1>2, <2>2, <3>1
    <3> QED
      BY <2>1, <3>1, <3>2, <3>3
  <2>4. CASE then # clk
    <3>1. then # -1
      <4>1. BlockOf(x) \in Nat
        BY <1>2, Constants, ModType DEF BlockOf
      <4> QED
        BY <2>1, <4>1
    <3>2. files' = BlockOf(now) /\ old' = 0
      BY <1>1, <2>4, <3>1
    <3> QED
      BY <1>4, <2>1, <2>2, <2>3, <3>2
  <2>5. CASE then = clk
    <3>1. BlockOf((x + f) % Day) = BlockOf(x)
      <4>1. g <= Day - Block
        <5>1. MostBeams * Longest + Scan + 1 <= Day - Block
          BY ReachType
        <5>2. PICK m \in Nat : m = MostBeams * Longest
          BY <1>3
        <5> QED
          BY <1>2, <2>1, <5>1, <5>2, Constants
      <4>2. BlockOf((x + g) % Day) = BlockOf(x)
        BY <2>1, <2>5
      <4> QED
        BY <2>1, <4>1, <4>2, BlockBetween
    <3>2. files' = BlockOf(y) /\ old = 0
      BY <1>1, <2>1, <2>3, <2>5, <3>1
    <3>3. old' = IF files' = BlockOf(now) THEN 0 ELSE 1
      BY <1>1, <3>2
    <3> QED
      BY <1>4, <2>1, <2>2, <2>3, <3>2, <3>3
  <2> QED
    BY <2>4, <2>5
<1> QED
  BY <1>5, <1>6 DEF FilesInv

\* Time passes.
LEMMA PassSince ==
  ASSUME NEW x \in 0 .. Day - 1, NEW e \in Nat, NEW d \in Nat, now = (x + e) % Day, Pass(d)
  PROVE  now' = (x + (e + d)) % Day
<1>1. PICK s \in Nat : s = x + e /\ s + d = x + (e + d)
  BY Constants
<1>2. ((s % Day) + d) % Day = (s + d) % Day
  BY LaterInDay
<1> QED
  BY <1>1, <1>2 DEF Pass

\* The steps within a scan.
LEMMA LoopKeepsSince ==
  ASSUME TypeInv, TypeInv', BehindInv, Loop, ~StartScan,
         NEW x \in 0 .. Day - 1, NEW f \in Nat, NEW g \in Nat, NEW e \in Nat, Since(x, f, g, e)
  PROVE  \E h, i \in Nat : Since(x, f, h, i)'
<1> USE DEF Do, beamVars, scanVars, inttVars, fileVars
<1>1. /\ Longest \in Nat /\ Made \in Nat /\ Reach \in Nat /\ ran \in Nat
      /\ MostBeams * Longest \in Nat
      /\ Scan \in Nat /\ left \in -1 .. Scan /\ Longest = Intt + Slip /\ Intt \in Nat /\ Slip \in Nat
  BY ReachType, Constants, SlipType DEF TypeInv, LoopTypeOK, Longest
<1>2. UNCHANGED <<then, clk, files, old>> => FilesSince(x, f, g)'
  BY <1>1 DEF Since, FilesSince, Longest
<1>3. UNCHANGED <<edits, bmnum>> => Reach' = Reach
  BY DEF Reach, Made, Longest
<1>4. UNCHANGED now => now' = (x + e) % Day
  BY DEF Since
<1>5. CASE StartIntt
  <2>1. /\ pc = "beam" /\ pc' = "intt" /\ bmnum # Past /\ clk' = BlockOf(now)
        /\ UNCHANGED <<now, then, files, old, bmnum, edits>>
    BY <1>5 DEF StartIntt
  <2>2. e <= f + Reach /\ g <= e /\ f <= Longest + (Scan + 1) /\ f <= g
    BY <2>1 DEF Since, TimeSince, FilesSince
  <2>3. Reach + Longest <= MostBeams * Longest
    BY <2>1, ReachType DEF TypeInv, LoopTypeOK
  <2>4. e <= MostBeams * Longest + Scan + 1
    <3>1. PICK m \in Nat : m = MostBeams * Longest
      BY <1>1
    <3> QED
      BY <1>1, <2>2, <2>3, <3>1
  <2>5. FilesSince(x, f, e)'
    BY <1>1, <2>1, <2>2, <2>4 DEF Since, FilesSince, Longest
  <2>6. TimeSince(f, e, e)'
    BY <1>3, <2>1, <2>2 DEF TimeSince
  <2>7. Since(x, f, e, e)'
    BY <1>4, <2>1, <2>5, <2>6 DEF Since
  <2> QED
    BY <2>7
<1>6. CASE FCLR \/ Integrate \/ Sequence
  <2>1. /\ UNCHANGED <<now, clk, then, files, old, bmnum, edits>>
        /\ \/ pc = "intt" /\ pc' = "fclr"
           \/ pc = "fclr" /\ pc' = "sequence" /\ ran' = 0
           \/ pc = "sequence" /\ pc' = "sum" /\ ran' = ran
    BY <1>6 DEF FCLR, Integrate, Sequence
  <2>2. TimeSince(f, g, e)'
    BY <1>1, <1>3, <2>1 DEF TimeSince, Since
  <2>3. Since(x, f, g, e)'
    BY <1>2, <1>4, <2>1, <2>2 DEF Since
  <2> QED
    BY <2>3
<1>7. CASE IntegrateDone
  <2>1. /\ UNCHANGED <<now, clk, then, files, old, bmnum, edits>>
        /\ pc = "sequence" /\ pc' = "record"
    BY <1>7 DEF IntegrateDone
  <2>2. ran <= Longest
    BY <1>1, <2>1 DEF BehindInv
  <2>3. TimeSince(f, g, e)'
    BY <1>1, <1>3, <2>1, <2>2 DEF TimeSince, Since, Longest
  <2>4. Since(x, f, g, e)'
    BY <1>2, <1>4, <2>1, <2>3 DEF Since
  <2> QED
    BY <2>4
<1>8. CASE EndScan \/ Boundary
  <2>1. /\ UNCHANGED <<now, clk, then, files, old, bmnum, edits>>
        /\ \/ pc = "endscan" /\ pc' = "wait"
           \/ pc = "wait" /\ pc' = "scan" /\ left < 0
    BY <1>8 DEF EndScan, Boundary
  <2>2. left' \in -1 .. Scan
    BY DEF TypeInv, LoopTypeOK
  <2>3. g <= e /\ Longest' = Longest
    BY DEF Since, TimeSince, Longest
  <2>4. pc = "endscan" => e + left' <= g + Longest + Scan
    <3>1. pc = "endscan" => e <= g + Longest
      BY DEF Since, TimeSince
    <3>2. PICK l \in -1 .. Scan : l = left'
      BY <2>2
    <3>3. pc = "endscan" => e + l <= g + Longest + Scan
      BY <1>1, <3>1
    <3> QED
      BY <3>2, <3>3, Zenon
  <2>5. pc = "wait" /\ left < 0 => e <= g + Longest + (Scan + 1)
    <3>1. pc = "wait" => e + left <= g + Longest + Scan
      BY DEF Since, TimeSince
    <3> QED
      BY <1>1, <3>1
  <2>6. TimeSince(f, g, e)'
    BY <2>1, <2>3, <2>4, <2>5 DEF TimeSince
  <2>7. Since(x, f, g, e)'
    BY <1>2, <1>4, <2>1, <2>6 DEF Since
  <2> QED
    BY <2>7
<1>9. ASSUME NEW d \in Dur \cup {0}, Sum(d)
      PROVE  \E h, i \in Nat : Since(x, f, h, i)'
  <2>1. d \in Nat
    BY SlipType
  <2>2. /\ UNCHANGED <<clk, then, files, old, bmnum, edits>>
        /\ pc = "sum" /\ pc' = "sequence" /\ ran' = ran + d /\ Pass(d)
    BY <1>9 DEF Sum
  <2>3. TimeSince(f, g, e + d)'
    BY <1>1, <1>3, <2>1, <2>2 DEF TimeSince, Since
  <2>4. now' = (x + (e + d)) % Day
    BY <2>1, <2>2, PassSince DEF Since
  <2>5. Since(x, f, g, e + d)'
    BY <1>2, <2>2, <2>3, <2>4 DEF Since
  <2> QED
    BY <2>1, <2>5
<1>10. CASE Wait
  <2>1. /\ UNCHANGED <<clk, then, files, old, bmnum, edits>>
        /\ pc = "wait" /\ pc' = "wait" /\ left' = left - Sleep /\ Pass(Sleep) /\ left >= 0
    BY <1>10 DEF Wait
  <2>2. PICK d \in Nat : d = Sleep
    <3>1. Sleep \in Nat
      BY <1>1, <2>1, Constants DEF Sleep
    <3> QED
      BY <3>1
  <2>3. TimeSince(f, g, e + d)'
    BY <1>1, <2>1, <2>2 DEF TimeSince, Since, Longest
  <2>4. now' = (x + (e + d)) % Day
    BY <2>1, <2>2, PassSince DEF Since
  <2>5. Since(x, f, g, e + d)'
    BY <1>2, <2>1, <2>3, <2>4 DEF Since
  <2> QED
    BY <2>2, <2>5
<1>11. CASE RecordOnly \/ RecordAndEdit
  <2>1. /\ UNCHANGED <<now, clk, then, files, old>>
        /\ pc = "record" /\ pc' \in {"beam", "endscan"}
    BY <1>11 DEF RecordOnly, RecordAndEdit, Record
  <2>2. pc' = "beam" => Reach' >= Reach + Longest /\ Reach' \in Nat
    <3>1. pc' = "beam" => Reach' >= Reach + Longest
      BY <1>11, RecordReach
    <3>2. Reach' \in Nat
      BY ReachNext
    <3> QED
      BY <3>1, <3>2
  <2>3. TimeSince(f, g, e)'
    BY <1>1, <2>1, <2>2 DEF TimeSince, Since, Longest
  <2>4. Since(x, f, g, e)'
    BY <1>2, <1>4, <2>1, <2>3 DEF Since
  <2> QED
    BY <2>4
<1>12. CASE SetupRadar \/ TimeSeq
  BY <1>12 DEF SetupRadar, TimeSeq, Since
<1> QED
  BY <1>5, <1>6, <1>7, <1>8, <1>9, <1>10, <1>11, <1>12 DEF Loop

\* Each step of the loop keeps the invariant.
LEMMA LoopKeepsFiles ==
  ASSUME TypeInv, TypeInv', BehindInv, FilesInv, Loop
  PROVE  FilesInv'
<1>1. CASE StartScan
  BY <1>1, StartScanFiles
<1>2. CASE ~StartScan /\ BeforeScan
  <2>1. pc \in {"radar", "timeseq", "scan"} /\ then = -1 /\ old = 0
    BY <1>2 DEF BeforeScan
  <2>2. SetupRadar \/ TimeSeq
    BY <1>2, <2>1 DEF Loop, StartIntt, FCLR, Integrate, Sequence, Sum, IntegrateDone,
      RecordOnly, RecordAndEdit, Record, EndScan, Wait, Boundary, Do
  <2>3. CASE SetupRadar
    BY <2>1, <2>3 DEF SetupRadar, Do, FilesInv, BeforeScan, fileVars
  <2>4. CASE TimeSeq
    BY <2>1, <2>4 DEF TimeSeq, Do, FilesInv, BeforeScan
  <2> QED
    BY <2>2, <2>3, <2>4
<1>3. CASE ~StartScan /\ \E x \in 0 .. Day - 1 : \E f, g, e \in Nat : Since(x, f, g, e)
  <2>1. PICK x \in 0 .. Day - 1 : \E f, g, e \in Nat : Since(x, f, g, e)
    BY <1>3
  <2>2. PICK f, g, e \in Nat : Since(x, f, g, e)
    BY <2>1
  <2>3. \E h, i \in Nat : Since(x, f, h, i)'
    BY <1>3, <2>2, LoopKeepsSince
  <2> QED
    BY <2>3 DEF FilesInv
<1> QED
  BY <1>1, <1>2, <1>3 DEF FilesInv

\* In every state.
LEMMA FilesCorrect == Spec => []FilesInv
<1>1. Init => FilesInv
  BY DEF Init, FilesInv, BeforeScan
<1>2. TypeInv /\ TypeInv' /\ BehindInv /\ FilesInv /\ [Next]_vars => FilesInv'
  <2> SUFFICES ASSUME TypeInv, TypeInv', BehindInv, FilesInv, [Next]_vars PROVE FilesInv'
    OBVIOUS
  <2>1. CASE UNCHANGED <<pc, now, clk, then, files, old, bmnum, ran, left, edits>>
    <3>1. BeforeScan => BeforeScan'
      BY <2>1 DEF BeforeScan
    <3>2. Reach' = Reach
      BY <2>1 DEF Reach, Made, Longest
    <3>3. ASSUME NEW x, NEW f, NEW g, NEW e, Since(x, f, g, e) PROVE Since(x, f, g, e)'
      BY <2>1, <3>2, <3>3 DEF Since, FilesSince, TimeSince, Longest
    <3> QED
      BY <3>1, <3>3 DEF FilesInv
  <2>2. CASE Forgotten
    BY <2>2 DEF Forgotten, FilesInv, BeforeScan
  <2>3. CASE Link
    BY <2>1, <2>2, <2>3 DEF Link, inttVars, fileVars, beamVars
  <2>4. CASE Over \/ UNCHANGED vars
    BY <2>1, <2>4 DEF Over, vars, inttVars, fileVars, beamVars
  <2> QED
    BY <2>3, <2>4, LoopKeepsFiles DEF Next
<1> QED
  BY <1>1, <1>2, BehindCorrect, LoopTypesCorrect, PTL DEF Spec

(***************************************************************************)
(* The files are those of the block the scan begins in, or were until the  *)
(* scan before: whatever the edits and the clock, a scan after another in  *)
(* old files opens new ones (reopen.c:31-47, normalscan.c:269-275,301).    *)
(***************************************************************************)
THEOREM FilesFollowHolds == Spec => []FilesFollow
<1>1. FilesInv => FilesFollow
  BY DEF FilesInv, BeforeScan, Since, FilesSince, FilesFollow
<1> QED
  BY <1>1, FilesCorrect, PTL

-----------------------------------------------------------------------------
(* Which scan of the day it is.                                            *)

\* The shortest beam: a sequence is not begun when its end is past tock, in
\* whole seconds.
Least == (Intt + 2) - (Sec + Slip)

LEMMA LongEnough ==
  ASSUME LoopTypeOK, TimeIsUp, ran <= nave * Slip
  PROVE  ran >= Least
<1>1. Sec \in Nat \ {0} /\ Intt \in Nat /\ ran \in Nat /\ now \in Int /\ Slip \in Nat /\ nave \in Nat
  BY Constants, SlipType DEF LoopTypeOK
<1> DEFINE start == (now - ran) % Sec
           tavg == IF nave > 0 THEN ran \div nave ELSE 0
<1>2. start \in Nat /\ start < Sec
  BY <1>1
<1>3. tavg \in Nat /\ tavg <= Slip
  <2>1. CASE nave > 0
    <3>1. PICK q, r \in Nat : q = ran \div nave /\ ran = nave * q + r
      BY <1>1, <2>1, Divided
    <3>2. q <= Slip
      <4> SUFFICES ASSUME Slip + 1 <= q PROVE FALSE
        BY <1>1
      <4>1. (Slip + 1) * nave <= q * nave /\ (Slip + 1) * nave = Slip * nave + nave
        BY <1>1, MoreOf
      <4>2. PICK i, j \in Nat : i = nave * q /\ i = q * nave /\ j = Slip * nave /\ j = nave * Slip
        BY <1>1
      <4> QED
        BY <1>1, <2>1, <3>1, <4>1, <4>2
    <3> QED
      BY <2>1, <3>1, <3>2
  <2> QED
    BY <1>1, <2>1
<1> DEFINE tick == [sec  |-> ((start + ran) \div Sec) + (tavg \div Sec),
                    usec |-> ((start + ran) % Sec) + (tavg % Sec)]
           tock == [sec |-> Intt \div Sec, usec |-> start + (Intt % Sec)]
<1>4. tick.sec > tock.sec \/ (tick.sec >= tock.sec /\ tick.usec > tock.usec)
  BY DEF TimeIsUp
<1>5. start + ran \in Nat
  BY <1>1, <1>2
<1>6. PICK a, b \in Nat : /\ a = (start + ran) \div Sec /\ b = (start + ran) % Sec
                         /\ start + ran = Sec * a + b /\ b < Sec
  BY <1>1, <1>5, Divided
<1>8. PICK c, e \in Nat : c = Intt \div Sec /\ e = Intt % Sec /\ Intt = Sec * c + e /\ e < Sec
  BY <1>1, Divided
<1>9. PICK f, g \in Nat : f = tavg \div Sec /\ g = tavg % Sec /\ tavg = Sec * f + g
  BY <1>1, <1>3, Divided
<1>10. a + f > c \/ (a + f >= c /\ b + g > start + e)
  <2>1. tick.sec = a + f /\ tick.usec = b + g /\ tock.sec = c /\ tock.usec = start + e
    BY <1>6, <1>8, <1>9
  <2> HIDE DEF tick, tock
  <2> QED
    BY <1>2, <1>4, <2>1
<1> HIDE DEF start, tavg
<1>11. PICK n \in Nat : n = Sec * (a + f) /\ start + ran + tavg = n + b + g
  <2>1. PICK i, j \in Nat : i = Sec * a /\ j = Sec * f /\ Sec * (a + f) = i + j
    BY <1>1
  <2> QED
    BY <1>1, <1>2, <1>3, <1>6, <1>9, <2>1
<1>12. PICK m \in Nat : m = Sec * c /\ Intt = m + e
  BY <1>1, <1>8
<1>13. CASE a + f > c
  <2>1. (c + 1) * Sec <= (a + f) * Sec /\ (c + 1) * Sec = c * Sec + Sec
    <3>1. PICK s, t \in Nat : s = c + 1 /\ t = a + f /\ s <= t
      BY <1>13
    <3>2. s * Sec <= t * Sec
      BY <1>1, <3>1, MoreOf
    <3> QED
      BY <1>1, <3>1, <3>2
  <2>2. m + Sec <= n
    BY <1>1, <1>11, <1>12, <2>1
  <2> QED
    BY <1>1, <1>2, <1>3, <1>8, <1>11, <1>12, <2>2 DEF Least
<1>14. CASE a + f >= c /\ b + g > start + e
  <2>1. c * Sec <= (a + f) * Sec
    <3>1. PICK t \in Nat : t = a + f /\ c <= t
      BY <1>14
    <3> QED
      BY <1>1, <3>1, MoreOf
  <2>2. m <= n
    BY <1>1, <1>11, <1>12, <2>1
  <2> QED
    BY <1>1, <1>2, <1>3, <1>8, <1>11, <1>12, <1>14, <2>2 DEF Least
<1> QED
  BY <1>10, <1>13, <1>14

\* A scan begun when all of its beams are over, which is one of the next, has
\* all of its beams made.
LEMMA SkipNone ==
  ASSUME NEW t \in 0 .. Day - 1, BeamsOver(t), sbm = FirstBeam, ebm = LastBeam
  PROVE  FindSkip(t) = 0
<1>1. /\ Intt \in Nat \ {0} /\ Scan \in Nat \ {0} /\ Hour \in Nat \ {0} /\ Lead \in Nat
      /\ Half \in Nat /\ t \in Nat /\ Hour + Intt <= 2 * Half
  BY Constants, ScanLoopAssumption DEF ScanLoopAssumption
<1>2. PICK n \in Nat : n = LastBeam - FirstBeam /\ FirstBeam \in Nat /\ LastBeam \in Nat
  BY ScanLoopAssumption DEF ScanLoopAssumption
<1>3. Beams = n + 1 /\ (n + 1) * Intt <= Scan
  <2>1. Beams = n + 1
    BY <1>2 DEF Beams
  <2> QED
    BY <2>1, TimesAssumption DEF TimesAssumption
<1>4. PICK h \in Nat : h = Intt \div 2 /\ h < Intt
  <2>1. Intt \div 2 \in Nat /\ Intt = 2 * (Intt \div 2) + (Intt % 2) /\ Intt % 2 \in 0 .. 1
    BY <1>1
  <2> QED
    BY <1>1, <2>1
<1>5. PICK r \in Nat : r = t % Scan /\ r < Scan
  BY <1>1, Divided
<1>6. PICK q \in Nat : t % Hour = q * Scan + r
  BY <1>1, <1>5, ScanInHour
<1>7. PICK w \in Nat : w = q * Scan
  BY <1>1
<1> DEFINE over == r + h - Lead
<1>8. over >= (n + 1) * Intt /\ (n + 1) * Intt \in Nat /\ over \in Int
  BY <1>1, <1>3, <1>4, <1>5 DEF BeamsOver
<1>9. Nearest(t) = w + over
  BY <1>1, <1>4, <1>6, <1>7 DEF Nearest
<1>10. over >= Intt
  <2>1. 1 * Intt <= (n + 1) * Intt
    BY <1>1, MoreOf
  <2> QED
    BY <1>1, <1>8, <2>1
<1>11. CASE Overflows(t)
  <2>1. t % Hour < Hour /\ t % Hour \in Nat
    BY <1>1, ModType
  <2>2. Nearest(t) < Hour + Intt
    BY <1>1, <1>4, <2>1 DEF Nearest
  <2>3. Tv(t) < 0
    BY <1>1, <1>7, <1>8, <1>9, <1>11, <2>2 DEF Tv
  <2> QED
    BY <1>2, <2>3 DEF FindSkip, Distance
<1>12. CASE ~Overflows(t)
  <2>1. PICK v \in Nat : v = over
    BY <1>8, <1>10, <1>1
  <2>2. Tv(t) = w + v
    BY <1>9, <1>12, <2>1 DEF Tv
  <2>3. CASE v < Scan
    <3>1. (Scan * q + v) % Scan = v
      BY <1>1, <2>3, Remainder
    <3>2. Tv(t) % Scan = v /\ Tv(t) >= 0
      <4>1. Scan * q = w
        BY <1>1, <1>7
      <4> QED
        BY <2>2, <3>1, <4>1
    <3>3. PICK s, m \in Nat : s = v \div Intt /\ v = Intt * s + m /\ m < Intt
      BY <1>1, Divided
    <3>4. s > n
      <4> SUFFICES ASSUME s <= n PROVE FALSE
        OBVIOUS
      <4>1. (s + 1) * Intt <= (n + 1) * Intt
        <5>1. PICK i, j \in Nat : i = s + 1 /\ j = n + 1 /\ i <= j
          OBVIOUS
        <5> QED
          BY <1>1, <5>1, MoreOf
      <4>2. (s + 1) * Intt = Intt * s + Intt
        BY <1>1
      <4>3. PICK i \in Nat : i = Intt * s
        BY <1>1
      <4> QED
        BY <1>1, <1>8, <2>1, <3>3, <4>1, <4>2, <4>3
    <3>5. Distance(ebm, sbm) = n
      BY <1>2 DEF Distance
    <3> QED
      BY <3>2, <3>3, <3>4, <3>5 DEF FindSkip
  <2>4. CASE v >= Scan
    <3>1. PICK u \in Nat : v = Scan + u /\ u < Intt
      <4>1. v - Scan \in Nat /\ v = Scan + (v - Scan) /\ v - Scan < Intt
        BY <1>1, <1>4, <1>5, <2>1, <2>4
      <4> QED
        BY <4>1
    <3>2. u < Scan
      <4>1. 1 * Intt <= (n + 1) * Intt
        BY <1>1, MoreOf
      <4> QED
        BY <1>1, <1>3, <1>8, <3>1, <4>1
    <3>3. (Scan * (q + 1) + u) % Scan = u
      <4>1. PICK i \in Nat : i = q + 1
        OBVIOUS
      <4> QED
        BY <1>1, <3>2, <4>1, Remainder
    <3>4. Tv(t) % Scan = u /\ Tv(t) >= 0
      <4>1. Scan * (q + 1) = w + Scan
        BY <1>1, <1>7
      <4> QED
        BY <1>1, <2>2, <3>1, <3>3, <4>1
    <3>5. u \div Intt = 0
      <4>1. PICK s, m \in Nat : s = u \div Intt /\ u = Intt * s + m
        BY <1>1, Divided
      <4>2. s < 1
        <5> SUFFICES ASSUME 1 <= s PROVE FALSE
          OBVIOUS
        <5>1. 1 * Intt <= s * Intt
          BY <1>1, MoreOf
        <5>2. PICK i \in Nat : i = s * Intt /\ i = Intt * s
          BY <1>1
        <5> QED
          BY <1>1, <3>1, <4>1, <5>1, <5>2
      <4> QED
        BY <4>1, <4>2
    <3> QED
      BY <1>2, <3>4, <3>5 DEF FindSkip, Distance
  <2> QED
    BY <1>1, <2>3, <2>4
<1> QED
  BY <1>11, <1>12

\* The scans, counted on from day to day.
ScanOf(t) == (t \div Scan) + IF BeamsOver(t) THEN 1 ELSE 0

\* What the beams before this one have taken, at most and at least.
Most == (bmnum - FirstBeam) * Longest
Fewest == (bmnum - FirstBeam) * Least

\* The scan began at x and has lasted for a.
ScanSince(x, a) ==
  /\ pc \in {"beam", "intt", "fclr", "sequence", "sum", "record"} =>
       bmnum \in FirstBeam .. LastBeam
  /\ pc \in {"beam", "intt", "fclr"} => a <= Most
  /\ pc \in {"sequence", "sum"} => a <= Most + ran
  /\ pc = "record" => a <= Most + Longest
  /\ pc = "endscan" => a <= Beams * Longest
  /\ BeamsOver(x) =>
       /\ pc \in {"beam", "intt", "fclr"} => a >= Fewest
       /\ pc \in {"sequence", "sum"} => a >= Fewest + ran
       /\ pc = "record" => a >= Fewest + Least
       /\ pc = "endscan" => a >= Beams * Least
  /\ pc = "wait" =>
       /\ a + left <= Beams * Longest + Scan
       /\ \E c \in Nat : c >= ScanOf(x) + 1 /\ x + a + left = Scan * c
  /\ pc = "scan" =>
       /\ a <= Beams * Longest + (Scan + 1)
       /\ \E c \in Nat : c >= ScanOf(x) + 1 /\ x + a = Scan * c + 1

Elapsed(x, a) ==
  /\ pc \notin {"radar", "timeseq"}
  /\ now = (x + a) % Day /\ period = PeriodOf(x)
  /\ "beams" \notin excuse => ScanSince(x, a)

PeriodInv ==
  /\ pc \in {"sequence", "sum"} => ran <= nave * Slip
  /\ period = -1 \/ \E x \in 0 .. Day - 1 : \E a \in Nat : Elapsed(x, a)

\* Their types, and those of all the beams of a scan.
LEMMA BeamTimes ==
  ASSUME LoopTypeOK
  PROVE  /\ FirstBeam \in Nat /\ LastBeam \in Nat /\ FirstBeam <= LastBeam
         /\ bmnum \in Nat /\ Longest \in Nat /\ Least \in Int /\ Scan \in Nat \ {0}
         /\ Most \in Int /\ Fewest \in Int /\ Beams * Longest \in Nat /\ Beams * Least \in Int
         /\ bmnum \in FirstBeam .. LastBeam => Most + Longest <= Beams * Longest
         /\ bmnum = LastBeam => Fewest + Least = Beams * Least
<1>1. FirstBeam \in Nat /\ LastBeam \in Nat /\ FirstBeam <= LastBeam
  BY ScanLoopAssumption DEF ScanLoopAssumption
<1>2. bmnum \in Nat
  <2>1. Past \in Nat \ {0} /\ Beam = 0 .. Past - 1
    BY Bounds
  <2> QED
    BY <2>1 DEF LoopTypeOK
<1>3. Longest \in Nat /\ Least \in Int /\ Scan \in Nat \ {0}
  BY Constants, SlipType DEF Longest, Least
<1>4. PICK k \in Int, n \in Nat : k = bmnum - FirstBeam /\ n = Beams /\ n = LastBeam - FirstBeam + 1
  BY <1>1, <1>2 DEF Beams
<1>5. k * Longest \in Int /\ k * Least \in Int /\ n * Longest \in Nat /\ n * Least \in Int
  BY <1>3
<1>6. Most = k * Longest /\ Fewest = k * Least
  BY <1>4 DEF Most, Fewest
<1>7. ASSUME bmnum \in FirstBeam .. LastBeam PROVE Most + Longest <= Beams * Longest
  <2>1. PICK i \in Nat : i = k + 1 /\ i <= n
    BY <1>1, <1>2, <1>4, <1>7
  <2>2. i * Longest <= n * Longest
    BY <1>3, <2>1, MoreOf
  <2>3. i * Longest = k * Longest + Longest
    BY <1>3, <2>1
  <2> QED
    BY <1>4, <1>6, <2>2, <2>3
<1>8. ASSUME bmnum = LastBeam PROVE Fewest + Least = Beams * Least
  <2>1. n = k + 1
    BY <1>1, <1>4, <1>8
  <2>2. (k + 1) * Least = k * Least + Least
    BY <1>3
  <2> QED
    BY <1>4, <1>6, <2>1, <2>2
<1> QED
  BY <1>1, <1>2, <1>3, <1>4, <1>5, <1>6, <1>7, <1>8

\* The next beam.
LEMMA NextBeamTimes ==
  ASSUME LoopTypeOK, bmnum' = bmnum + 1
  PROVE  Most' = Most + Longest /\ Fewest' = Fewest + Least
<1>1. FirstBeam \in Nat /\ bmnum \in Nat /\ Longest \in Nat /\ Least \in Int
  BY BeamTimes
<1>2. PICK k \in Int : k = bmnum - FirstBeam /\ k + 1 = bmnum' - FirstBeam
  BY <1>1
<1>3. (k + 1) * Longest = k * Longest + Longest /\ (k + 1) * Least = k * Least + Least
  BY <1>1
<1>4. Most = k * Longest /\ Fewest = k * Least
  BY <1>2 DEF Most, Fewest
<1>5. Most' = (k + 1) * Longest /\ Fewest' = (k + 1) * Least
  BY <1>2 DEF Most, Fewest, Longest, Least
<1> QED
  BY <1>3, <1>4, <1>5

\* The time in a scan is the same on every day.
LEMMA ScanInDay ==
  ASSUME NEW y \in Nat
  PROVE  \E w \in Nat : /\ y \div Scan = w * (Day \div Scan) + ((y % Day) \div Scan)
                        /\ y % Scan = (y % Day) % Scan
<1>1. Day \in Nat \ {0} /\ Scan \in Nat \ {0} /\ Day % Scan = 0
  BY Constants
<1>2. PICK w, t \in Nat : w = y \div Day /\ t = y % Day /\ y = Day * w + t
  BY <1>1, Divided
<1>3. PICK u, m \in Nat : u = Day \div Scan /\ m = Day % Scan /\ Day = Scan * u + m
  BY <1>1, Divided
<1>4. Day = Scan * u
  <2>1. Scan * u \in Nat
    BY <1>1
  <2> QED
    BY <1>1, <1>3, <2>1
<1>5. PICK i, r \in Nat : i = t \div Scan /\ r = t % Scan /\ t = Scan * i + r /\ r < Scan
  BY <1>1, Divided
<1>6. PICK j, s \in Nat : j = y \div Scan /\ s = y % Scan /\ y = Scan * j + s /\ s < Scan
  BY <1>1, Divided
<1>7. PICK k \in Nat : k = w * u + i
  BY <1>3
<1>8. y = Scan * k + r
  <2>1. PICK z \in Nat : z = w * u
    BY <1>3
  <2>2. Day * w = Scan * z
    BY <1>1, <1>4, <2>1
  <2>3. Scan * (z + i) = Scan * z + Scan * i
    BY <1>1
  <2>4. PICK a, b \in Nat : a = Scan * z /\ b = Scan * i
    BY <1>1
  <2> QED
    BY <1>2, <1>5, <1>7, <2>1, <2>2, <2>3, <2>4
<1>9. s = r
  <2>1. (Scan * k + r) % Scan = r
    BY <1>1, <1>5, Remainder
  <2> QED
    BY <1>6, <1>8, <2>1
<1>10. j = k
  <2>1. PICK a, b \in Nat : a = Scan * j /\ b = Scan * k /\ a = b
    BY <1>1, <1>6, <1>8, <1>9
  <2>2. ~(j < k)
    <3> SUFFICES ASSUME j + 1 <= k PROVE FALSE
      OBVIOUS
    <3>1. (j + 1) * Scan <= k * Scan /\ (j + 1) * Scan = j * Scan + Scan
      BY <1>1, MoreOf
    <3>2. a = j * Scan /\ b = k * Scan
      BY <1>1, <2>1
    <3> QED
      BY <1>1, <2>1, <3>1, <3>2
  <2>3. ~(k < j)
    <3> SUFFICES ASSUME k + 1 <= j PROVE FALSE
      OBVIOUS
    <3>1. (k + 1) * Scan <= j * Scan /\ (k + 1) * Scan = k * Scan + Scan
      BY <1>1, MoreOf
    <3>2. a = j * Scan /\ b = k * Scan
      BY <1>1, <2>1
    <3> QED
      BY <1>1, <2>1, <3>1, <3>2
  <2> QED
    BY <2>2, <2>3
<1> QED
  BY <1>2, <1>3, <1>5, <1>6, <1>7, <1>9, <1>10

\* A scan that began at x is not the one that begins after the boundary.
LEMMA AnotherScan ==
  ASSUME NEW x \in 0 .. Day - 1, NEW a \in Nat, NEW c \in Nat,
         c >= ScanOf(x) + 1, x + a = Scan * c + 1,
         a <= Beams * Longest + (Scan + 1)
  PROVE  PeriodOf((x + a) % Day) # PeriodOf(x)
<1>1. Day \in Nat \ {0} /\ Scan \in Nat \ {0} /\ Day % Scan = 0 /\ x \in Nat
  BY Constants
<1>2. PICK l \in Nat : l = Beams * Longest /\ l + 3 * Scan < Day
  <2>1. Beams * Longest \in Nat
    <3>1. FirstBeam \in Nat /\ LastBeam \in Nat /\ FirstBeam <= LastBeam
      BY ScanLoopAssumption DEF ScanLoopAssumption
    <3>2. Beams \in Nat /\ Longest \in Nat
      BY <3>1, Constants, SlipType DEF Beams, Longest
    <3> QED
      BY <3>2
  <2>2. Beams * Longest + 3 * Scan < Day
    BY TimesAssumption DEF TimesAssumption, Longest
  <2> QED
    BY <2>1, <2>2
<1>3. PICK u, m \in Nat : u = Day \div Scan /\ m = Day % Scan /\ Day = Scan * u + m
  BY <1>1, Divided
<1>4. Day = Scan * u /\ u > 0
  <2>1. Scan * u \in Nat /\ (u = 0 => Scan * u = 0)
    BY <1>1
  <2> QED
    BY <1>1, <1>3, <2>1
<1>5. PICK y, t \in Nat : y = x + a /\ t = y % Day
  <2>1. PICK y \in Nat : y = x + a
    BY <1>1
  <2>2. y % Day \in Nat
    BY <1>1, ModType
  <2> QED
    BY <2>1, <2>2
<1>6. PICK i \in Nat : i = t \div Scan
  BY <1>1, ModType
<1>7. PICK w \in Nat : y \div Scan = w * u + i
  BY <1>3, <1>5, <1>6, ScanInDay
<1>8. PICK q, r \in Nat : q = y \div Scan /\ y = Scan * q + r /\ r < Scan
  BY <1>1, Divided
<1>9. PICK j, s \in Nat : j = x \div Scan /\ s = x % Scan /\ x = Scan * j + s /\ s < Scan
  BY <1>1, Divided
<1>10. PICK o, p \in {0, 1} : ScanOf(x) = j + o /\ PeriodOf(x) = (j + o) % u /\ PeriodOf(t) = (i + p) % u
  <2>1. PICK o \in {0, 1} : o = IF BeamsOver(x) THEN 1 ELSE 0
    OBVIOUS
  <2>2. PICK p \in {0, 1} : p = IF BeamsOver(t) THEN 1 ELSE 0
    OBVIOUS
  <2> QED
    BY <1>3, <1>6, <1>9, <2>1, <2>2 DEF ScanOf, PeriodOf
<1>11. q >= c
  <2> SUFFICES ASSUME q + 1 <= c PROVE FALSE
    OBVIOUS
  <2>1. (q + 1) * Scan <= c * Scan /\ (q + 1) * Scan = q * Scan + Scan
    BY <1>1, MoreOf
  <2>2. PICK d, e \in Nat : d = q * Scan /\ d = Scan * q /\ e = c * Scan /\ e = Scan * c
    BY <1>1
  <2> QED
    BY <1>1, <1>5, <1>8, <2>1, <2>2
<1>12. PICK n \in Nat : n = q + p /\ n > j + o
  BY <1>10, <1>11
<1>13. n - (j + o) < u
  <2> SUFFICES ASSUME u + j <= n PROVE FALSE
    BY <1>10, <1>12
  <2>1. u + j <= q + 1
    BY <1>10, <1>12
  <2>2. (u + j) * Scan <= (q + 1) * Scan
    <3>1. PICK d, e \in Nat : d = u + j /\ e = q + 1 /\ d <= e
      BY <2>1
    <3> QED
      BY <1>1, <3>1, MoreOf
  <2>3. PICK d, e, f \in Nat : d = Scan * u /\ e = Scan * j /\ f = Scan * q
    BY <1>1
  <2>4. (u + j) * Scan = d + e /\ (q + 1) * Scan = f + Scan
    BY <1>1, <2>3
  <2>5. d + e <= f + Scan
    BY <2>2, <2>4
  <2> QED
    BY <1>1, <1>2, <1>4, <1>5, <1>8, <1>9, <2>3, <2>5
<1>14. ASSUME (j + o) % u = (i + p) % u PROVE FALSE
  <2>1. PICK k, z \in Nat : z = (j + o) % u /\ j + o = u * k + z
    <3>1. PICK d \in Nat : d = j + o
      BY <1>10
    <3>2. PICK k, z \in Nat : k = d \div u /\ z = d % u /\ d = u * k + z
      BY <1>4, Divided
    <3> QED
      BY <3>1, <3>2
  <2>2. PICK h, g \in Nat : g = (i + p) % u /\ i + p = u * h + g
    <3>1. PICK d \in Nat : d = i + p
      BY <1>10
    <3>2. PICK h, g \in Nat : h = d \div u /\ g = d % u /\ d = u * h + g
      BY <1>4, Divided
    <3> QED
      BY <3>1, <3>2
  <2>3. PICK v \in Nat : v = w + h /\ n = u * v + z
    <3>1. u * (w + h) = u * h + w * u
      OBVIOUS
    <3>2. PICK d, e \in Nat : d = u * h /\ e = w * u
      OBVIOUS
    <3>3. q = e + i /\ i + p = d + g /\ g = z
      BY <1>7, <1>8, <1>14, <2>1, <2>2, <3>2
    <3>4. n = d + e + z
      BY <1>10, <1>12, <3>2, <3>3
    <3> QED
      BY <3>1, <3>2, <3>4
  <2>4. CASE v <= k
    <3>1. v * u <= k * u
      BY <2>4, MoreOf
    <3>2. PICK d, e \in Nat : d = u * v /\ d = v * u /\ e = u * k /\ e = k * u
      OBVIOUS
    <3> QED
      BY <1>10, <1>12, <2>1, <2>3, <3>1, <3>2
  <2>5. CASE k + 1 <= v
    <3>1. (k + 1) * u <= v * u /\ (k + 1) * u = k * u + u
      BY <2>5, MoreOf
    <3>2. PICK d, e \in Nat : d = u * v /\ d = v * u /\ e = u * k /\ e = k * u
      OBVIOUS
    <3> QED
      BY <1>10, <1>13, <2>1, <2>3, <3>1, <3>2
  <2> QED
    BY <2>4, <2>5
<1> QED
  BY <1>5, <1>10, <1>14

\* A scan begins.
LEMMA StartScanPeriod ==
  ASSUME TypeInv, TypeInv', BehindInv', StartScan
  PROVE  PeriodInv' /\ period' # -1
<1> USE DEF Do
<1>1. /\ pc' = "beam" /\ now' = now /\ UNCHANGED <<sbm, ebm>>
      /\ bmnum' = StartBeam(FindSkip(now)) /\ period' = PeriodOf(now)
  BY DEF StartScan
<1>2. now \in 0 .. Day - 1 /\ Day \in Nat \ {0} /\ Scan \in Nat \ {0}
  BY Constants DEF TypeInv, LoopTypeOK
<1>3. (now + 0) % Day = now
  <2>1. PICK n \in Nat : n = now /\ n < Day
    BY <1>2
  <2>2. (Day * 0 + n) % Day = n
    BY <1>2, <2>1, Remainder
  <2> QED
    BY <1>2, <2>1, <2>2
<1>4. ASSUME "beams" \notin excuse' PROVE ScanSince(now, 0)'
  <2>1. sbm = FirstBeam /\ ebm = LastBeam
    BY <1>1, <1>4 DEF BehindInv
  <2>2. FirstBeam \in Nat /\ LastBeam \in Nat /\ FirstBeam <= LastBeam
    BY ScanLoopAssumption DEF ScanLoopAssumption
  <2>3. PICK n \in Nat : n = LastBeam - FirstBeam
    BY <2>2
  <2>4. PICK k \in 0 .. n : FindSkip(now) = k
    <3>1. ebm = sbm + n /\ sbm \in Nat
      BY <2>1, <2>2, <2>3
    <3> QED
      BY <1>2, <3>1, SkipType
  <2>5. bmnum' \in FirstBeam .. LastBeam /\ bmnum' - FirstBeam = k
    BY <1>1, <2>1, <2>2, <2>3, <2>4 DEF StartBeam
  <2>6. Longest \in Nat /\ Least \in Int
    BY Constants, SlipType DEF Longest, Least
  <2>7. Most' = k * Longest /\ Fewest' = k * Least
    BY <2>5 DEF Most, Fewest, Longest, Least
  <2>8. 0 <= Most'
    <3>1. PICK m \in Nat : m = k * Longest
      BY <2>6
    <3>2. 0 <= m
      OBVIOUS
    <3> QED
      BY <2>7, <3>1, <3>2, Zenon
  <2>9. BeamsOver(now) => 0 >= Fewest'
    <3>1. BeamsOver(now) => k = 0
      BY <1>2, <2>1, <2>4, SkipNone
    <3>2. 0 * Least = 0
      BY <2>6
    <3> QED
      BY <2>7, <3>1, <3>2
  <2>10. BeamsOver(now)' = BeamsOver(now)
    BY <1>1 DEF BeamsOver
  <2> QED
    BY <1>1, <2>5, <2>8, <2>9, <2>10 DEF ScanSince
<1>5. Elapsed(now, 0)'
  <2>1. PeriodOf(now)' = PeriodOf(now)
    BY <1>1 DEF PeriodOf, BeamsOver
  <2>2. ((now + 0) % Day)' = now'
    BY <1>1, <1>3
  <2> QED
    BY <1>1, <1>4, <2>1, <2>2 DEF Elapsed
<1>6. \E x \in 0 .. Day - 1 : \E a \in Nat : Elapsed(x, a)'
  <2>1. PICK t \in 0 .. Day - 1 : t = now /\ t = now'
    BY <1>1, <1>2
  <2>2. Elapsed(t, 0)'
    BY <1>5, <2>1 DEF Elapsed, ScanSince, PeriodOf, ScanOf, BeamsOver
  <2> QED
    BY <2>1, <2>2
<1>7. period' # -1
  <2>1. PeriodOf(now) \in Nat
    <3>1. 0 \div Scan \in 0 .. Day \div Scan - 1
      BY <1>2, Constants, DivBelow
    <3>2. PICK v \in Nat : v = Day \div Scan
      BY <1>2, ModType
    <3>3. PICK u \in Nat : u = (now \div Scan) + IF BeamsOver(now) THEN 1 ELSE 0
      <4>1. now \div Scan \in Nat
        BY <1>2, ModType
      <4> QED
        BY <4>1
    <3>4. u % v \in Nat
      BY <3>1, <3>2, ModType
    <3> QED
      BY <3>2, <3>3, <3>4 DEF PeriodOf
  <2> QED
    BY <1>1, <2>1
<1> QED
  BY <1>1, <1>6, <1>7 DEF PeriodInv

\* SiteEndScan() waits for a boundary that is not the one the scan was for.
LEMMA EndScanPeriod ==
  ASSUME TypeInv, NEW x \in 0 .. Day - 1, NEW a \in Nat, now = (x + a) % Day,
         BeamsOver(x) => a >= Beams * Least, left' = Scan - (now % Scan)
  PROVE  /\ left' \in Int /\ left' <= Scan
         /\ \E c \in Nat : c >= ScanOf(x) + 1 /\ x + a + left' = Scan * c
<1>1. /\ Scan \in Nat \ {0} /\ Day \in Nat \ {0} /\ Intt \in Nat /\ Lead \in Nat
      /\ Longest \in Nat /\ Beams * Least \in Int /\ FirstBeam \in Nat /\ LastBeam \in Nat
      /\ x \in Nat
  BY Constants, BeamTimes DEF TypeInv
<1>2. PICK y \in Nat : y = x + a
  BY <1>1
<1>3. PICK q, r \in Nat : q = y \div Scan /\ r = y % Scan /\ y = Scan * q + r /\ r < Scan
  BY <1>1, Divided
<1>4. r = now % Scan
  BY <1>2, <1>3, ScanInDay
<1>5. PICK l \in Nat : l = left' /\ l = Scan - r /\ l <= Scan
  <2>1. Scan - r \in Nat /\ Scan - r <= Scan
    BY <1>1, <1>3
  <2> QED
    BY <1>4, <2>1
<1>6. y + l = Scan * (q + 1)
  <2>1. PICK m \in Nat : m = Scan * q /\ Scan * (q + 1) = m + Scan
    BY <1>1
  <2> QED
    BY <1>1, <1>3, <1>5, <2>1
<1>7. PICK j, s \in Nat : j = x \div Scan /\ s = x % Scan /\ x = Scan * j + s /\ s < Scan
  BY <1>1, Divided
<1>8. j <= q
  <2>1. PICK z \in Nat : z = x /\ z <= y
    BY <1>1, <1>2
  <2>2. z \div Scan <= y \div Scan
    BY <1>1, <2>1, DivOrder
  <2> QED
    BY <1>3, <1>7, <2>1, <2>2
<1>9. ASSUME BeamsOver(x) PROVE j + 1 <= q
  <2>1. PICK h \in Nat : h = Intt \div 2
    BY <1>1, ModType
  <2>2. PICK n \in Nat : n = Beams * Intt
    <3>1. Beams \in Int
      BY <1>1 DEF Beams
    <3>2. Beams >= 1
      BY <1>1, ScanLoopAssumption DEF Beams, ScanLoopAssumption
    <3>3. Beams \in Nat
      BY <3>1, <3>2
    <3> QED
      BY <1>1, <3>3
  <2>3. s + (h - Lead) >= n
    BY <1>7, <1>9, <2>1, <2>2 DEF BeamsOver
  <2>4. a >= Scan - (n + Lead) + h
    <3>1. Beams * Least >= Scan - (Beams * Intt + Lead) + (Intt \div 2)
      BY TimesAssumption DEF TimesAssumption, Least
    <3>2. PICK m \in Int : m = Beams * Least /\ a >= m
      BY <1>1, <1>9
    <3> QED
      BY <1>1, <2>1, <2>2, <3>1, <3>2
  <2>5. s + a >= Scan
    BY <1>1, <1>7, <2>1, <2>2, <2>3, <2>4
  <2>6. SUFFICES ASSUME q < j + 1 PROVE FALSE
    OBVIOUS
  <2>7. (q + 1) * Scan <= (j + 1) * Scan
    <3>1. PICK d, e \in Nat : d = q + 1 /\ e = j + 1 /\ d <= e
      BY <2>6
    <3> QED
      BY <1>1, <3>1, MoreOf
  <2>8. PICK d, e \in Nat : d = Scan * q /\ e = Scan * j /\ (q + 1) * Scan = d + Scan /\ (j + 1) * Scan = e + Scan
    BY <1>1
  <2> QED
    BY <1>1, <1>2, <1>3, <1>7, <2>5, <2>7, <2>8
<1>10. q + 1 >= ScanOf(x) + 1
  <2>1. CASE BeamsOver(x)
    BY <1>7, <1>9, <2>1 DEF ScanOf
  <2>2. CASE ~BeamsOver(x)
    BY <1>7, <1>8, <2>2 DEF ScanOf
  <2> QED
    BY <2>1, <2>2
<1>11. PICK c \in Nat : c = q + 1 /\ c >= ScanOf(x) + 1 /\ y + l = Scan * c
  BY <1>6, <1>10
<1>12. x + a + left' = y + l
  BY <1>2, <1>5, Zenon
<1>13. left' \in Int /\ left' <= Scan
  <2>1. l \in Int /\ l <= Scan
    BY <1>5
  <2> QED
    BY <1>5, <2>1, Zenon
<1> QED
  BY <1>11, <1>12, <1>13

\* What the sequences of a beam have taken.
LEMMA LoopKeepsMean ==
  ASSUME TypeInv, PeriodInv, Loop
  PROVE  pc' \in {"sequence", "sum"} => ran' <= nave' * Slip
<1> USE DEF Do, inttVars
<1>1. Slip \in Nat /\ ran \in Nat /\ nave \in Nat
  BY SlipType DEF TypeInv, LoopTypeOK
<1>2. CASE Integrate
  <2>1. ran' = 0 /\ nave' = 0 /\ 0 * Slip = 0
    BY <1>1, <1>2 DEF Integrate
  <2> QED
    BY <2>1
<1>3. CASE Sequence
  BY <1>3 DEF Sequence, PeriodInv
<1>4. ASSUME NEW d \in Dur \cup {0}, Sum(d) PROVE ran' <= nave' * Slip
  <2>1. d \in Nat /\ d <= Slip
    BY SlipType
  <2>2. ran' = ran + d /\ nave' = nave + 1 /\ ran <= nave * Slip
    BY <1>4 DEF Sum, PeriodInv
  <2>3. PICK m \in Nat : m = nave * Slip /\ (nave + 1) * Slip = m + Slip
    BY <1>1
  <2>4. ran + d <= m + Slip
    BY <1>1, <2>1, <2>2, <2>3
  <2> QED
    BY <2>2, <2>3, <2>4, Zenon
<1> QED
  BY <1>2, <1>3, <1>4 DEF Loop, SetupRadar, TimeSeq, StartScan, StartIntt, FCLR, IntegrateDone,
    RecordOnly, RecordAndEdit, Record, EndScan, Wait, Boundary

\* While the beam is the same.
LEMMA SameTimes ==
  ASSUME UNCHANGED bmnum
  PROVE  Most' = Most /\ Fewest' = Fewest
  BY DEF Most, Fewest, Longest, Least

\* The steps within a scan, as long as nobody alters the beams.
LEMMA LoopKeepsScan ==
  ASSUME TypeInv, TypeInv', BehindInv, PeriodInv, Loop, ~StartScan, "beams" \notin excuse',
         NEW x \in 0 .. Day - 1, NEW a \in Nat, Elapsed(x, a)
  PROVE  \E i \in Nat : now' = (x + i) % Day /\ ScanSince(x, i)'
<1> USE DEF Do, beamVars, scanVars, inttVars
<1>1. /\ FirstBeam \in Nat /\ LastBeam \in Nat /\ FirstBeam <= LastBeam
      /\ bmnum \in Nat /\ Longest \in Nat /\ Least \in Int /\ Scan \in Nat \ {0}
      /\ Most \in Int /\ Fewest \in Int /\ ran \in Nat /\ left \in -1 .. Scan /\ x \in Nat
      /\ Longest = Intt + Slip /\ Intt \in Nat /\ Slip \in Nat
  BY BeamTimes, Constants, SlipType DEF TypeInv, LoopTypeOK, Longest
<1>2. Longest' = Longest /\ Least' = Least /\ BeamsOver(x)' = BeamsOver(x) /\ ScanOf(x)' = ScanOf(x)
  BY DEF Longest, Least, BeamsOver, ScanOf
<1>3. "beams" \notin excuse
  BY DEF Loop, SetupRadar, TimeSeq, StartIntt, FCLR, Integrate, Sequence, Sum, IntegrateDone,
    RecordOnly, RecordAndEdit, EndScan, Wait, Boundary
<1>4. /\ pc \notin {"radar", "timeseq"} /\ now = (x + a) % Day /\ ScanSince(x, a)
      /\ sbm = FirstBeam /\ ebm = LastBeam
  BY <1>3 DEF Elapsed, BehindInv
<1>5. CASE StartIntt \/ FCLR \/ Integrate \/ Sequence
  <2>1. /\ UNCHANGED <<now, bmnum>>
        /\ \/ pc = "beam" /\ pc' = "intt"
           \/ pc = "intt" /\ pc' = "fclr"
           \/ pc = "fclr" /\ pc' = "sequence" /\ ran' = 0
           \/ pc = "sequence" /\ pc' = "sum" /\ ran' = ran
    BY <1>5 DEF StartIntt, FCLR, Integrate, Sequence
  <2>2. Most' = Most /\ Fewest' = Fewest /\ Most + 0 = Most /\ Fewest + 0 = Fewest
    BY <1>1, <2>1, SameTimes
  <2>3. ScanSince(x, a)'
    BY <1>2, <1>4, <2>1, <2>2 DEF ScanSince
  <2> QED
    BY <1>4, <2>1, <2>3
<1>6. ASSUME NEW d \in Dur \cup {0}, Sum(d)
      PROVE  \E i \in Nat : now' = (x + i) % Day /\ ScanSince(x, i)'
  <2>1. d \in Nat
    BY SlipType
  <2>2. /\ UNCHANGED bmnum
        /\ pc = "sum" /\ pc' = "sequence" /\ ran' = ran + d /\ Pass(d)
    BY <1>6 DEF Sum
  <2>3. Most' = Most /\ Fewest' = Fewest
    BY <2>2, SameTimes
  <2>4. a + d <= Most + (ran + d) /\ (BeamsOver(x) => a + d >= Fewest + (ran + d))
    <3>1. a <= Most + ran /\ (BeamsOver(x) => a >= Fewest + ran)
      BY <1>4, <2>2 DEF ScanSince
    <3> QED
      BY <1>1, <2>1, <3>1
  <2>5. bmnum \in FirstBeam .. LastBeam
    BY <1>4, <2>2 DEF ScanSince
  <2>6. ScanSince(x, a + d)'
    BY <1>2, <2>2, <2>3, <2>4, <2>5 DEF ScanSince
  <2>7. now' = (x + (a + d)) % Day
    BY <1>4, <2>1, <2>2, PassSince
  <2> QED
    BY <2>1, <2>6, <2>7
<1>7. CASE IntegrateDone
  <2>1. /\ UNCHANGED <<now, bmnum>>
        /\ pc = "sequence" /\ pc' = "record" /\ TimeIsUp
    BY <1>7 DEF IntegrateDone
  <2>2. Most' = Most /\ Fewest' = Fewest
    BY <2>1, SameTimes
  <2>3. ran <= Longest
    BY <1>1, <2>1 DEF BehindInv
  <2>4. ran >= Least
    BY <2>1, LongEnough DEF PeriodInv, TypeInv
  <2>5. a <= Most + Longest /\ (BeamsOver(x) => a >= Fewest + Least)
    <3>1. a <= Most + ran /\ (BeamsOver(x) => a >= Fewest + ran)
      BY <1>4, <2>1 DEF ScanSince
    <3> QED
      BY <1>1, <2>3, <2>4, <3>1
  <2>6. bmnum \in FirstBeam .. LastBeam
    BY <1>4, <2>1 DEF ScanSince
  <2>7. ScanSince(x, a)'
    BY <1>2, <2>1, <2>2, <2>5, <2>6 DEF ScanSince
  <2> QED
    BY <1>4, <2>1, <2>7
<1>8. CASE RecordOnly \/ RecordAndEdit
  <2>1. pc = "record" /\ UNCHANGED now
    BY <1>8 DEF RecordOnly, RecordAndEdit, Record
  <2>2. /\ bmnum' = IF bmnum = ebm THEN bmnum ELSE bmnum + 1
        /\ pc' = IF bmnum = ebm THEN "endscan" ELSE "beam"
    BY <1>8 DEF RecordOnly, RecordAndEdit, Record
  <2>3. bmnum \in FirstBeam .. LastBeam /\ a <= Most + Longest /\ (BeamsOver(x) => a >= Fewest + Least)
    BY <1>4, <2>1 DEF ScanSince
  <2>4. CASE bmnum = ebm
    <3>1. Most + Longest <= Beams * Longest /\ Fewest + Least = Beams * Least
      BY <1>4, <2>3, <2>4, BeamTimes DEF TypeInv
    <3>2. Beams * Longest \in Nat /\ Beams * Least \in Int
      BY BeamTimes DEF TypeInv
    <3>3. a <= Beams * Longest /\ (BeamsOver(x) => a >= Beams * Least)
      <4>1. PICK m \in Nat, n \in Int : m = Beams * Longest /\ n = Beams * Least
        BY <3>2
      <4> QED
        BY <1>1, <2>3, <3>1, <4>1
    <3>4. ScanSince(x, a)'
      BY <1>2, <2>2, <2>4, <3>3 DEF ScanSince
    <3> QED
      BY <1>4, <2>1, <3>4
  <2>5. CASE bmnum # ebm
    <3>1. Most' = Most + Longest /\ Fewest' = Fewest + Least
      BY <2>2, <2>5, NextBeamTimes DEF TypeInv
    <3>2. bmnum' \in FirstBeam .. LastBeam
      BY <1>1, <1>4, <2>2, <2>3, <2>5
    <3>3. ScanSince(x, a)'
      BY <1>2, <2>2, <2>3, <2>5, <3>1, <3>2 DEF ScanSince
    <3> QED
      BY <1>4, <2>1, <3>3
  <2> QED
    BY <2>4, <2>5
<1>9. CASE EndScan
  <2>1. pc = "endscan" /\ pc' = "wait" /\ UNCHANGED now /\ left' = Scan - (now % Scan)
    BY <1>9 DEF EndScan
  <2>2. a <= Beams * Longest /\ (BeamsOver(x) => a >= Beams * Least)
    BY <1>4, <2>1 DEF ScanSince
  <2>3. /\ left' \in Int /\ left' <= Scan
        /\ \E c \in Nat : c >= ScanOf(x) + 1 /\ x + a + left' = Scan * c
    BY <1>4, <2>1, <2>2, EndScanPeriod
  <2>4. a + left' <= Beams * Longest + Scan
    <3>1. PICK l \in Int : l = left' /\ l <= Scan
      BY <2>3
    <3>2. PICK m \in Nat : m = Beams * Longest
      BY BeamTimes DEF TypeInv
    <3>3. a + l <= m + Scan
      BY <1>1, <2>2, <3>1, <3>2
    <3> QED
      BY <3>1, <3>2, <3>3, Zenon
  <2>5. ScanSince(x, a)'
    BY <1>2, <2>1, <2>3, <2>4 DEF ScanSince
  <2> QED
    BY <1>4, <2>1, <2>5
<1>10. CASE Wait
  <2>1. /\ pc = "wait" /\ pc' = "wait" /\ left' = left - Sleep /\ Pass(Sleep) /\ left >= 0
    BY <1>10 DEF Wait
  <2>2. PICK d \in Nat : d = Sleep
    <3>1. Sleep \in Nat
      BY <1>1, <2>1, Constants DEF Sleep
    <3> QED
      BY <3>1
  <2>3. a + left <= Beams * Longest + Scan
    BY <1>4, <2>1 DEF ScanSince
  <2>4. PICK c \in Nat : c >= ScanOf(x) + 1 /\ x + a + left = Scan * c
    BY <1>4, <2>1 DEF ScanSince
  <2>5. PICK l \in Int : l = left' /\ l = left - d
    BY <1>1, <2>1, <2>2
  <2>6. (a + d) + l = a + left /\ x + (a + d) + l = x + a + left
    BY <1>1, <2>5
  <2>7. /\ (a + d) + left' <= Beams * Longest + Scan
        /\ x + (a + d) + left' = Scan * c
    BY <2>3, <2>4, <2>5, <2>6, Zenon
  <2>8. ScanSince(x, a + d)'
    BY <1>2, <2>1, <2>4, <2>7 DEF ScanSince
  <2>9. now' = (x + (a + d)) % Day
    BY <1>4, <2>1, <2>2, PassSince
  <2> QED
    BY <2>2, <2>8, <2>9
<1>11. CASE Boundary
  <2>1. pc = "wait" /\ pc' = "scan" /\ UNCHANGED now /\ left = -1
    BY <1>1, <1>11 DEF Boundary
  <2>2. a + left <= Beams * Longest + Scan
    BY <1>4, <2>1 DEF ScanSince
  <2>3. PICK c \in Nat : c >= ScanOf(x) + 1 /\ x + a + left = Scan * c
    BY <1>4, <2>1 DEF ScanSince
  <2>4. a <= Beams * Longest + (Scan + 1)
    <3>1. PICK m \in Nat : m = Beams * Longest
      BY BeamTimes DEF TypeInv
    <3> QED
      BY <1>1, <2>1, <2>2, <3>1
  <2>5. x + a = Scan * c + 1
    <3>1. PICK m \in Nat : m = Scan * c
      BY <1>1
    <3> QED
      BY <1>1, <2>1, <2>3, <3>1
  <2>6. ScanSince(x, a)'
    BY <1>2, <2>1, <2>3, <2>4, <2>5 DEF ScanSince
  <2> QED
    BY <1>4, <2>1, <2>6
<1>12. CASE SetupRadar \/ TimeSeq
  BY <1>4, <1>12 DEF SetupRadar, TimeSeq
<1> QED
  BY <1>5, <1>6, <1>7, <1>8, <1>9, <1>10, <1>11, <1>12 DEF Loop

\* The steps within a scan do not leave it.
LEMMA LoopKeepsElapsed ==
  ASSUME TypeInv, TypeInv', BehindInv, PeriodInv, Loop, ~StartScan,
         NEW x \in 0 .. Day - 1, NEW a \in Nat, Elapsed(x, a)
  PROVE  \E i \in Nat : Elapsed(x, i)'
<1> USE DEF Do, beamVars, scanVars, inttVars
<1>1. UNCHANGED period /\ pc' \notin {"radar", "timeseq"} /\ PeriodOf(x)' = PeriodOf(x)
  BY DEF Elapsed, Loop, SetupRadar, TimeSeq, StartIntt, FCLR, Integrate, Sequence, Sum, IntegrateDone,
    RecordOnly, RecordAndEdit, Record, EndScan, Wait, Boundary, PeriodOf, BeamsOver
<1>2. CASE "beams" \notin excuse'
  <2>1. PICK i \in Nat : now' = (x + i) % Day /\ ScanSince(x, i)'
    BY <1>2, LoopKeepsScan
  <2>2. Elapsed(x, i)'
    BY <1>1, <2>1 DEF Elapsed
  <2> QED
    BY <2>2
<1>3. CASE "beams" \in excuse'
  <2>1. PICK i \in Nat : now' = (x + i) % Day
    <3>1. CASE UNCHANGED now
      BY <3>1 DEF Elapsed
    <3>2. ASSUME NEW d \in Nat, Pass(d) PROVE \E i \in Nat : now' = (x + i) % Day
      <4>1. now' = (x + (a + d)) % Day
        BY <3>2, PassSince DEF Elapsed
      <4> QED
        BY <4>1
    <3>3. \A d \in Dur \cup {0} : d \in Nat
      BY SlipType
    <3>4. Wait => Sleep \in Nat
      <4>1. left \in -1 .. Scan /\ Nap \in Nat /\ Scan \in Nat
        BY Constants DEF TypeInv, LoopTypeOK
      <4> QED
        BY <4>1 DEF Wait, Sleep
    <3>5. UNCHANGED now \/ \E d \in Nat : Pass(d)
      BY <3>3, <3>4 DEF Loop, SetupRadar, TimeSeq, StartIntt, FCLR, Integrate, Sequence, Sum,
        IntegrateDone, RecordOnly, RecordAndEdit, Record, EndScan, Wait, Boundary
    <3> QED
      BY <3>1, <3>2, <3>5
  <2>2. Elapsed(x, i)'
    BY <1>1, <1>3, <2>1 DEF Elapsed
  <2> QED
    BY <2>2
<1> QED
  BY <1>2, <1>3

\* In every state.
LEMMA PeriodCorrect == Spec => []PeriodInv
<1>1. Init => PeriodInv
  BY DEF Init, PeriodInv
<1>2. TypeInv /\ TypeInv' /\ BehindInv /\ BehindInv' /\ PeriodInv /\ [Next]_vars => PeriodInv'
  <2> SUFFICES ASSUME TypeInv, TypeInv', BehindInv, BehindInv', PeriodInv, [Next]_vars
               PROVE  PeriodInv'
    OBVIOUS
  <2>1. CASE UNCHANGED <<pc, now, bmnum, ran, nave, left, period, excuse>>
    <3>1. Most' = Most /\ Fewest' = Fewest
      BY <2>1, SameTimes
    <3>2. ASSUME NEW x, NEW a, Elapsed(x, a) PROVE Elapsed(x, a)'
      BY <2>1, <3>1, <3>2 DEF Elapsed, ScanSince, PeriodOf, ScanOf, BeamsOver, Longest, Least
    <3> QED
      BY <2>1, <3>2 DEF PeriodInv
  <2>2. CASE Forgotten
    BY <2>2 DEF Forgotten, PeriodInv
  <2>3. CASE Link
    BY <2>1, <2>2, <2>3 DEF Link, inttVars, beamVars, scanVars
  <2>4. CASE Over \/ UNCHANGED vars
    BY <2>1, <2>4 DEF Over, vars, inttVars, beamVars, scanVars
  <2>5. CASE Loop /\ ~StartScan
    <3>1. pc' \in {"sequence", "sum"} => ran' <= nave' * Slip
      BY <2>5, LoopKeepsMean
    <3>2. CASE period = -1
      <4>1. UNCHANGED period
        BY <2>5 DEF Loop, SetupRadar, TimeSeq, StartIntt, FCLR, Integrate, Sequence, Sum,
          IntegrateDone, RecordOnly, RecordAndEdit, Record, EndScan, Wait, Boundary, scanVars
      <4> QED
        BY <3>1, <3>2, <4>1 DEF PeriodInv
    <3>3. CASE \E x \in 0 .. Day - 1 : \E a \in Nat : Elapsed(x, a)
      <4>1. PICK x \in 0 .. Day - 1, a \in Nat : Elapsed(x, a)
        BY <3>3
      <4>2. \E i \in Nat : Elapsed(x, i)'
        BY <2>5, <4>1, LoopKeepsElapsed
      <4> QED
        BY <3>1, <4>2 DEF PeriodInv
    <3> QED
      BY <3>2, <3>3 DEF PeriodInv
  <2> QED
    BY <2>3, <2>4, <2>5, StartScanPeriod DEF Next
<1> QED
  BY <1>1, <1>2, BehindCorrect, LoopTypesCorrect, PTL DEF Spec

(***************************************************************************)
(* No scan of the day is made twice, on whichever day and whether it was   *)
(* begun before or after its boundary, unless the operator has altered the *)
(* beams: the beams of a scan begun early last until the boundary, and     *)
(* SiteEndScan() waits for the one after it (site.c:512-550,               *)
(* normalscan.c:289-297,387-398).                                          *)
(***************************************************************************)
THEOREM NoScanTwiceHolds == Spec => NoScanTwice
<1>1. TypeInv /\ TypeInv' /\ BehindInv' /\ PeriodInv /\ [Next]_vars
        => [StartScan => "beams" \in excuse \/ period' # period]_vars
  <2> SUFFICES ASSUME TypeInv, TypeInv', BehindInv', PeriodInv, StartScan, "beams" \notin excuse,
                      period' = period
               PROVE  FALSE
    OBVIOUS
  <2>1. pc = "scan" /\ period' = PeriodOf(now)
    BY DEF StartScan, Do
  <2>2. period # -1
    BY StartScanPeriod
  <2>3. PICK x \in 0 .. Day - 1, a \in Nat : Elapsed(x, a)
    BY <2>2 DEF PeriodInv
  <2>4. /\ now = (x + a) % Day /\ period = PeriodOf(x)
        /\ a <= Beams * Longest + (Scan + 1)
        /\ \E c \in Nat : c >= ScanOf(x) + 1 /\ x + a = Scan * c + 1
    BY <2>1, <2>3 DEF Elapsed, ScanSince
  <2>5. PeriodOf((x + a) % Day) # PeriodOf(x)
    BY <2>4, AnotherScan
  <2> QED
    BY <2>1, <2>4, <2>5
<1> QED
  BY <1>1, LoopTypesCorrect, BehindCorrect, PeriodCorrect, PTL DEF Spec, NoScanTwice
=============================================================================
