----------------------------- MODULE MgmtRpc_proofs -----------------------------
(***************************************************************************)
(* The safety properties of the management service, for every white list,  *)
(* every request a master may make, every queue, window and table, and any *)
(* number of losses and reboots: the topic is subscribed while the         *)
(* connection stands; an answer is for the request it is taken for; what   *)
(* is stored is what runs; and a request is executed once in its window.   *)
(***************************************************************************)
EXTENDS MgmtRpc, SequenceTheorems, FiniteSetTheorems, FunctionTheorems, TLAPS

(* The connection is lent by a client that has seen its CONNACK.           *)
BusInv ==
  /\ sock_ready => mqttc /\ mqtt_ready
  /\ SubscriptionHolds

(* Whenever the link is up the registered topic is subscribed, whichever   *)
(* came first and however often the connection was lost: replay_subs       *)
(* follows every CONNACK, and open() subscribes at once when there is one. *)
THEOREM TopicIsSubscribed == Spec => []SubscriptionHolds
<1>1. Init => BusInv
  BY DEF Init, BusInit, BusInv, SubscriptionHolds
<1>2. BusInv /\ [Next]_vars => BusInv'
  <2> SUFFICES ASSUME BusInv, [Next]_vars PROVE BusInv'
    OBVIOUS
  <2> USE DEF BusInv, SubscriptionHolds
  <2>1. CASE \/ UNCHANGED busVars
             \/ UNCHANGED <<mqttc, mqtt_ready, sock_ready, subs, subscribed>>
    BY <2>1 DEF busVars
  <2>2. CASE Masters
    BY <2>1, <2>2 DEF Masters, Request, SendAgain, Arrives, Deliver
  <2>3. CASE ServeUart \/ ServeMqtt
    BY <2>1, <2>3 DEF ServeUart, ServeMqtt, TakeMessage
  <2>4. CASE Connection
    <3>1. CASE CreateClient
      BY <3>1, Zenon DEF CreateClient
    <3>2. CASE Open
      <4>1. subscribed' <=> mqttc /\ mqtt_ready /\ sock_ready
        BY <3>2, Zenon DEF Open
      <4>2. mqttc' = mqttc /\ mqtt_ready' = mqtt_ready /\ sock_ready' = sock_ready
        BY <3>2 DEF Open
      <4> QED BY <4>1, <4>2, Zenon
    <3>3. CASE Conack
      BY <3>3, Zenon DEF Conack
    <3>4. CASE LinkDown
      BY <3>4, Zenon DEF LinkDown
    <3>5. CASE DisconnectOrError
      BY <3>5, Zenon DEF DisconnectOrError
    <3> QED BY <2>4, <3>1, <3>2, <3>3, <3>4, <3>5 DEF Connection
  <2>5. CASE Tick \/ UNCHANGED vars
    BY <2>1, <2>5 DEF Tick, vars
  <2>6. CASE Reboot \/ PowerLoss
    BY <2>6 DEF Reboot, PowerLoss, Restart, BusReset
  <2> QED BY <2>2, <2>3, <2>4, <2>5, <2>6 DEF Next
<1>3. BusInv => SubscriptionHolds
  BY DEF BusInv
<1> QED BY <1>1, <1>2, <1>3, PTL DEF Spec

-----------------------------------------------------------------------------
(* The two masters choose their ids from different sets.                   *)
IdsApart == UartIds \cap MqttIds = {}

(* A request is known by its link, id and method.                          *)
ReqsInv ==
  /\ reqs \in Seq(Kinds)
  /\ \A i, j \in 1 .. Len(reqs) :
       /\ reqs[i].id # NoId
       /\ reqs[i].link = reqs[j].link /\ reqs[i].id = reqs[j].id
       /\ reqs[i].method = reqs[j].method
       => i = j

(* What is under way are requests that were made.                          *)
UnderWayInv ==
  /\ uart_rx \in Seq(1 .. Len(reqs)) /\ rx_queue \in Seq(1 .. Len(reqs))
  /\ awaited \in [Link -> 0 .. Len(reqs)]

(* An entry of the table is for a request with its id and method.          *)
DedupInv ==
  \A id \in DOMAIN dedup :
    /\ id # NoId
    /\ dedup[id].by \in 1 .. Len(reqs)
    /\ reqs[dedup[id].by].id = id
    /\ reqs[dedup[id].by].method = dedup[id].method

AskedInv == ReqsInv /\ UnderWayInv
AnswerInv == AskedInv /\ DedupInv /\ AnsweredByOwn

(* Of whichever link, requests with the same id and method are the same.   *)
LEMMA KnownByIdAndMethod ==
  ASSUME IdsApart, ReqsInv, NEW i \in 1 .. Len(reqs), NEW j \in 1 .. Len(reqs),
         reqs[i].id # NoId, reqs[i].id = reqs[j].id, reqs[i].method = reqs[j].method
  PROVE  i = j
<1>1. reqs[i] \in Kinds /\ reqs[j] \in Kinds
  BY ElementOfSeq DEF ReqsInv
<1>2. reqs[i].link = reqs[j].link
  BY <1>1, MgmtAssumption DEF IdsApart
<1> QED BY <1>2 DEF ReqsInv

(* Sequences of numbers stay such when there are more of them.             *)
LEMMA SeqGrows ==
  ASSUME NEW m \in Nat, NEW n \in Nat, m <= n, NEW s \in Seq(1 .. m)
  PROVE  s \in Seq(1 .. n)
<1>1. Len(s) \in Nat /\ s \in [1 .. Len(s) -> 1 .. m]
  BY LenProperties
<1>2. s \in [1 .. Len(s) -> 1 .. n]
  BY <1>1
<1> QED BY <1>1, <1>2, IsASeq

(* The table after a request has been answered and remembered.             *)
LEMMA RememberKeeps ==
  ASSUME AnswerInv, NEW r \in 1 .. Len(reqs), reqs[r].id # NoId, Remember(r), UNCHANGED reqs
  PROVE  DedupInv'
<1> DEFINE q == reqs[r]
           entry == [id \in Young \cup {q.id} |->
                       IF id = q.id THEN [method |-> q.method, at |-> now, by |-> r] ELSE dedup[id]]
<1>1. PICK kept \in SUBSET DOMAIN entry : dedup' = [id \in kept |-> entry[id]]
  BY DEF Remember
<1>2. Young \subseteq DOMAIN dedup
  BY DEF Young
<1>3. ASSUME NEW id \in Young \cup {q.id}
      PROVE  /\ id # NoId
             /\ entry[id].by \in 1 .. Len(reqs)
             /\ reqs[entry[id].by].id = id
             /\ reqs[entry[id].by].method = entry[id].method
  <2>1. CASE id = q.id
    BY <2>1
  <2>2. CASE id # q.id
    BY <1>2, <1>3, <2>2 DEF AnswerInv, DedupInv
  <2> QED BY <2>1, <2>2
<1>4. DOMAIN entry = Young \cup {q.id}
  OBVIOUS
<1> HIDE DEF entry
<1> QED BY <1>1, <1>3, <1>4 DEF DedupInv

(* Whatever the answer, what is under way stays known.                     *)
LEMMA HandleAsks ==
  ASSUME AskedInv, NEW r \in 1 .. Len(reqs), NEW arrives, Handle(r, arrives)
  PROVE  UNCHANGED reqs /\ awaited' \in [Link -> 0 .. Len(reqs)]
<1>1. awaited' \in {awaited, [awaited EXCEPT ![reqs[r].link] = 0]}
  BY DEF Handle, Answer
<1>2. Len(reqs) \in Nat
  BY LenProperties DEF AskedInv, ReqsInv
<1>3. awaited \in [Link -> 0 .. Len(reqs)] /\ 0 \in 0 .. Len(reqs)
  BY <1>2 DEF AskedInv, UnderWayInv
<1>4. awaited' \in [Link -> 0 .. Len(reqs)]
  BY <1>1, <1>3
<1> QED BY <1>4 DEF Handle

LEMMA ServeAsks ==
  ASSUME AskedInv, ServeUart \/ ServeMqtt
  PROVE  /\ AskedInv' /\ UNCHANGED reqs
         /\ \E r \in 1 .. Len(reqs), arrives \in BOOLEAN \cup {CanPublish} : Handle(r, arrives)
<1>1. CASE ServeUart
  <2>1. /\ Head(uart_rx) \in 1 .. Len(reqs) /\ uart_rx' \in Seq(1 .. Len(reqs))
        /\ UNCHANGED rx_queue
    BY <1>1, HeadTailProperties DEF ServeUart, busVars, AskedInv, UnderWayInv
  <2>2. PICK arrives \in BOOLEAN : Handle(Head(uart_rx), arrives)
    BY <1>1 DEF ServeUart
  <2> QED BY <2>1, <2>2, HandleAsks DEF AskedInv, ReqsInv, UnderWayInv
<1>2. CASE ServeMqtt
  <2>1. /\ Head(rx_queue) \in 1 .. Len(reqs) /\ rx_queue' \in Seq(1 .. Len(reqs))
        /\ UNCHANGED uart_rx
    BY <1>2, HeadTailProperties DEF ServeMqtt, TakeMessage, AskedInv, UnderWayInv
  <2>2. PICK arrives \in {FALSE, CanPublish} : Handle(Head(rx_queue), arrives)
    BY <1>2 DEF ServeMqtt
  <2> QED BY <2>1, <2>2, HandleAsks DEF AskedInv, ReqsInv, UnderWayInv
<1> QED BY <1>1, <1>2

(* A request on its way.                                                   *)
LEMMA ArrivesKeeps ==
  ASSUME NEW n \in Nat, NEW r \in 1 .. n, Arrives(r),
         uart_rx \in Seq(1 .. n), rx_queue \in Seq(1 .. n)
  PROVE  uart_rx' \in Seq(1 .. n) /\ rx_queue' \in Seq(1 .. n)
<1>1. CASE uart_rx' = Append(uart_rx, r) /\ UNCHANGED busVars
  BY <1>1, AppendProperties DEF busVars
<1>2. CASE Deliver(r) /\ UNCHANGED uart_rx
  <2> DEFINE room == IF Len(rx_queue) >= RX_QUEUE_MAX THEN Tail(rx_queue) ELSE rx_queue
  <2>1. Len(rx_queue) >= RX_QUEUE_MAX => rx_queue # <<>>
    BY QueueAssumption, EmptySeq
  <2>2. room \in Seq(1 .. n)
    BY <2>1, HeadTailProperties
  <2>3. rx_queue' = Append(room, r)
    BY <1>2 DEF Deliver
  <2> HIDE DEF room
  <2> QED BY <1>2, <2>2, <2>3, AppendProperties
<1> QED BY <1>1, <1>2 DEF Arrives

(* A new request is like none before it.                                   *)
LEMMA RequestAsks ==
  ASSUME AskedInv, NEW q \in Kinds, Request(q)
  PROVE  /\ AskedInv' /\ UNCHANGED <<dedup, answers>>
         /\ \A i \in 1 .. Len(reqs) : i \in 1 .. Len(reqs') /\ reqs'[i] = reqs[i]
<1> DEFINE n == Len(reqs)
           r == n + 1
<1>1. /\ reqs' = Append(reqs, q) /\ awaited' = [awaited EXCEPT ![q.link] = r]
      /\ Arrives(r) /\ UNCHANGED <<dedup, answers>>
      /\ q.id # NoId => \A i \in DOMAIN reqs : reqs[i].link # q.link \/ reqs[i].id # q.id
                                               \/ reqs[i].method # q.method
  BY DEF Request, histVars
<1>2. /\ n \in Nat /\ DOMAIN reqs = 1 .. n
      /\ reqs' \in Seq(Kinds) /\ Len(reqs') = r /\ reqs'[r] = q
      /\ \A i \in 1 .. n : reqs'[i] = reqs[i]
  BY <1>1, AppendProperties, LenProperties DEF AskedInv, ReqsInv
<1>3. ReqsInv'
  <2> SUFFICES ASSUME NEW i \in 1 .. r, NEW j \in 1 .. r,
                      reqs'[i].id # NoId,
                      reqs'[i].link = reqs'[j].link, reqs'[i].id = reqs'[j].id,
                      reqs'[i].method = reqs'[j].method
               PROVE  i = j
    BY <1>2 DEF ReqsInv
  <2>1. CASE i \in 1 .. n /\ j \in 1 .. n
    BY <1>2, <2>1 DEF AskedInv, ReqsInv
  <2>2. CASE i = r \/ j = r
    BY <1>1, <1>2, <2>2
  <2> QED BY <1>2, <2>1, <2>2
<1>4. UnderWayInv'
  <2>1. uart_rx \in Seq(1 .. r) /\ rx_queue \in Seq(1 .. r)
    BY <1>2, SeqGrows DEF AskedInv, UnderWayInv
  <2>2. uart_rx' \in Seq(1 .. r) /\ rx_queue' \in Seq(1 .. r)
    BY <1>1, <1>2, <2>1, ArrivesKeeps
  <2>3. awaited' \in [Link -> 0 .. r]
    <3>1. 0 .. n \subseteq 0 .. r /\ r \in 0 .. r
      BY <1>2
    <3>2. awaited \in [Link -> 0 .. n]
      BY DEF AskedInv, UnderWayInv
    <3>3. awaited \in [Link -> 0 .. r]
      BY <3>1, <3>2, Zenon
    <3> HIDE DEF n, r
    <3> QED BY <1>1, <3>1, <3>3
  <2> QED BY <1>2, <2>2, <2>3 DEF UnderWayInv
<1> QED BY <1>1, <1>2, <1>3, <1>4 DEF AskedInv

LEMMA SendAgainAsks ==
  ASSUME AskedInv, NEW link \in Link, SendAgain(link)
  PROVE  AskedInv' /\ UNCHANGED <<reqs, dedup, answers>>
<1>1. /\ Len(reqs) \in Nat /\ awaited[link] \in 1 .. Len(reqs) /\ Arrives(awaited[link])
      /\ UNCHANGED <<reqs, awaited, dedup, answers>>
  BY LenProperties DEF SendAgain, histVars, AskedInv, UnderWayInv, ReqsInv
<1>2. uart_rx' \in Seq(1 .. Len(reqs)) /\ rx_queue' \in Seq(1 .. Len(reqs))
  BY <1>1, ArrivesKeeps DEF AskedInv, UnderWayInv
<1> QED BY <1>1, <1>2 DEF AskedInv, ReqsInv, UnderWayInv

LEMMA InitAsks == Init => AskedInv
<1> SUFFICES ASSUME Init PROVE AskedInv
  OBVIOUS
<1>1. /\ reqs = <<>> /\ uart_rx = <<>> /\ rx_queue = <<>>
      /\ awaited = [link \in Link |-> 0]
  BY DEF Init, BusInit
<1>2. Len(reqs) = 0 /\ <<>> \in Seq(Kinds) /\ <<>> \in Seq(1 .. 0)
  BY <1>1, EmptySeq
<1> QED BY <1>1, <1>2 DEF AskedInv, ReqsInv, UnderWayInv

(* Only masters, answers and reboots change it.                            *)
LEMMA RestAsks ==
  ASSUME AskedInv, Connection \/ Tick \/ Reboot \/ PowerLoss \/ UNCHANGED vars
  PROVE  AskedInv' /\ UNCHANGED <<reqs, answers>> /\ (dedup' = dedup \/ DOMAIN dedup' = {})
<1>1. CASE Connection \/ Tick \/ UNCHANGED vars
  <2>1. UNCHANGED <<reqs, uart_rx, rx_queue, awaited, dedup, answers>>
    BY <1>1 DEF Connection, CreateClient, Open, Conack, LinkDown, DisconnectOrError, Tick,
                vars, busVars, worldVars, histVars
  <2> QED BY <2>1 DEF AskedInv, ReqsInv, UnderWayInv
<1>2. CASE Reboot \/ PowerLoss
  <2>1. /\ uart_rx' = <<>> /\ rx_queue' = <<>> /\ DOMAIN dedup' = {}
        /\ UNCHANGED <<reqs, awaited, answers>>
    BY <1>2 DEF Reboot, PowerLoss, Restart, BusReset
  <2>2. <<>> \in Seq(1 .. Len(reqs))
    BY EmptySeq
  <2> QED BY <2>1, <2>2 DEF AskedInv, ReqsInv, UnderWayInv
<1> QED BY <1>1, <1>2

(* An answer is taken for the request it was made for.                     *)
LEMMA HandleKeeps ==
  ASSUME IdsApart, AnswerInv, NEW r \in 1 .. Len(reqs), NEW arrives, Handle(r, arrives)
  PROVE  DedupInv' /\ AnsweredByOwn'
<1> DEFINE q == reqs[r]
<1>1. UNCHANGED reqs
  BY DEF Handle
<1>2. ASSUME NEW by, Answer(r, by, arrives), by = r
      PROVE  AnsweredByOwn'
  <2>1. answers' \in {answers, answers \cup {<<r, by>>}}
    BY <1>2 DEF Answer
  <2> QED BY <1>2, <2>1 DEF AnswerInv, AnsweredByOwn
<1>3. CASE q.id # NoId /\ IsRepeated(q)
  <2>1. Answer(r, dedup[q.id].by, arrives) /\ UNCHANGED dedup
    BY <1>3 DEF Handle
  <2>2. dedup[q.id].by = r
    BY <1>3, KnownByIdAndMethod DEF IsRepeated, AnswerInv, AskedInv, DedupInv
  <2> QED BY <1>1, <1>2, <2>1, <2>2 DEF AnswerInv, DedupInv
<1>4. CASE ~(q.id # NoId /\ IsRepeated(q))
  <2>1. Answer(r, r, arrives) /\ (IF q.id = NoId THEN UNCHANGED dedup ELSE Remember(r))
    BY <1>4 DEF Handle
  <2>2. DedupInv'
    BY <1>1, <2>1, RememberKeeps DEF AnswerInv, DedupInv
  <2> QED BY <1>2, <2>1, <2>2
<1> QED BY <1>3, <1>4

(* The answer a master takes for its request was made for that request,    *)
(* and for no earlier one: handle() answers from the table only what has   *)
(* the same id and method, which a master does not use twice, and the      *)
(* masters' ids are apart.                                                 *)
THEOREM AnswersAreOwn ==
  ASSUME IdsApart
  PROVE  Spec => []AnsweredByOwn
<1>1. Init => AnswerInv
  <2>1. Init => answers = {} /\ DOMAIN dedup = {}
    BY DEF Init
  <2> QED BY <2>1, InitAsks DEF AnswerInv, DedupInv, AnsweredByOwn
<1>2. AnswerInv /\ [Next]_vars => AnswerInv'
  <2> SUFFICES ASSUME AnswerInv, [Next]_vars PROVE AnswerInv'
    OBVIOUS
  <2> USE DEF AnswerInv
  <2>1. CASE Masters
    <3>1. /\ AskedInv' /\ UNCHANGED <<dedup, answers>>
          /\ \A i \in 1 .. Len(reqs) : i \in 1 .. Len(reqs') /\ reqs'[i] = reqs[i]
      BY <2>1, RequestAsks, SendAgainAsks DEF Masters
    <3> QED BY <3>1 DEF DedupInv, AnsweredByOwn
  <2>2. CASE ServeUart \/ ServeMqtt
    BY <2>2, ServeAsks, HandleKeeps
  <2>3. CASE Connection \/ Tick \/ Reboot \/ PowerLoss \/ UNCHANGED vars
    BY <2>3, RestAsks DEF DedupInv, AnsweredByOwn
  <2> QED BY <2>1, <2>2, <2>3 DEF Next
<1>3. AnswerInv => AnsweredByOwn
  BY DEF AnswerInv
<1> QED BY <1>1, <1>2, <1>3, PTL DEF Spec
-----------------------------------------------------------------------------
(* A table of overrides that the validation takes as it is.                *)
Stable(t) ==
  /\ t \in [DOMAIN t -> Value] /\ DOMAIN t \subseteq DOMAIN SPEC
  /\ \A k \in DOMAIN t : Validate(SPEC[k], t[k]) = {t[k]}

LEMMA FloorOnce ==
  ASSUME NEW n \in Int
  PROVE  Floor(n) \in Int /\ Floor(Floor(n)) = Floor(n)
<1> DEFINE m == n \div 2
<1>1. m \in Int /\ (2 * m) \div 2 = m
  OBVIOUS
<1> QED BY <1>1 DEF Floor

(* What the validation made of a value it takes again, and leaves it so.   *)
LEMMA ValidateStays ==
  ASSUME NEW k \in DOMAIN SPEC, NEW v \in Value, NEW w \in Validate(SPEC[k], v)
  PROVE  w \in Value /\ Validate(SPEC[k], w) = {w}
<1> DEFINE spec == SPEC[k]
<1>1. v.num \in Int /\ v.numeric \in BOOLEAN /\ Floor(v.num) \in Int
  BY FloorOnce DEF Value
<1>2. w \in {v, Boolean(v.num # 0), Number(v.num), Number(Floor(v.num))} /\ Normal(spec, v, w)
  BY DEF Validate
<1>3. w \in Value
  <2>1. \A n \in Int : Number(n) \in Value
    BY DEF Value, Number
  <2>2. Boolean(v.num # 0) \in Value
    BY DEF Value, Boolean
  <2> QED BY <1>1, <1>2, <2>1, <2>2
<1>4. w.num \in Int /\ Floor(w.num) \in Int
  BY <1>3, FloorOnce DEF Value
<1>5. Normal(spec, w, w)
  <2>1. CASE spec.type = "bool"
    BY <1>2, <2>1 DEF Normal, Boolean
  <2>2. CASE spec.type = "int"
    <3>1. w = Number(Floor(v.num)) /\ InRange(spec, w.num)
      BY <1>2, <2>2 DEF Normal
    <3>2. w.num = Floor(v.num) /\ w.numeric
      BY <3>1 DEF Number
    <3> QED BY <1>1, <2>2, <3>1, <3>2, FloorOnce DEF Normal
  <2>3. CASE spec.type = "float"
    BY <1>2, <2>3 DEF Normal, Number
  <2>4. CASE spec.type = "enum"
    BY <1>2, <2>4 DEF Normal
  <2>5. CASE spec.type = "string"
    BY <1>2, <2>5 DEF Normal
  <2> QED BY <2>1, <2>2, <2>3, <2>4, <2>5, StoreAssumption
<1>6. ASSUME NEW u, Normal(spec, w, u)
      PROVE  u = w
  <2>1. CASE spec.type = "bool"
    <3>1. w = Boolean(v.num # 0) /\ u = Boolean(w.num # 0)
      BY <1>2, <1>6, <2>1 DEF Normal
    <3>2. w.num # 0 <=> v.num # 0
      BY <3>1 DEF Boolean
    <3> QED BY <3>1, <3>2 DEF Boolean
  <2>2. CASE spec.type = "int"
    <3>1. w = Number(Floor(v.num)) /\ u = Number(Floor(w.num))
      BY <1>2, <1>6, <2>2 DEF Normal
    <3>2. w.num = Floor(v.num)
      BY <3>1 DEF Number
    <3> QED BY <1>1, <3>1, <3>2, FloorOnce
  <2>3. CASE spec.type = "float"
    <3>1. w = Number(v.num) /\ u = Number(w.num)
      BY <1>2, <1>6, <2>3 DEF Normal
    <3>2. w.num = v.num
      BY <3>1 DEF Number
    <3> QED BY <3>1, <3>2
  <2>4. CASE spec.type = "enum"
    BY <1>2, <1>6, <2>4, StoreAssumption DEF Normal
  <2>5. CASE spec.type = "string"
    BY <1>2, <1>6, <2>5 DEF Normal
  <2> QED BY <2>1, <2>2, <2>3, <2>4, <2>5, StoreAssumption
<1> QED BY <1>3, <1>5, <1>6 DEF Validate

LEMMA AcceptedIsStable ==
  ASSUME NEW vals, \A k \in DOMAIN vals : vals[k] \in Value
  PROVE  Stable(Accepted(vals))
<1> DEFINE D == {k \in DOMAIN vals : Accepts(k, vals[k])}
           t == Accepted(vals)
<1>1. t = [k \in D |-> CHOOSE w \in Validate(SPEC[k], vals[k]) : TRUE]
  BY DEF Accepted
<1>2. ASSUME NEW k \in D
      PROVE  k \in DOMAIN SPEC /\ t[k] \in Validate(SPEC[k], vals[k])
  BY <1>1 DEF Accepts
<1>3. DOMAIN t = D /\ t = [k \in D |-> t[k]]
  BY <1>1
<1>4. ASSUME NEW k \in D
      PROVE  t[k] \in Value /\ Validate(SPEC[k], t[k]) = {t[k]}
  BY <1>2, ValidateStays
<1> HIDE DEF t
<1>5. t \in [D -> Value]
  BY <1>3, <1>4
<1>6. D \subseteq DOMAIN SPEC
  BY <1>2
<1> HIDE DEF D
<1> QED BY <1>3, <1>4, <1>5, <1>6 DEF Stable, t

LEMMA StableIsAccepted ==
  ASSUME NEW t, Stable(t)
  PROVE  Accepted(t) = t
<1>1. {k \in DOMAIN t : Accepts(k, t[k])} = DOMAIN t
  BY DEF Stable, Accepts
<1>2. \A k \in DOMAIN t : (CHOOSE w \in Validate(SPEC[k], t[k]) : TRUE) = t[k]
  BY DEF Stable
<1>3. t = [k \in DOMAIN t |-> t[k]]
  BY DEF Stable
<1> QED BY <1>1, <1>2, <1>3 DEF Accepted

LEMMA OverIsStable ==
  ASSUME NEW f, NEW g, Stable(f), Stable(g)
  PROVE  Stable(Over(f, g))
<1> DEFINE h == Over(f, g)
<1>1. /\ DOMAIN h = DOMAIN f \cup DOMAIN g
      /\ \A k \in DOMAIN h : h[k] = IF k \in DOMAIN f THEN f[k] ELSE g[k]
      /\ h = [k \in DOMAIN h |-> h[k]]
  BY DEF Over
<1> HIDE DEF h
<1>2. \A k \in DOMAIN h : h[k] \in Value /\ k \in DOMAIN SPEC /\ Validate(SPEC[k], h[k]) = {h[k]}
  BY <1>1 DEF Stable
<1>3. h \in [DOMAIN h -> Value]
  BY <1>1, <1>2
<1> QED BY <1>2, <1>3 DEF Stable, h

LEMMA NothingIsStable == Stable(NoOverrides)
BY DEF Stable, NoOverrides

(* The store: its overrides pass the validation as they are, what a boot   *)
(* would take from fskv are these overrides, and as long as no flag is up  *)
(* the device runs with them and, where it reads at boot, started so.      *)
StoreInv ==
  /\ Stable(overrides)
  /\ \A k \in DOMAIN fskv : fskv[k] \in Value
  /\ StoredIsOverrides
  /\ ~factory_pending => cfg = Over(overrides, Default)
  /\ ~factory_pending /\ ~needs_restart =>
       \A k \in RESTART_KEYS : booted[k] = Over(overrides, Default)[k]

LEMMA OverOver ==
  ASSUME NEW f, NEW g, NEW h
  PROVE  Over(Over(f, g), h) = Over(f, Over(g, h))
BY DEF Over

LEMMA SaveKeeps ==
  ASSUME StoreInv, NEW new, Stable(new), overrides' = new, Save(new)
  PROVE  /\ Stable(overrides)' /\ StoredIsOverrides'
         /\ \A k \in DOMAIN fskv' : fskv'[k] \in Value
<1>1. Accepted(new) = new
  BY StableIsAccepted
<1>2. Stable(overrides)'
  BY DEF Stable
<1>3. \A k \in DOMAIN new : new[k] \in Value
  BY DEF Stable
<1>4. CASE ~CFG_STORE_ENABLE
  BY <1>2, <1>4 DEF Save, StoreInv, StoredIsOverrides
<1>5. CASE fskv' = new
  <2>1. Accepted(fskv)' = Accepted(new)
    BY <1>5 DEF Accepted, Accepts
  <2> QED BY <1>1, <1>2, <1>3, <1>5, <2>1 DEF StoredIsOverrides, Loaded
<1>6. CASE CFG_STORE_ENABLE /\ available' = FALSE /\ UNCHANGED fskv
  BY <1>2, <1>6 DEF StoreInv, StoredIsOverrides
<1> QED BY <1>4, <1>5, <1>6 DEF Save

LEMMA StageKeeps ==
  ASSUME StoreInv, NEW vals, Stable(vals), StageAndSave(vals)
  PROVE  StoreInv'
<1>1. /\ cfg' = Over(vals, cfg) /\ overrides' = Over(vals, overrides)
      /\ Save(overrides') /\ UNCHANGED <<factory_pending, booted>>
  BY DEF StageAndSave
<1>2. ~needs_restart' => ~needs_restart /\ DOMAIN vals \cap RESTART_KEYS = {}
  BY Zenon DEF StageAndSave
<1>3. Stable(Over(vals, overrides))
  BY OverIsStable DEF StoreInv
<1>4. /\ Stable(overrides)' /\ StoredIsOverrides'
      /\ \A k \in DOMAIN fskv' : fskv'[k] \in Value
  BY <1>1, <1>3, SaveKeeps
<1>5. Over(overrides', Default) = Over(vals, Over(overrides, Default))
  BY <1>1, OverOver
<1>6. ~factory_pending' => cfg' = Over(overrides', Default)
  BY <1>1, <1>5 DEF StoreInv
<1>7. ASSUME ~factory_pending', ~needs_restart', NEW k \in RESTART_KEYS
      PROVE  booted'[k] = Over(overrides', Default)[k]
  <2>1. booted[k] = Over(overrides, Default)[k] /\ k \notin DOMAIN vals
    BY <1>1, <1>2, <1>7 DEF StoreInv
  <2>2. k \in DOMAIN Over(overrides, Default)
    BY StoreAssumption DEF Over
  <2>3. Over(vals, Over(overrides, Default))[k] = Over(overrides, Default)[k]
    BY <2>1, <2>2 DEF Over
  <2> QED BY <1>1, <1>5, <2>1, <2>3
<1> QED BY <1>4, <1>6, <1>7 DEF StoreInv, Over

LEMMA ResetKeeps ==
  ASSUME StoreInv, Reset
  PROVE  StoreInv'
<1>1. overrides' = NoOverrides /\ factory_pending'
  BY DEF Reset
<1>2. /\ Stable(overrides)' /\ StoredIsOverrides'
      /\ \A k \in DOMAIN fskv' : fskv'[k] \in Value
  <2>1. CASE Save(NoOverrides)
    BY <1>1, <2>1, SaveKeeps, NothingIsStable
  <2>2. CASE fskv' = NoOverrides
    <3>1. Accepted(NoOverrides) = NoOverrides
      BY NothingIsStable, StableIsAccepted
    <3>2. Accepted(fskv)' = Accepted(NoOverrides)
      BY <2>2 DEF Accepted, Accepts
    <3> QED BY <1>1, <2>2, <3>1, <3>2, NothingIsStable
            DEF StoredIsOverrides, Loaded, Stable, NoOverrides
  <2> QED BY <2>1, <2>2 DEF Reset
<1> QED BY <1>1, <1>2 DEF StoreInv

LEMMA LoadKeeps ==
  ASSUME StoreInv, Load
  PROVE  StoreInv'
<1>1. /\ cfg' = Over(overrides', Default) /\ booted' = cfg' /\ UNCHANGED fskv
  BY DEF Load
<1>2. /\ Stable(Accepted(fskv)) /\ Stable(NoOverrides)
      /\ overrides' \in {Accepted(fskv), NoOverrides}
  BY AcceptedIsStable, NothingIsStable DEF StoreInv, Load, Loaded
<1>3. Stable(overrides)'
  BY <1>2 DEF Stable
<1>4. CFG_STORE_ENABLE /\ available' => overrides' = Accepted(fskv)
  BY StoreAssumption DEF Load, Loaded
<1>5. StoredIsOverrides'
  BY <1>1, <1>4 DEF StoredIsOverrides, Loaded, Accepted, Accepts
<1> QED BY <1>1, <1>3, <1>5 DEF StoreInv, Over

LEMMA StoreInitKeeps ==
  ASSUME NEW stored \in Stored, StoreInit(stored)
  PROVE  StoreInv
<1>1. \A k \in DOMAIN fskv : fskv[k] \in Value
  BY MgmtAssumption DEF StoreInit
<1>2. Stable(Accepted(fskv)) /\ Stable(NoOverrides)
  BY <1>1, AcceptedIsStable, NothingIsStable
<1> QED BY <1>1, <1>2 DEF StoreInit, StoreInv, StoredIsOverrides, Loaded

LEMMA StoreStands ==
  ASSUME StoreInv, UNCHANGED storeVars
  PROVE  StoreInv'
<1>1. UNCHANGED <<cfg, overrides, needs_restart, factory_pending, available, fskv, booted>>
  BY DEF storeVars
<1>2. Stable(overrides)'
  BY <1>1 DEF StoreInv, Stable
<1>3. StoredIsOverrides'
  BY <1>1 DEF StoreInv, StoredIsOverrides, Loaded, Accepted, Accepts
<1>4. Over(overrides, Default)' = Over(overrides, Default)
  BY <1>1 DEF Over
<1> QED BY <1>1, <1>2, <1>3, <1>4 DEF StoreInv

LEMMA ExecuteKeeps ==
  ASSUME StoreInv, NEW r, reqs[r] \in Kinds, Execute(r)
  PROVE  StoreInv'
<1> DEFINE q == reqs[r]
<1>1. CASE UNCHANGED storeVars
  BY <1>1, StoreStands
<1>2. CASE Reset
  BY <1>2, ResetKeeps
<1>3. CASE ConfigSet(q.params)
  <2>1. Stable(Accepted(q.params))
    BY AcceptedIsStable, MgmtAssumption
  <2> QED BY <1>1, <1>3, <2>1, StageKeeps DEF ConfigSet
<1> QED BY <1>1, <1>2, <1>3 DEF Execute

LEMMA StoreInvariant == Spec => [](AskedInv /\ StoreInv)
<1>1. Init => AskedInv /\ StoreInv
  BY InitAsks, StoreInitKeeps DEF Init
<1>2. AskedInv /\ StoreInv /\ [Next]_vars => (AskedInv /\ StoreInv)'
  <2> SUFFICES ASSUME AskedInv, StoreInv, [Next]_vars PROVE AskedInv' /\ StoreInv'
    OBVIOUS
  <2>1. CASE Masters
    <3>1. AskedInv'
      BY <2>1, RequestAsks, SendAgainAsks DEF Masters
    <3>2. UNCHANGED storeVars
      BY <2>1 DEF Masters, Request, SendAgain
    <3> QED BY <3>1, <3>2, StoreStands
  <2>2. CASE ServeUart \/ ServeMqtt
    <3>1. PICK r, arrives : r \in 1 .. Len(reqs) /\ Handle(r, arrives)
      BY <2>2, ServeAsks
    <3>2. reqs[r] \in Kinds
      BY <3>1, ElementOfSeq DEF AskedInv, ReqsInv
    <3>3. UNCHANGED storeVars \/ Execute(r)
      BY <3>1 DEF Handle, storeVars
    <3> QED BY <2>2, <3>2, <3>3, ServeAsks, StoreStands, ExecuteKeeps
  <2>3. CASE Connection \/ Tick \/ Reboot \/ PowerLoss \/ UNCHANGED vars
    <3>1. UNCHANGED storeVars \/ Load
      BY <2>3 DEF Connection, Tick, Reboot, PowerLoss, Restart, vars, storeVars
    <3> QED BY <2>3, <3>1, RestAsks, StoreStands, LoadKeeps
  <2> QED BY <2>1, <2>2, <2>3 DEF Next
<1> QED BY <1>1, <1>2, PTL DEF Spec

(* What a boot at any moment would load are the overrides of this run: the *)
(* validation is idempotent (ValidateStays), so save()'s copy passes it.   *)
THEOREM StoredAreOverrides == Spec => []StoredIsOverrides
<1>1. AskedInv /\ StoreInv => StoredIsOverrides
  BY DEF StoreInv
<1> QED BY <1>1, StoreInvariant, PTL

(* A reboot changes no setting unless a flag of cfg_store says so, for any *)
(* white list, any batches of config.set and any failures of fskv.         *)
THEOREM ChangesAreKnown == Spec => []ChangesAreAnnounced
<1>1. StoreInv => ChangesAreAnnounced
  <2> SUFFICES ASSUME StoreInv, CFG_STORE_ENABLE, available, NEW k \in DOMAIN SPEC
               PROVE  LET next == Over(Loaded, Default)[k] IN
                      /\ k \in RESTART_KEYS /\ next # booted[k] => needs_restart \/ factory_pending
                      /\ k \notin RESTART_KEYS /\ next # cfg[k] => factory_pending
    BY DEF ChangesAreAnnounced
  <2>1. Loaded = overrides
    BY DEF StoreInv, StoredIsOverrides
  <2> QED BY <2>1, Zenon DEF StoreInv
<1> QED BY <1>1, StoreInvariant, PTL
-----------------------------------------------------------------------------
RequestOf(i) == reqs[runs[i].req]

(* The other ones of the first n executions that were in the same boot and *)
(* no earlier.                                                             *)
Later(i, n) ==
  {k \in 1 .. n : k # i /\ runs[k].boot = runs[i].boot /\ runs[k].at >= runs[i].at}

RunsInv ==
  /\ now \in Nat /\ boots \in Nat
  /\ runs \in Seq([req : Nat, at : Nat, boot : Nat])
  /\ \A i \in 1 .. Len(runs) :
       runs[i].req \in 1 .. Len(reqs) /\ runs[i].at <= now /\ runs[i].boot <= boots

(* What is sent again is the last request of the link.                     *)
NewestInv ==
  \A link \in Link : awaited[link] # 0 =>
    /\ reqs[awaited[link]].link = link
    /\ \A i \in 1 .. Len(reqs) : reqs[i].link = link => i <= awaited[link]

Members(queue) == {queue[i] : i \in 1 .. Len(queue)}

Ordered(queue) == \A i, j \in 1 .. Len(queue) : i <= j => queue[i] <= queue[j]

(* Request r is of the link, and what this boot executed of it is no newer.*)
Follows(r, link) ==
  /\ reqs[r].link = link
  /\ \A k \in 1 .. Len(runs) :
       runs[k].boot = boots /\ RequestOf(k).link = link => runs[k].req <= r

(* The requests of a link are in the order they were made in.              *)
OrderInv ==
  /\ NewestInv
  /\ Ordered(uart_rx) /\ \A r \in Members(uart_rx) : Follows(r, "uart")
  /\ Ordered(rx_queue) /\ \A r \in Members(rx_queue) : Follows(r, "mqtt")

(* Every entry is of an execution.                                         *)
TableInv ==
  /\ IsFiniteSet(DOMAIN dedup) /\ dedup_n = Cardinality(DOMAIN dedup)
  /\ \A id \in DOMAIN dedup : \E k \in 1 .. Len(runs) :
       runs[k].boot = boots /\ runs[k].at = dedup[id].at /\ RequestOf(k).id = id

Kept(i) ==
  LET id == RequestOf(i).id IN
  id \in DOMAIN dedup /\ dedup[id].method = RequestOf(i).method /\ dedup[id].at >= runs[i].at

Superseded(i) ==
  \E k \in 1 .. Len(runs) :
    runs[k].boot = boots /\ RequestOf(k).link = RequestOf(i).link /\ runs[k].req > runs[i].req

Full(i) == Cardinality(Later(i, Len(runs))) >= DEDUP_CAP

(* An execution of this boot in the window is in the table, or its link    *)
(* has gone on, or as many others as the table holds have come after it.   *)
RememberedInv ==
  \A i \in 1 .. Len(runs) :
    runs[i].boot = boots /\ RequestOf(i).id # NoId /\ now - runs[i].at < DEDUP_WINDOW
    => Kept(i) \/ Superseded(i) \/ Full(i)

WindowInv == RunsInv /\ TableInv /\ RememberedInv /\ OnceInWindow
OnceInv == AskedInv /\ OrderInv /\ WindowInv

-----------------------------------------------------------------------------
(* Where everything of ids is the id of one of idx, idx has as many.       *)
LEMMA AsManyAs ==
  ASSUME NEW ids, NEW idx, NEW idOf, IsFiniteSet(idx),
         \A id \in ids : \E k \in idx : idOf[k] = id
  PROVE  Cardinality(ids) <= Cardinality(idx)
<1> DEFINE f == [id \in ids |-> CHOOSE k \in idx : idOf[k] = id]
<1>1. \A id \in ids : f[id] \in idx /\ idOf[f[id]] = id
  OBVIOUS
<1>2. f \in [ids -> idx]
  BY <1>1
<1> HIDE DEF f
<1>3. \A a, b \in ids : f[a] = f[b] => a = b
  BY <1>1, Zenon
<1>4. f \in Injection(ids, idx)
  BY <1>2, <1>3, Fun_IsInj
<1> QED BY <1>4, FS_Injection

(* What remember() leaves of the table: the request's own entry, and older *)
(* ones as they were; and where one had to go it is full, with no entry    *)
(* that is older.                                                          *)
LEMMA RememberTable ==
  ASSUME TableInv, now \in Nat, NEW r, Remember(r)
  PROVE  LET q == reqs[r] IN
         /\ IsFiniteSet(DOMAIN dedup') /\ dedup_n' = Cardinality(DOMAIN dedup')
         /\ \A id \in DOMAIN dedup' :
              \/ id = q.id /\ dedup'[id].method = q.method /\ dedup'[id].at = now
              \/ id # q.id /\ id \in DOMAIN dedup /\ dedup'[id] = dedup[id]
         /\ \A id \in (Young \cup {q.id}) \ DOMAIN dedup' :
              /\ Cardinality(DOMAIN dedup') >= DEDUP_CAP
              /\ \A other \in DOMAIN dedup' :
                   (IF id = q.id THEN now ELSE dedup[id].at) <= dedup'[other].at
<1> DEFINE q == reqs[r]
           all == Young \cup {q.id}
           entry == [id \in all |->
                       IF id = q.id THEN [method |-> q.method, at |-> now, by |-> r] ELSE dedup[id]]
           n == dedup_n - Cardinality(DOMAIN dedup \ Young) + IF q.id \in Young THEN 0 ELSE 1
           cap == IF n > DEDUP_CAP THEN DEDUP_CAP ELSE n
<1>1. /\ DOMAIN entry = all
      /\ \A id \in all :
           /\ id = q.id => entry[id].method = q.method /\ entry[id].at = now
           /\ id # q.id => entry[id] = dedup[id]
  OBVIOUS
<1>2. PICK kept \in SUBSET all :
        /\ Cardinality(kept) = cap
        /\ \A out \in all \ kept : \A id \in kept : entry[out].at <= entry[id].at
        /\ dedup' = [id \in kept |-> entry[id]]
        /\ dedup_n' = cap
  BY DEF Remember
<1>3. Young \subseteq DOMAIN dedup
  BY DEF Young
<1> HIDE DEF entry
<1>4. DOMAIN dedup' = kept /\ \A id \in kept : dedup'[id] = entry[id]
  BY <1>2
<1>5. IsFiniteSet(all) /\ Cardinality(all) = n
  <2>1. IsFiniteSet(DOMAIN dedup) /\ dedup_n = Cardinality(DOMAIN dedup)
    BY DEF TableInv
  <2>2. DOMAIN dedup \cap (DOMAIN dedup \ Young) = DOMAIN dedup \ Young
    OBVIOUS
  <2>3. DOMAIN dedup \ (DOMAIN dedup \ Young) = Young
    BY <1>3
  <2>4. IsFiniteSet(Young) /\ Cardinality(Young) = dedup_n - Cardinality(DOMAIN dedup \ Young)
    <3> DEFINE D == DOMAIN dedup
               old == D \ Young
    <3> HIDE DEF D, old
    <3>1. IsFiniteSet(D \ old) /\ Cardinality(D \ old) = Cardinality(D) - Cardinality(D \cap old)
      BY <2>1, FS_Difference DEF D
    <3>2. D \cap old = old /\ D \ old = Young
      BY <2>2, <2>3 DEF D, old
    <3> QED BY <2>1, <3>1, <3>2 DEF D, old
  <2>5. Cardinality(Young) \in Nat
    BY <2>4, FS_CardinalityType
  <2>6. /\ IsFiniteSet(all)
        /\ Cardinality(all) = IF q.id \in Young THEN Cardinality(Young) ELSE Cardinality(Young) + 1
    BY <2>4, FS_AddElement
  <2> HIDE DEF all, q
  <2> QED BY <2>4, <2>5, <2>6
<1>6. IsFiniteSet(kept) /\ (all \ kept # {} => Cardinality(kept) >= DEDUP_CAP)
  <2>1. IsFiniteSet(kept) /\ (Cardinality(all) = Cardinality(kept) => all = kept)
    BY <1>5, FS_Subset
  <2>2. cap # n => cap = DEDUP_CAP
    OBVIOUS
  <2>3. DEDUP_CAP \in Nat
    BY MgmtAssumption
  <2> HIDE DEF all, n, cap
  <2> QED BY <1>2, <1>5, <2>1, <2>2, <2>3
<1>7. ASSUME NEW id \in kept
      PROVE  \/ id = q.id /\ dedup'[id].method = q.method /\ dedup'[id].at = now
             \/ id # q.id /\ id \in DOMAIN dedup /\ dedup'[id] = dedup[id]
  BY <1>1, <1>3, <1>4
<1>8. ASSUME NEW id \in all \ kept, NEW other \in kept
      PROVE  (IF id = q.id THEN now ELSE dedup[id].at) <= dedup'[other].at
  BY <1>1, <1>2, <1>4
<1> QED BY <1>2, <1>4, <1>6, <1>7, <1>8

LEMMA LaterIsFinite ==
  ASSUME NEW i, NEW n \in Nat
  PROVE  IsFiniteSet(Later(i, n)) /\ Cardinality(Later(i, n)) \in Nat
<1>1. IsFiniteSet(1 .. n)
  BY FS_Interval
<1>2. Later(i, n) \in SUBSET (1 .. n)
  BY DEF Later
<1> QED BY <1>1, <1>2, FS_Subset, FS_CardinalityType
(* Nothing is executed or remembered.                                      *)
LEMMA HistoryStands ==
  ASSUME WindowInv, UNCHANGED <<dedup, dedup_n, boots, runs>>, now' \in Nat, now' >= now,
         \A i \in 1 .. Len(reqs) : i \in 1 .. Len(reqs') /\ reqs'[i] = reqs[i]
  PROVE  WindowInv'
<1> DEFINE n == Len(runs)
<1>1. /\ n \in Nat /\ DOMAIN runs = 1 .. n
      /\ \A i \in 1 .. n : runs[i] \in [req : Nat, at : Nat, boot : Nat]
  BY LenProperties, ElementOfSeq DEF WindowInv, RunsInv
<1>2. RunsInv'
  <2>1. \A i \in 1 .. n : runs[i].req \in 1 .. Len(reqs') /\ runs[i].at <= now /\ runs[i].boot <= boots
    BY DEF WindowInv, RunsInv
  <2>2. now \in Nat /\ boots \in Nat
    BY DEF WindowInv, RunsInv
  <2>3. \A i \in 1 .. n : runs[i].at <= now'
    BY <1>1, <2>1, <2>2
  <2> QED BY <2>1, <2>3 DEF WindowInv, RunsInv
<1>3. \A i \in 1 .. n : RequestOf(i)' = RequestOf(i)
  BY DEF WindowInv, RunsInv, RequestOf
<1>4. \A i, m : Later(i, m)' = Later(i, m)
  BY DEF Later
<1>5. TableInv'
  BY <1>3 DEF WindowInv, TableInv
<1>6. RememberedInv'
  <2> SUFFICES ASSUME NEW i \in 1 .. n, runs[i].boot = boots, RequestOf(i).id # NoId,
                      now' - runs[i].at < DEDUP_WINDOW
               PROVE  Kept(i)' \/ Superseded(i)' \/ Full(i)'
    BY <1>3 DEF RememberedInv
  <2>1. now - runs[i].at < DEDUP_WINDOW
    BY <1>1, MgmtAssumption DEF WindowInv, RunsInv
  <2>2. Kept(i) \/ Superseded(i) \/ Full(i)
    BY <2>1 DEF WindowInv, RememberedInv
  <2> QED BY <1>3, <1>4, <2>2 DEF Kept, Superseded, Full
<1>7. OnceInWindow'
  <2>1. \A i, j \in DOMAIN runs :
          /\ i < j /\ runs[i].req = runs[j].req /\ runs[i].boot = runs[j].boot
          /\ RequestOf(i).id # NoId /\ runs[j].at - runs[i].at < DEDUP_WINDOW
          => Cardinality(Later(i, j - 1)) >= DEDUP_CAP
    BY DEF WindowInv, OnceInWindow, RequestOf, Later
  <2>2. \A i \in DOMAIN runs : RequestOf(i)' = RequestOf(i)
    BY <1>1, <1>3
  <2> QED BY <2>1, <2>2 DEF OnceInWindow, RequestOf, Later
<1> QED BY <1>2, <1>5, <1>6, <1>7 DEF WindowInv

(* A boot begins with an empty table and without executions of its own.    *)
LEMMA RestartForgets ==
  ASSUME WindowInv, UNCHANGED <<now, reqs, runs>>, boots' = boots + 1,
         DOMAIN dedup' = {}, dedup_n' = 0
  PROVE  WindowInv' /\ \A k \in 1 .. Len(runs') : runs'[k].boot # boots'
<1>1. \A k \in 1 .. Len(runs) : runs[k] \in [req : Nat, at : Nat, boot : Nat]
  BY ElementOfSeq DEF WindowInv, RunsInv
<1>2. boots \in Nat /\ \A k \in 1 .. Len(runs) : runs[k].boot <= boots
  BY DEF WindowInv, RunsInv
<1>3. \A k \in 1 .. Len(runs) : runs[k].boot <= boots' /\ runs[k].boot # boots'
  BY <1>1, <1>2
<1>4. RunsInv'
  BY <1>2, <1>3 DEF WindowInv, RunsInv
<1>5. TableInv'
  BY FS_EmptySet DEF TableInv
<1>6. RememberedInv'
  BY <1>3 DEF RememberedInv
<1>7. OnceInWindow'
  BY DEF WindowInv, OnceInWindow
<1> QED BY <1>3, <1>4, <1>5, <1>6, <1>7 DEF WindowInv

(* A request is executed, which comes after all that its link has had      *)
(* executed by this boot, and is not in the table.                         *)
LEMMA ExecutedKeeps ==
  ASSUME IdsApart, AskedInv, WindowInv, NEW r \in 1 .. Len(reqs),
         UNCHANGED <<now, boots, reqs>>,
         runs' = Append(runs, [req |-> r, at |-> now, boot |-> boots]),
         reqs[r].id = NoId => UNCHANGED <<dedup, dedup_n>>,
         reqs[r].id # NoId => ~IsRepeated(reqs[r]) /\ Remember(r),
         \A k \in 1 .. Len(runs) :
           runs[k].boot = boots /\ RequestOf(k).link = reqs[r].link => runs[k].req <= r
  PROVE  WindowInv'
<1>0. PICK n : n = Len(runs)
  OBVIOUS
<1> DEFINE q == reqs[r]
           Run == [req : Nat, at : Nat, boot : Nat]
           new == [req |-> r, at |-> now, boot |-> boots]
<1>1. /\ n \in Nat /\ Len(runs') = n + 1 /\ runs' \in Seq(Run)
      /\ DOMAIN runs = 1 .. n /\ DOMAIN runs' = 1 .. (n + 1)
      /\ \A i \in 1 .. n : runs[i] \in Run /\ runs'[i] = runs[i]
      /\ runs'[n + 1] = new
  <2>1. new \in Run
    BY DEF WindowInv, RunsInv
  <2>2. runs \in Seq(Run)
    BY DEF WindowInv, RunsInv
  <2> HIDE DEF Run, new
  <2>3. /\ runs' \in Seq(Run) /\ Len(runs') = n + 1 /\ runs'[n + 1] = new
        /\ \A i \in 1 .. n : runs'[i] = runs[i]
    BY <1>0, <2>1, <2>2, AppendProperties DEF new
  <2> QED BY <1>0, <2>2, <2>3, LenProperties, ElementOfSeq
<1>2. now \in Nat /\ boots \in Nat /\ DEDUP_WINDOW \in Nat \ {0} /\ DEDUP_CAP \in Nat
  BY MgmtAssumption DEF WindowInv, RunsInv
<1>3. \A i \in 1 .. n : /\ runs[i].req \in 1 .. Len(reqs) /\ runs[i].at <= now
                        /\ runs[i].boot <= boots
  BY <1>0 DEF WindowInv, RunsInv
<1>4. /\ new.req = r /\ new.at = now /\ new.boot = boots
      /\ \A i \in 1 .. (n + 1) : i \in 1 .. n \/ i = n + 1
      /\ \A i \in 1 .. n : i \in 1 .. (n + 1)
      /\ n + 1 \in 1 .. (n + 1)
  BY <1>1
<1> HIDE DEF q, Run, new
<1>5. RunsInv'
  <2>1. \A i \in 1 .. (n + 1) : /\ runs'[i].req \in 1 .. Len(reqs) /\ runs'[i].at <= now
                                /\ runs'[i].boot <= boots
    BY <1>1, <1>2, <1>3, <1>4
  <2> QED BY <1>1, <1>2, <2>1 DEF RunsInv, Run
<1>6. RequestOf(n + 1)' = q /\ \A i \in 1 .. n : RequestOf(i)' = RequestOf(i)
  BY <1>1, <1>4 DEF RequestOf, q
<1>7. \A i \in 1 .. n : \A m \in 0 .. n : Later(i, m)' = Later(i, m)
  BY <1>1 DEF Later
<1>8. ASSUME NEW i \in 1 .. n, Full(i)
      PROVE  Full(i)'
  <2>1. Later(i, n) \in SUBSET Later(i, n + 1)'
    BY <1>1, <1>4 DEF Later
  <2>2. IsFiniteSet(Later(i, n + 1)')
    <3>1. IsFiniteSet(1 .. (n + 1))
      BY <1>1, FS_Interval
    <3> QED BY <3>1, FS_Subset DEF Later
  <2>3. Cardinality(Later(i, n)) <= Cardinality(Later(i, n + 1)')
    BY <2>1, <2>2, FS_Subset
  <2>4. Cardinality(Later(i, n + 1)') \in Nat /\ Cardinality(Later(i, n)) \in Nat
    BY <1>1, <2>2, LaterIsFinite, FS_CardinalityType
  <2>5. Cardinality(Later(i, n)) >= DEDUP_CAP
    BY <1>0, <1>8 DEF Full
  <2>6. Cardinality(Later(i, n + 1)') >= DEDUP_CAP
    BY <1>2, <2>3, <2>4, <2>5
  <2> QED BY <1>1, <2>6 DEF Full
<1>9. TableInv'
  <2>1. CASE q.id = NoId
    <3>1. UNCHANGED <<dedup, dedup_n>>
      BY <2>1 DEF q
    <3>2. ASSUME NEW id \in DOMAIN dedup
          PROVE  \E k \in 1 .. (n + 1) :
                   runs'[k].boot = boots /\ runs'[k].at = dedup[id].at /\ RequestOf(k)'.id = id
      <4>1. PICK k \in 1 .. n :
              runs[k].boot = boots /\ runs[k].at = dedup[id].at /\ RequestOf(k).id = id
        BY <1>0 DEF WindowInv, TableInv
      <4> QED BY <1>1, <1>4, <1>6, <4>1
    <3> QED BY <1>1, <3>1, <3>2 DEF WindowInv, TableInv
  <2>2. CASE q.id # NoId
    <3>1. /\ IsFiniteSet(DOMAIN dedup') /\ dedup_n' = Cardinality(DOMAIN dedup')
          /\ \A id \in DOMAIN dedup' :
               \/ id = q.id /\ dedup'[id].at = now
               \/ id \in DOMAIN dedup /\ dedup'[id] = dedup[id]
      BY <1>2, <2>2, RememberTable DEF q, WindowInv
    <3>2. ASSUME NEW id \in DOMAIN dedup'
          PROVE  \E k \in 1 .. (n + 1) :
                   runs'[k].boot = boots /\ runs'[k].at = dedup'[id].at /\ RequestOf(k)'.id = id
      <4>1. CASE id = q.id /\ dedup'[id].at = now
        BY <1>1, <1>4, <1>6, <4>1
      <4>2. CASE id \in DOMAIN dedup /\ dedup'[id] = dedup[id]
        <5>1. PICK k \in 1 .. n :
                runs[k].boot = boots /\ runs[k].at = dedup[id].at /\ RequestOf(k).id = id
          BY <1>0, <4>2 DEF WindowInv, TableInv
        <5> QED BY <1>1, <1>4, <1>6, <4>2, <5>1
      <4> QED BY <3>1, <4>1, <4>2
    <3> QED BY <1>1, <3>1, <3>2 DEF TableInv
  <2> QED BY <2>1, <2>2
<1>10. ASSUME NEW i \in 1 .. (n + 1), runs'[i].boot = boots,
              RequestOf(i)'.id \notin DOMAIN dedup',
              Cardinality(DOMAIN dedup') >= DEDUP_CAP,
              \A id \in DOMAIN dedup' : dedup'[id].at >= runs'[i].at
       PROVE  Full(i)'
  <2> DEFINE idx == Later(i, n + 1)'
             idOf == [k \in 1 .. (n + 1) |-> RequestOf(k)'.id]
  <2>1. idx \in SUBSET (1 .. (n + 1))
    BY DEF Later
  <2>2. IsFiniteSet(idx)
    <3>1. IsFiniteSet(1 .. (n + 1))
      BY <1>1, FS_Interval
    <3> QED BY <2>1, <3>1, FS_Subset
  <2>3. ASSUME NEW id \in DOMAIN dedup'
        PROVE  \E k \in idx : idOf[k] = id
    <3>1. PICK k \in 1 .. (n + 1) :
            runs'[k].boot = boots /\ runs'[k].at = dedup'[id].at /\ RequestOf(k)'.id = id
      BY <1>1, <1>9 DEF TableInv
    <3>2. k # i
      BY <1>10, <3>1
    <3>3. k \in idx
      BY <1>10, <3>1, <3>2 DEF Later
    <3> QED BY <3>1, <3>3
  <2> HIDE DEF idx, idOf
  <2>4. Cardinality(DOMAIN dedup') <= Cardinality(idx)
    BY <2>2, <2>3, AsManyAs
  <2>5. Cardinality(idx) \in Nat /\ Cardinality(DOMAIN dedup') \in Nat
    BY <1>9, <2>2, FS_CardinalityType DEF TableInv
  <2>6. Cardinality(idx) >= DEDUP_CAP
    BY <1>2, <1>10, <2>4, <2>5
  <2> QED BY <1>1, <2>6 DEF Full, idx
<1>11. \A a, b, c \in Nat : a <= b /\ b <= c => c >= a
  OBVIOUS
<1>12. \A a, b \in Nat : now - a < DEDUP_WINDOW /\ b >= a => now - b < DEDUP_WINDOW
  BY <1>2
<1>13. ASSUME NEW i \in 1 .. (n + 1), runs'[i].boot = boots, RequestOf(i)'.id # NoId,
              now - runs'[i].at < DEDUP_WINDOW
       PROVE  Kept(i)' \/ Superseded(i)' \/ Full(i)'
  <2>1. CASE q.id = NoId
    <3>1. i \in 1 .. n /\ UNCHANGED dedup
      BY <1>4, <1>6, <1>13, <2>1 DEF q
    <3>2. Kept(i) \/ Superseded(i) \/ Full(i)
      BY <1>0, <1>1, <1>6, <1>13, <3>1 DEF WindowInv, RememberedInv
    <3>3. Kept(i) => Kept(i)'
      BY <1>1, <1>6, <3>1 DEF Kept
    <3>4. Superseded(i) => Superseded(i)'
      BY <1>0, <1>1, <1>4, <1>6, <3>1 DEF Superseded
    <3> QED BY <1>8, <3>1, <3>2, <3>3, <3>4
  <2>2. CASE q.id # NoId
    <3> DEFINE id == RequestOf(i)'.id
    <3>1. /\ \A x \in DOMAIN dedup' :
               \/ x = q.id /\ dedup'[x].method = q.method /\ dedup'[x].at = now
               \/ x # q.id /\ x \in DOMAIN dedup /\ dedup'[x] = dedup[x]
          /\ \A x \in (Young \cup {q.id}) \ DOMAIN dedup' :
               /\ Cardinality(DOMAIN dedup') >= DEDUP_CAP
               /\ \A other \in DOMAIN dedup' :
                    (IF x = q.id THEN now ELSE dedup[x].at) <= dedup'[other].at
      BY <1>2, <2>2, RememberTable DEF q, WindowInv
    <3>2. runs'[i].at \in Nat /\ runs'[i].at <= now
      BY <1>1, <1>2, <1>3, <1>4 DEF Run
    <3>3. \A x \in DOMAIN dedup' : dedup'[x].at \in Nat
      <4>1. \A x \in DOMAIN dedup : dedup[x].at \in Nat
        BY <1>0, <1>1 DEF WindowInv, TableInv, Run
      <4> QED BY <1>2, <3>1, <4>1
    <3>4. ASSUME id = q.id, RequestOf(i)'.method = q.method
          PROVE  Kept(i)' \/ Full(i)'
      <4>1. CASE id \in DOMAIN dedup'
        BY <3>1, <3>2, <3>4, <4>1 DEF Kept
      <4>2. CASE id \notin DOMAIN dedup'
        <5>1. /\ Cardinality(DOMAIN dedup') >= DEDUP_CAP
              /\ \A other \in DOMAIN dedup' : now <= dedup'[other].at
          BY <3>1, <3>4, <4>2
        <5>2. \A other \in DOMAIN dedup' : dedup'[other].at >= runs'[i].at
          BY <1>2, <1>11, <3>2, <3>3, <5>1, Zenon
        <5> QED BY <1>10, <1>13, <4>2, <5>1, <5>2
      <4> QED BY <4>1, <4>2
    <3>5. CASE i = n + 1
      BY <1>6, <3>4, <3>5
    <3>6. CASE i \in 1 .. n
      <4>1. RequestOf(i)' = RequestOf(i) /\ runs'[i] = runs[i]
        BY <1>1, <1>6, <3>6
      <4>2. Kept(i) \/ Superseded(i) \/ Full(i)
        BY <1>0, <1>13, <3>6, <4>1 DEF WindowInv, RememberedInv
      <4>3. CASE Superseded(i)
        <5>1. Superseded(i)'
          BY <1>0, <1>1, <1>4, <1>6, <3>6, <4>3 DEF Superseded
        <5> QED BY <5>1
      <4>4. CASE id = q.id /\ RequestOf(i).method # q.method
        <5>1. RequestOf(i) \in Kinds /\ q \in Kinds
          <6>1. runs[i].req \in 1 .. Len(reqs)
            BY <1>3, <3>6
          <6> QED BY <6>1, ElementOfSeq DEF AskedInv, ReqsInv, RequestOf, q
        <5>2. RequestOf(i).link = q.link
          BY <2>2, <4>1, <4>4, <5>1, MgmtAssumption DEF IdsApart
        <5>3. runs[i].req <= r /\ runs[i].req # r
          BY <1>0, <1>13, <3>6, <4>1, <4>4, <5>2 DEF q, RequestOf
        <5>4. runs'[n + 1].req > runs'[i].req
          BY <1>1, <1>3, <1>4, <3>6, <4>1, <5>3
        <5>5. Superseded(i)'
          BY <1>1, <1>4, <1>6, <4>1, <5>2, <5>4 DEF Superseded
        <5> QED BY <5>5
      <4>5. CASE Kept(i) /\ id # q.id
        <5>1. id \in DOMAIN dedup /\ dedup[id].at \in Nat /\ dedup[id].at >= runs[i].at
          BY <1>0, <1>1, <4>1, <4>5 DEF Kept, WindowInv, TableInv, Run
        <5>2. id \in Young
          <6>1. now - dedup[id].at < DEDUP_WINDOW
            BY <1>13, <1>12, <3>2, <4>1, <5>1
          <6> QED BY <5>1, <6>1 DEF Young
        <5>3. CASE id \in DOMAIN dedup'
          <6>1. dedup'[id] = dedup[id]
            BY <3>1, <4>5, <5>3
          <6>2. Kept(i)'
            BY <4>1, <4>5, <5>3, <6>1 DEF Kept
          <6> QED BY <6>2
        <5>4. CASE id \notin DOMAIN dedup'
          <6>1. /\ Cardinality(DOMAIN dedup') >= DEDUP_CAP
                /\ \A other \in DOMAIN dedup' : dedup[id].at <= dedup'[other].at
            BY <3>1, <4>5, <5>2, <5>4
          <6>2. \A other \in DOMAIN dedup' : dedup'[other].at >= runs'[i].at
            <7>1. dedup[id].at \in Nat /\ runs'[i].at \in Nat /\ runs'[i].at <= dedup[id].at
              BY <3>2, <4>1, <5>1
            <7> HIDE DEF id
            <7> QED BY <1>11, <3>3, <6>1, <7>1
          <6> QED BY <1>10, <1>13, <5>4, <6>1, <6>2
        <5> QED BY <5>3, <5>4
      <4> QED BY <1>8, <3>4, <3>6, <4>1, <4>2, <4>3, <4>4, <4>5
    <3> QED BY <1>4, <3>5, <3>6
  <2> QED BY <2>1, <2>2
<1>14. RememberedInv'
  BY <1>1, <1>13 DEF RememberedInv
<1>15. OnceInWindow'
  <2> SUFFICES ASSUME NEW i \in 1 .. (n + 1), NEW j \in 1 .. (n + 1), i < j,
                      runs'[i].req = runs'[j].req, runs'[i].boot = runs'[j].boot,
                      RequestOf(i)'.id # NoId, runs'[j].at - runs'[i].at < DEDUP_WINDOW
               PROVE  Cardinality(Later(i, j - 1)') >= DEDUP_CAP
    BY <1>1 DEF OnceInWindow, RequestOf, Later
  <2>1. i \in 1 .. n /\ j - 1 \in 0 .. n
    BY <1>1
  <2>2. Later(i, j - 1)' = Later(i, j - 1) /\ RequestOf(i)' = RequestOf(i) /\ runs'[i] = runs[i]
    BY <1>1, <1>6, <1>7, <2>1
  <2>3. CASE j \in 1 .. n
    <3>1. Cardinality(Later(i, j - 1)) >= DEDUP_CAP
      <4>1. \A k, l \in DOMAIN runs :
              /\ k < l /\ runs[k].req = runs[l].req /\ runs[k].boot = runs[l].boot
              /\ RequestOf(k).id # NoId /\ runs[l].at - runs[k].at < DEDUP_WINDOW
              => Cardinality(Later(k, l - 1)) >= DEDUP_CAP
        BY DEF WindowInv, OnceInWindow, RequestOf, Later
      <4>2. i \in DOMAIN runs /\ j \in DOMAIN runs /\ runs'[j] = runs[j]
        BY <1>1, <2>1, <2>3
      <4> QED BY <2>2, <4>1, <4>2
    <3> QED BY <2>2, <3>1
  <2>4. CASE j = n + 1
    <3>1. /\ runs[i].req = r /\ runs[i].boot = boots /\ RequestOf(i) = q
          /\ q.id # NoId /\ now - runs[i].at < DEDUP_WINDOW
      BY <1>1, <1>4, <2>2, <2>4 DEF RequestOf, q
    <3>2. Kept(i) \/ Superseded(i) \/ Full(i)
      BY <1>0, <2>1, <3>1 DEF WindowInv, RememberedInv
    <3>3. ~Kept(i)
      <4> SUFFICES ASSUME Kept(i) PROVE FALSE
        OBVIOUS
      <4>1. /\ q.id \in DOMAIN dedup /\ dedup[q.id].method = q.method
            /\ dedup[q.id].at >= runs[i].at /\ dedup[q.id].at \in Nat /\ runs[i].at \in Nat
        BY <1>0, <1>1, <2>1, <3>1 DEF Kept, WindowInv, TableInv, Run
      <4>2. now - dedup[q.id].at < DEDUP_WINDOW
        BY <1>12, <3>1, <4>1
      <4> QED BY <3>1, <4>1, <4>2 DEF IsRepeated, q
    <3>4. ~Superseded(i)
      BY <1>0, <1>1, <1>3, <2>1, <3>1 DEF Superseded, q
    <3>5. Later(i, j - 1) = Later(i, n)
      BY <1>1, <2>4
    <3> QED BY <1>0, <2>2, <3>2, <3>3, <3>4, <3>5 DEF Full
  <2> QED BY <1>4, <2>3, <2>4
<1> QED BY <1>5, <1>9, <1>14, <1>15 DEF WindowInv
-----------------------------------------------------------------------------
(* The order of requests                                                   *)

LEMMA AppendOrdered ==
  ASSUME NEW n \in Nat, NEW s \in Seq(1 .. n), Ordered(s), NEW r \in 1 .. n,
         \A x \in Members(s) : x <= r
  PROVE  Ordered(Append(s, r)) /\ Members(Append(s, r)) = Members(s) \cup {r}
<1> DEFINE t == Append(s, r)
<1>1. /\ Len(s) \in Nat /\ Len(t) = Len(s) + 1
      /\ \A i \in 1 .. Len(s) : t[i] = s[i] /\ s[i] \in 1 .. n
      /\ t[Len(s) + 1] = r
  BY AppendProperties, LenProperties, ElementOfSeq
<1> HIDE DEF t
<1>2. \A i \in 1 .. Len(t) : i \in 1 .. Len(s) \/ i = Len(s) + 1
  BY <1>1
<1>3. Ordered(t)
  <2> SUFFICES ASSUME NEW i \in 1 .. Len(t), NEW j \in 1 .. Len(t), i <= j
               PROVE  t[i] <= t[j]
    BY DEF Ordered
  <2>1. CASE j \in 1 .. Len(s)
    BY <1>1, <2>1 DEF Ordered
  <2>2. CASE j = Len(s) + 1 /\ i \in 1 .. Len(s)
    BY <1>1, <2>2 DEF Members
  <2>3. CASE j = Len(s) + 1 /\ i = Len(s) + 1
    BY <1>1, <2>3
  <2> QED BY <1>2, <2>1, <2>2, <2>3
<1>4. Members(t) = Members(s) \cup {r}
  <2>1. \A i \in 1 .. Len(s) : i \in 1 .. Len(t)
    BY <1>1
  <2>2. Len(s) + 1 \in 1 .. Len(t)
    BY <1>1
  <2> QED BY <1>1, <1>2, <2>1, <2>2 DEF Members
<1> QED BY <1>3, <1>4 DEF t

LEMMA TailOrdered ==
  ASSUME NEW n \in Nat, NEW s \in Seq(1 .. n), Ordered(s), s # <<>>
  PROVE  /\ Ordered(Tail(s)) /\ Members(Tail(s)) \subseteq Members(s)
         /\ Head(s) \in Members(s) /\ \A x \in Members(s) : Head(s) <= x
<1>1. /\ Len(s) \in Nat /\ Len(s) # 0 /\ Len(Tail(s)) = Len(s) - 1
      /\ \A i \in 1 .. Len(Tail(s)) : Tail(s)[i] = s[i + 1]
      /\ Head(s) = s[1]
  BY HeadTailProperties, LenProperties
<1>2. \A i \in 1 .. Len(Tail(s)) : i + 1 \in 1 .. Len(s)
  BY <1>1
<1>3. 1 \in 1 .. Len(s)
  BY <1>1
<1> QED BY <1>1, <1>2, <1>3 DEF Ordered, Members

(* A request on its way, which is the newest of its link.                  *)
LEMMA ArrivesOrdered ==
  ASSUME NEW n \in Nat, NEW r \in 1 .. n, Arrives(r),
         uart_rx \in Seq(1 .. n), rx_queue \in Seq(1 .. n),
         Ordered(uart_rx), Ordered(rx_queue),
         reqs'[r].link = "uart" => \A x \in Members(uart_rx) : x <= r,
         reqs'[r].link # "uart" => \A x \in Members(rx_queue) : x <= r
  PROVE  /\ Ordered(uart_rx') /\ Ordered(rx_queue')
         /\ \A x \in Members(uart_rx') : x \in Members(uart_rx) \/ (x = r /\ reqs'[r].link = "uart")
         /\ \A x \in Members(rx_queue') : x \in Members(rx_queue) \/ (x = r /\ reqs'[r].link # "uart")
<1>1. CASE reqs'[r].link = "uart"
  <2>1. uart_rx' = Append(uart_rx, r) /\ UNCHANGED rx_queue
    BY <1>1 DEF Arrives, busVars
  <2>2. Ordered(uart_rx') /\ Members(uart_rx') = Members(uart_rx) \cup {r}
    BY <1>1, <2>1, AppendOrdered
  <2> QED BY <1>1, <2>1, <2>2 DEF Ordered, Members
<1>2. CASE reqs'[r].link # "uart"
  <2> DEFINE room == IF Len(rx_queue) >= RX_QUEUE_MAX THEN Tail(rx_queue) ELSE rx_queue
  <2>1. Len(rx_queue) >= RX_QUEUE_MAX => rx_queue # <<>>
    BY QueueAssumption, EmptySeq
  <2>2. room \in Seq(1 .. n) /\ Ordered(room) /\ Members(room) \subseteq Members(rx_queue)
    <3>1. CASE Len(rx_queue) >= RX_QUEUE_MAX
      BY <2>1, <3>1, HeadTailProperties, TailOrdered
    <3>2. CASE ~(Len(rx_queue) >= RX_QUEUE_MAX)
      BY <3>2
    <3> QED BY <3>1, <3>2
  <2>3. rx_queue' = Append(room, r) /\ UNCHANGED uart_rx
    BY <1>2 DEF Arrives, Deliver
  <2> HIDE DEF room
  <2>4. Ordered(rx_queue') /\ Members(rx_queue') = Members(room) \cup {r}
    BY <1>2, <2>2, <2>3, AppendOrdered
  <2> QED BY <1>2, <2>2, <2>3, <2>4 DEF Ordered, Members
<1> QED BY <1>1, <1>2

LEMMA MemberOfSeq ==
  ASSUME NEW S, NEW s \in Seq(S), NEW x \in Members(s)
  PROVE  x \in S
BY ElementOfSeq DEF Members

(* A request that is made or sent again is behind those of its link.       *)
LEMMA RequestOrdered ==
  ASSUME OnceInv, NEW q \in Kinds, Request(q)
  PROVE  OrderInv' /\ WindowInv'
<1>0. PICK n, r : n = Len(reqs) /\ r = n + 1
  OBVIOUS
<1>1. /\ reqs' = Append(reqs, q) /\ awaited' = [awaited EXCEPT ![q.link] = r]
      /\ Arrives(r) /\ UNCHANGED <<dedup, dedup_n, now, boots, runs>>
  BY <1>0 DEF Request, histVars
<1>2. /\ n \in Nat /\ reqs'[r] = q /\ Len(reqs') = r
      /\ \A i \in 1 .. n : reqs'[i] = reqs[i] /\ i \in 1 .. Len(reqs')
  BY <1>0, <1>1, AppendProperties, LenProperties DEF OnceInv, AskedInv, ReqsInv
<1>3. /\ uart_rx \in Seq(1 .. n) /\ rx_queue \in Seq(1 .. n)
      /\ \A x \in Members(uart_rx) \cup Members(rx_queue) : x \in 1 .. n
  BY <1>0, MemberOfSeq DEF OnceInv, AskedInv, UnderWayInv
<1>4. now \in Nat
  BY DEF OnceInv, WindowInv, RunsInv
<1>5. WindowInv'
  BY <1>0, <1>1, <1>2, <1>4, HistoryStands DEF OnceInv
<1>6. NewestInv'
  <2> SUFFICES ASSUME NEW link \in Link, awaited'[link] # 0
               PROVE  /\ reqs'[awaited'[link]].link = link
                      /\ \A i \in 1 .. r : reqs'[i].link = link => i <= awaited'[link]
    BY <1>2 DEF NewestInv
  <2>1. awaited \in [Link -> 0 .. n]
    BY <1>0 DEF OnceInv, AskedInv, UnderWayInv
  <2>2. CASE link = q.link
    <3>1. awaited'[link] = r
      BY <1>1, <2>1, <2>2
    <3> QED BY <1>2, <2>2, <3>1
  <2>3. CASE link # q.link
    <3>1. awaited'[link] = awaited[link] /\ awaited[link] \in 1 .. n
      BY <1>1, <1>2, <2>1, <2>3
    <3>2. /\ reqs[awaited[link]].link = link
          /\ \A i \in 1 .. n : reqs[i].link = link => i <= awaited[link]
      BY <1>0, <3>1 DEF OnceInv, OrderInv, NewestInv
    <3>3. ASSUME NEW i \in 1 .. r, reqs'[i].link = link
          PROVE  i \in 1 .. n
      BY <1>0, <1>2, <2>3, <3>3
    <3> QED BY <1>2, <3>1, <3>2, <3>3
  <2> QED BY <2>2, <2>3
<1>7. \A k \in 1 .. Len(runs) : runs[k].req \in 1 .. n /\ RequestOf(k)' = RequestOf(k)
  BY <1>0, <1>1, <1>2 DEF OnceInv, WindowInv, RunsInv, RequestOf
<1>8. \A link : Follows(r, q.link)' /\ \A x \in 1 .. n : Follows(x, link) => Follows(x, link)'
  <2>1. \A x \in 1 .. n : x <= r
    BY <1>0, <1>2
  <2> QED BY <1>1, <1>2, <1>7, <2>1 DEF Follows
<1>9. /\ Ordered(uart_rx') /\ Ordered(rx_queue')
      /\ \A x \in Members(uart_rx') : x \in Members(uart_rx) \/ (x = r /\ q.link = "uart")
      /\ \A x \in Members(rx_queue') : x \in Members(rx_queue) \/ (x = r /\ q.link # "uart")
  <2>1. r \in Nat /\ r \in 1 .. r /\ \A x \in 1 .. n : x <= r
    BY <1>0, <1>2
  <2>2. uart_rx \in Seq(1 .. r) /\ rx_queue \in Seq(1 .. r)
    BY <1>2, <1>3, <2>1, SeqGrows
  <2>3. Ordered(uart_rx) /\ Ordered(rx_queue)
    BY DEF OnceInv, OrderInv
  <2> QED BY <1>1, <1>2, <1>3, <2>1, <2>2, <2>3, ArrivesOrdered
<1>10. q.link \in {"uart", "mqtt"}
  BY MgmtAssumption
<1>11. OrderInv'
  <2>1. \A x \in Members(uart_rx) : Follows(x, "uart")'
    BY <1>3, <1>8 DEF OnceInv, OrderInv
  <2>2. \A x \in Members(rx_queue) : Follows(x, "mqtt")'
    BY <1>3, <1>8 DEF OnceInv, OrderInv
  <2>3. \A x \in Members(uart_rx') : Follows(x, "uart")'
    BY <1>8, <1>9, <2>1
  <2>4. \A x \in Members(rx_queue') : Follows(x, "mqtt")'
    BY <1>8, <1>9, <1>10, <2>2
  <2> QED BY <1>6, <1>9, <2>3, <2>4 DEF OrderInv, Members
<1> QED BY <1>5, <1>11
LEMMA SendAgainOrdered ==
  ASSUME OnceInv, NEW link \in Link, SendAgain(link)
  PROVE  OrderInv' /\ WindowInv'
<1>0. PICK n, r : n = Len(reqs) /\ r = awaited[link]
  OBVIOUS
<1>1. /\ r # 0 /\ Arrives(r) /\ UNCHANGED <<reqs, awaited, dedup, dedup_n, now, boots, runs>>
  BY <1>0 DEF SendAgain, histVars
<1>2. /\ n \in Nat /\ r \in 1 .. n
      /\ uart_rx \in Seq(1 .. n) /\ rx_queue \in Seq(1 .. n)
      /\ \A x \in Members(uart_rx) \cup Members(rx_queue) : x \in 1 .. n
  BY <1>0, <1>1, LenProperties, MemberOfSeq DEF OnceInv, AskedInv, ReqsInv, UnderWayInv
<1>3. now \in Nat
  BY DEF OnceInv, WindowInv, RunsInv
<1>4. WindowInv'
  BY <1>1, <1>3, HistoryStands DEF OnceInv
<1>5. reqs[r].link = link /\ \A i \in 1 .. n : reqs[i].link = link => i <= r
  BY <1>0, <1>1 DEF OnceInv, OrderInv, NewestInv
<1>6. NewestInv'
  BY <1>1 DEF OnceInv, OrderInv, NewestInv
<1>7. \A x, l : Follows(x, l) => Follows(x, l)'
  BY <1>1 DEF Follows, RequestOf
<1>8. Follows(r, link)
  BY <1>0, <1>5 DEF Follows, OnceInv, WindowInv, RunsInv, RequestOf
<1>9. /\ Ordered(uart_rx') /\ Ordered(rx_queue')
      /\ \A x \in Members(uart_rx') : x \in Members(uart_rx) \/ (x = r /\ link = "uart")
      /\ \A x \in Members(rx_queue') : x \in Members(rx_queue) \/ (x = r /\ link # "uart")
  <2>1. Ordered(uart_rx) /\ Ordered(rx_queue)
    BY DEF OnceInv, OrderInv
  <2>2. reqs'[r].link = link
    BY <1>1, <1>5
  <2>3. link = "uart" => \A x \in Members(uart_rx) : x <= r
    BY <1>2, <1>5 DEF OnceInv, OrderInv, Follows
  <2>4. link # "uart" => \A x \in Members(rx_queue) : x <= r
    BY <1>2, <1>5 DEF OnceInv, OrderInv, Follows, Link
  <2> QED BY <1>1, <1>2, <2>1, <2>2, <2>3, <2>4, ArrivesOrdered
<1>10. OrderInv'
  <2>1. \A x \in Members(uart_rx') : Follows(x, "uart")'
    BY <1>7, <1>8, <1>9 DEF OnceInv, OrderInv
  <2>2. \A x \in Members(rx_queue') : Follows(x, "mqtt")'
    BY <1>7, <1>8, <1>9 DEF OnceInv, OrderInv, Link
  <2> QED BY <1>6, <1>9, <2>1, <2>2 DEF OrderInv, Members
<1> QED BY <1>4, <1>10

(* The oldest request of a link is served.                                 *)
LEMMA HandleOnce ==
  ASSUME IdsApart, OnceInv, NEW r \in 1 .. Len(reqs), NEW arrives, Handle(r, arrives),
         Follows(r, reqs[r].link)
  PROVE  /\ WindowInv' /\ NewestInv'
         /\ \A x \in Nat : \A link :
              Follows(x, link) /\ (reqs[r].link = link => r <= x) => Follows(x, link)'
<1> DEFINE new == [req |-> r, at |-> now, boot |-> boots]
           q == reqs[r]
<1>1. UNCHANGED <<now, reqs, boots>>
  BY DEF Handle
<1>2. now \in Nat
  BY DEF OnceInv, WindowInv, RunsInv
<1>3. NewestInv'
  <2>1. awaited' \in {awaited, [awaited EXCEPT ![q.link] = 0]}
    BY DEF Handle, Answer
  <2>2. awaited \in [Link -> 0 .. Len(reqs)]
    BY DEF OnceInv, AskedInv, UnderWayInv
  <2>3. \A link \in Link : awaited'[link] \in {awaited[link], 0}
    BY <2>1, <2>2
  <2> QED BY <1>1, <2>3 DEF OnceInv, OrderInv, NewestInv
<1>4. CASE q.id # NoId /\ IsRepeated(q)
  <2>1. UNCHANGED <<runs, dedup, dedup_n>>
    BY <1>4 DEF Handle
  <2>2. WindowInv'
    BY <1>1, <1>2, <2>1, HistoryStands DEF OnceInv
  <2>3. \A x, link : Follows(x, link) => Follows(x, link)'
    BY <1>1, <2>1 DEF Follows, RequestOf
  <2> QED BY <1>3, <2>2, <2>3
<1>5. CASE ~(q.id # NoId /\ IsRepeated(q))
  <2>1. /\ runs' = Append(runs, new)
        /\ q.id = NoId => UNCHANGED <<dedup, dedup_n>>
        /\ q.id # NoId => ~IsRepeated(q) /\ Remember(r)
    BY <1>5 DEF Handle, Execute
  <2>2. WindowInv'
    BY <1>1, <2>1, ExecutedKeeps DEF OnceInv, Follows
  <2>3. /\ Len(runs) \in Nat /\ Len(runs') = Len(runs) + 1 /\ runs'[Len(runs) + 1] = new
        /\ \A k \in 1 .. Len(runs) : runs'[k] = runs[k]
    <3>1. new \in [req : Nat, at : Nat, boot : Nat]
      BY DEF OnceInv, WindowInv, RunsInv
    <3>2. runs \in Seq([req : Nat, at : Nat, boot : Nat])
      BY DEF OnceInv, WindowInv, RunsInv
    <3> HIDE DEF new
    <3> QED BY <2>1, <3>1, <3>2, AppendProperties, LenProperties
  <2>4. \A k \in 1 .. Len(runs') : k \in 1 .. Len(runs) \/ k = Len(runs) + 1
    BY <2>3
  <2>5. ASSUME NEW x \in Nat, NEW link, Follows(x, link), reqs[r].link = link => r <= x
        PROVE  Follows(x, link)'
    <3>1. reqs'[x].link = link
      BY <1>1, <2>5 DEF Follows
    <3>2. ASSUME NEW k \in 1 .. Len(runs'), runs'[k].boot = boots, reqs[runs'[k].req].link = link
          PROVE  runs'[k].req <= x
      <4>1. CASE k \in 1 .. Len(runs)
        BY <2>3, <2>5, <3>2, <4>1 DEF Follows, RequestOf
      <4>2. CASE k = Len(runs) + 1
        BY <2>3, <2>5, <3>2, <4>2
      <4> QED BY <2>4, <4>1, <4>2
    <3> QED BY <1>1, <3>1, <3>2 DEF Follows, RequestOf
  <2> QED BY <1>3, <2>2, <2>5
<1> QED BY <1>4, <1>5

LEMMA ServeOnce ==
  ASSUME IdsApart, OnceInv, ServeUart \/ ServeMqtt
  PROVE  OrderInv' /\ WindowInv'
<1>0. PICK n : n = Len(reqs)
  OBVIOUS
<1>1. /\ n \in Nat /\ uart_rx \in Seq(1 .. n) /\ rx_queue \in Seq(1 .. n)
      /\ \A x \in Members(uart_rx) \cup Members(rx_queue) : x \in 1 .. n /\ x \in Nat
  BY <1>0, LenProperties, MemberOfSeq DEF OnceInv, AskedInv, ReqsInv, UnderWayInv
<1>2. /\ Ordered(uart_rx) /\ \A x \in Members(uart_rx) : Follows(x, "uart")
      /\ Ordered(rx_queue) /\ \A x \in Members(rx_queue) : Follows(x, "mqtt")
  BY DEF OnceInv, OrderInv
<1>3. CASE ServeUart
  <2>1. PICK r, arrives : /\ uart_rx # <<>> /\ r = Head(uart_rx) /\ uart_rx' = Tail(uart_rx)
                          /\ UNCHANGED rx_queue /\ Handle(r, arrives)
    BY <1>3 DEF ServeUart, busVars
  <2>2. /\ Ordered(uart_rx') /\ Members(uart_rx') \subseteq Members(uart_rx)
        /\ r \in Members(uart_rx) /\ \A x \in Members(uart_rx) : r <= x
    BY <1>1, <1>2, <2>1, TailOrdered
  <2>3. Follows(r, "uart") /\ reqs[r].link = "uart" /\ r \in 1 .. n
    BY <1>1, <1>2, <2>2 DEF Follows
  <2>4. /\ WindowInv' /\ NewestInv'
        /\ \A x \in Nat : \A link :
              Follows(x, link) /\ ("uart" = link => r <= x) => Follows(x, link)'
    BY <1>0, <2>1, <2>3, HandleOnce
  <2>5. \A x \in Members(uart_rx') : Follows(x, "uart")'
    BY <1>1, <1>2, <2>2, <2>4
  <2>6. \A x \in Members(rx_queue') : Follows(x, "mqtt")'
    BY <1>1, <1>2, <2>1, <2>4
  <2> QED BY <1>2, <2>1, <2>2, <2>4, <2>5, <2>6 DEF OrderInv, Members, Ordered
<1>4. CASE ServeMqtt
  <2>1. PICK r, arrives : /\ rx_queue # <<>> /\ r = Head(rx_queue) /\ rx_queue' = Tail(rx_queue)
                          /\ UNCHANGED uart_rx /\ Handle(r, arrives)
    BY <1>4 DEF ServeMqtt, TakeMessage
  <2>2. /\ Ordered(rx_queue') /\ Members(rx_queue') \subseteq Members(rx_queue)
        /\ r \in Members(rx_queue) /\ \A x \in Members(rx_queue) : r <= x
    BY <1>1, <1>2, <2>1, TailOrdered
  <2>3. Follows(r, "mqtt") /\ reqs[r].link = "mqtt" /\ r \in 1 .. n
    BY <1>1, <1>2, <2>2 DEF Follows
  <2>4. /\ WindowInv' /\ NewestInv'
        /\ \A x \in Nat : \A link :
              Follows(x, link) /\ ("mqtt" = link => r <= x) => Follows(x, link)'
    BY <1>0, <2>1, <2>3, HandleOnce
  <2>5. \A x \in Members(rx_queue') : Follows(x, "mqtt")'
    BY <1>1, <1>2, <2>2, <2>4
  <2>6. \A x \in Members(uart_rx') : Follows(x, "uart")'
    BY <1>1, <1>2, <2>1, <2>4
  <2> QED BY <1>2, <2>1, <2>2, <2>4, <2>5, <2>6 DEF OrderInv, Members, Ordered
<1> QED BY <1>3, <1>4

(* Connections, time and boots.                                            *)
LEMMA RestOnce ==
  ASSUME OnceInv, Connection \/ Tick \/ Reboot \/ PowerLoss \/ UNCHANGED vars
  PROVE  OrderInv' /\ WindowInv'
<1>1. now \in Nat
  BY DEF OnceInv, WindowInv, RunsInv
<1>2. CASE Connection \/ Tick \/ UNCHANGED vars
  <2>1. /\ UNCHANGED <<reqs, uart_rx, rx_queue, awaited, dedup, dedup_n, boots, runs>>
        /\ now' \in {now, now + 1}
    BY <1>2 DEF Connection, CreateClient, Open, Conack, LinkDown, DisconnectOrError, Tick,
                vars, busVars, worldVars, histVars
  <2>2. now' \in Nat /\ now' >= now
    BY <1>1, <2>1
  <2>3. WindowInv'
    BY <2>1, <2>2, HistoryStands DEF OnceInv
  <2>4. \A x, link : Follows(x, link) => Follows(x, link)'
    BY <2>1 DEF Follows, RequestOf
  <2>5. NewestInv'
    BY <2>1 DEF OnceInv, OrderInv, NewestInv
  <2> QED BY <2>1, <2>3, <2>4, <2>5 DEF OnceInv, OrderInv, Members, Ordered
<1>3. CASE Reboot \/ PowerLoss
  <2>1. /\ uart_rx' = <<>> /\ rx_queue' = <<>> /\ DOMAIN dedup' = {} /\ dedup_n' = 0
        /\ boots' = boots + 1 /\ UNCHANGED <<now, reqs, awaited, runs>>
    BY <1>3 DEF Reboot, PowerLoss, Restart, BusReset
  <2>2. WindowInv'
    BY <2>1, RestartForgets DEF OnceInv
  <2>3. NewestInv'
    BY <2>1 DEF OnceInv, OrderInv, NewestInv
  <2>4. Len(<<>>) = 0 /\ Members(<<>>) = {} /\ Ordered(<<>>)
    BY EmptySeq DEF Members, Ordered
  <2> QED BY <2>1, <2>2, <2>3, <2>4 DEF OrderInv, Members, Ordered
<1> QED BY <1>2, <1>3

(* Within the window of its last execution a request is not executed again *)
(* by the same boot, unless DEDUP_CAP others were executed since: the      *)
(* table gives up expired and oldest entries only (mgmt.lua:629-656), and  *)
(* an entry that another method of the same id replaces belongs to a       *)
(* request that its master has given up and whose copies, as links keep    *)
(* the order, have all been served before.  The masters' ids are apart.    *)
THEOREM ExecutedOnce ==
  ASSUME IdsApart
  PROVE  Spec => []OnceInWindow
<1>1. Init => OnceInv
  <2> SUFFICES ASSUME Init PROVE OrderInv /\ WindowInv
    BY InitAsks DEF OnceInv
  <2>1. /\ reqs = <<>> /\ uart_rx = <<>> /\ rx_queue = <<>> /\ runs = <<>>
        /\ awaited = [link \in Link |-> 0] /\ now = 0 /\ boots = 1
        /\ DOMAIN dedup = {} /\ dedup_n = 0
    BY DEF Init, BusInit
  <2>2. /\ Len(<<>>) = 0 /\ Members(<<>>) = {} /\ Ordered(<<>>)
        /\ \A S : <<>> \in Seq(S)
    BY EmptySeq DEF Members, Ordered
  <2>3. OrderInv
    BY <2>1, <2>2 DEF OrderInv, NewestInv
  <2>4. DOMAIN runs = {} /\ 1 .. Len(runs) = {}
    BY <2>1, <2>2
  <2>5. WindowInv
    BY <2>1, <2>2, <2>4, FS_EmptySet
       DEF WindowInv, RunsInv, TableInv, RememberedInv, OnceInWindow
  <2> QED BY <2>3, <2>5
<1>2. OnceInv /\ [Next]_vars => OnceInv'
  <2> SUFFICES ASSUME OnceInv, [Next]_vars PROVE OnceInv'
    OBVIOUS
  <2>1. CASE Masters
    <3>1. AskedInv'
      BY <2>1, RequestAsks, SendAgainAsks DEF Masters, OnceInv
    <3> QED BY <2>1, <3>1, RequestOrdered, SendAgainOrdered DEF Masters, OnceInv
  <2>2. CASE ServeUart \/ ServeMqtt
    BY <2>2, ServeAsks, ServeOnce DEF OnceInv
  <2>3. CASE Connection \/ Tick \/ Reboot \/ PowerLoss \/ UNCHANGED vars
    BY <2>3, RestAsks, RestOnce DEF OnceInv
  <2> QED BY <2>1, <2>2, <2>3 DEF Next
<1>3. OnceInv => OnceInWindow
  BY DEF OnceInv, WindowInv
<1> QED BY <1>1, <1>2, <1>3, PTL DEF Spec
=============================================================================
