------------------------------ MODULE MgmtUart ------------------------------
(***************************************************************************)
(* The management link of the air780epm firmware over UART1 (mgmt_uart):   *)
(* the receive callback moves bytes into a bounded buffer, the task cuts   *)
(* frames out of it, yields between them, and writes queued events.  What  *)
(* mgmt makes of a request is in MgmtRpc.                                  *)
(*                                                                         *)
(* Bytes are numbers and every offset is the code's; the CRC is a hash of  *)
(* 16 bits.  A message of sys.publish wakes the task if it waits, and is   *)
(* lost otherwise.  Line and master are external: frames, and noise,       *)
(* broken and cut off frames between them, in pieces of any length.        *)
(***************************************************************************)
EXTENDS Integers, Sequences

CONSTANTS
  Frames,             (* what the master sends: [type, id, payload]        *)
  Noise,              (* what else is on the line: sequences of bytes      *)
  MAXPAY,             (* MGMT_MAX_PAYLOAD                                  *)
  BLOB_MAX_PAYLOAD,
  MAXFRAME,           (* MGMT_MAX_FRAME_LEN                                *)
  BUFF,               (* MGMT_RX_BUFF_SIZE                                 *)
  BUDGET,             (* MGMT_PARSE_MAX_FRAMES                             *)
  EVT_QUEUE_MAX,
  MaxItems,           (* bound: frames and noises on the line              *)
  MaxEvents           (* bound: events                                     *)

ASSUME UartAssumption ==
  /\ Frames \subseteq [type : 0..255, id : 0..255, payload : Seq(0..255)]
  /\ Noise \subseteq Seq(0..255)
  /\ {MAXPAY, BLOB_MAX_PAYLOAD, MAXFRAME, MaxItems, MaxEvents} \subseteq Nat
  /\ {BUFF, BUDGET, EVT_QUEUE_MAX} \subseteq Nat \ {0}
  (* 1200 bytes for payloads of 1024 and 242 (mgmt_uart.lua:52, :177-178)  *)
  /\ MAXPAY + 8 <= MAXFRAME /\ BLOB_MAX_PAYLOAD + 8 <= MAXFRAME

VARIABLES
  at,           (* the task: "closed", it "waits" for a message, makes a   *)
                (* "turn", dispatches "frames", or "gives way"             *)
  rx,
  frames,       (* cut out of rx and not yet dispatched                    *)
  n,            (* dispatched since the task last gave way                 *)
  evt_queue,
  message,      (* MGMT_RX is published and not delivered                  *)
  line,         (* external: bytes on their way                            *)
  items, events,(* bounded: on the line so far, events so far              *)
  sent,         (* history: frames sent, [frame, first, last] with the     *)
                (* positions of their bytes                                *)
  got,          (* history: how many bytes were received                   *)
  cut,          (* history: the last one that was dropped unread           *)
  consumed,     (* history: bytes that the scanner has done with           *)
  handled       (* history: frames dispatched                              *)

lineVars == <<line, items, sent>>
rxVars == <<rx, got, cut, consumed>>
taskVars == <<frames, n, handled>>
vars == <<at, rxVars, taskVars, evt_queue, message, events, lineVars>>

-----------------------------------------------------------------------------
(* Frames                                                                  *)

SOF1 == 165
SOF2 == 90
VER == 1
TYPE_REQ == 1
TYPE_BLOB == 4

crc16(s) ==
  LET crc[i \in 0..Len(s)] == IF i = 0 THEN 7 ELSE (crc[i - 1] * 263 + s[i] + 1) % 65521
  IN  crc[Len(s)]

u16le(s, i) == s[i] + 256 * s[i + 1]

pack_u16le(v) == <<v % 256, v \div 256>>

build(f) ==
  LET body == <<VER, f.type, f.id>> \o pack_u16le(Len(f.payload)) \o f.payload
  IN  <<SOF1, SOF2>> \o body \o pack_u16le(crc16(body))

type_cap(ftype) == IF ftype = TYPE_BLOB THEN BLOB_MAX_PAYLOAD ELSE MAXPAY

From(s, i) == SubSeq(s, i, Len(s))

(* Positions from i where a frame may start.                               *)
Starts(buf, i) ==
  {p \in i..(Len(buf) - 1) : buf[p] = SOF1 /\ buf[p + 1] = SOF2}

Found(found, rest) == [frames |-> found, rest |-> rest]

(* Mutated form: what a broken frame says is its length is skipped.        *)
ResyncBehind(sof, total) == sof + total

(* Behind a frame that is refused the search goes on with its second byte. *)
Resync(sof, total) == sof + 1

(* Mutated form: nothing is kept when there is no start of a frame.        *)
NoStartEmpties(buf, i) == <<>>

(* The last byte may be the first half of a start.                         *)
NoStart(buf, i) == IF i > Len(buf) THEN <<>> ELSE <<buf[Len(buf)]>>

(* The first of them, and what the code reads behind it.                   *)
First(buf, i) == CHOOSE p \in Starts(buf, i) : \A q \in Starts(buf, i) : p <= q

LenAt(buf, sof) == u16le(buf, sof + 5)
Overlong(buf, sof) == LenAt(buf, sof) > type_cap(buf[sof + 3])

Short(buf, sof) ==
  LET have == Len(buf) - sof + 1
  IN  have < 9 \/ (~Overlong(buf, sof) /\ have < LenAt(buf, sof) + 9)

Intact(buf, sof) ==
  LET len == LenAt(buf, sof)
  IN  /\ ~Overlong(buf, sof)
      /\ buf[sof + 2] = VER
      /\ crc16(SubSeq(buf, sof + 2, sof + 6 + len)) = u16le(buf, sof + 7 + len)

FrameAt(buf, sof) ==
  [type |-> buf[sof + 3], id |-> buf[sof + 4],
   payload |-> SubSeq(buf, sof + 7, sof + 6 + LenAt(buf, sof))]

Taken(buf, sof) == IF Intact(buf, sof) THEN <<FrameAt(buf, sof)>> ELSE <<>>

Behind(buf, sof) ==
  LET total == LenAt(buf, sof) + 9
  IN  IF Intact(buf, sof) THEN sof + total
      ELSE IF Overlong(buf, sof) THEN sof + 1
      ELSE Resync(sof, total)

(* What the scanner finds from each position on.                           *)
scan_from(buf) ==
  LET from[i \in 1..(Len(buf) + 1)] ==
        IF Starts(buf, i) = {} THEN Found(<<>>, NoStart(buf, i))
        ELSE IF Short(buf, First(buf, i)) THEN Found(<<>>, From(buf, First(buf, i)))
        ELSE LET sof == First(buf, i)
                 s == from[Behind(buf, sof)]
             IN  Found(Taken(buf, sof) \o s.frames, s.rest)
  IN  from

scan(buf) == scan_from(buf)[1]

-----------------------------------------------------------------------------
(* The line                                                                *)

Items == {build(f) : f \in Frames} \cup Noise

(* For each k, the first k of what was put on the line, one behind the     *)
(* other.                                                                  *)
Stream(its) ==
  LET upto[k \in 0..Len(its)] == IF k = 0 THEN <<>> ELSE upto[k - 1] \o its[k]
  IN  upto

(* The master keeps to the longest payloads, and noise is no frame: not    *)
(* alone, nor with what comes before and behind it.  Of noise on a real    *)
(* line a check sum of 16 bits leaves one in 65536.                        *)
ASSUME LineAssumption ==
  /\ \A f \in Frames : Len(f.payload) <= type_cap(f.type)
  /\ \A k \in 0..MaxItems : \A its \in [1..k -> Items] :
       LET upto == Stream(its) IN
       \A p \in Starts(upto[k], 1) :
         ~Short(upto[k], p) /\ Intact(upto[k], p) =>
           \E i \in 1..k : its[i] \notin Noise /\ p = Len(upto[i - 1]) + 1

-----------------------------------------------------------------------------

LastOf(s, k) == IF Len(s) > k THEN From(s, Len(s) - k + 1) ELSE s

Init ==
  /\ at = "closed"
  /\ rx = <<>> /\ got = 0 /\ cut = 0 /\ consumed = <<>>
  /\ frames = <<>> /\ n = 0 /\ handled = <<>>
  /\ evt_queue = <<>> /\ message = FALSE /\ events = 0
  /\ line = <<>> /\ items = 0 /\ sent = <<>>

(* Nothing else runs before the task waits or gives way.                   *)
Yielded == at \in {"closed", "waits", "gives way"}

-----------------------------------------------------------------------------
(* What comes                                                              *)

Puts(bytes) ==
  /\ items < MaxItems
  /\ items' = items + 1
  /\ line' = line \o bytes
  /\ UNCHANGED <<at, rxVars, taskVars, evt_queue, message, events>>

Sends(f) ==
  LET before == got + Len(line) IN
  /\ Puts(build(f))
  /\ sent' = Append(sent, [frame |-> f, first |-> before + 1, last |-> before + Len(build(f))])

Disturbs(bytes) == Puts(bytes) /\ UNCHANGED sent

(* on_receive moves what there is, and keeps the end if it is too much.    *)
on_receive(k) ==
  /\ Yielded /\ at # "closed"
  /\ k <= Len(line)
  /\ rx' = LastOf(rx \o SubSeq(line, 1, k), BUFF)
  /\ cut' = IF Len(rx) + k > BUFF THEN got + k - BUFF ELSE cut
  /\ got' = got + k
  /\ line' = From(line, k + 1)
  /\ message' = TRUE
  /\ UNCHANGED <<at, taskVars, evt_queue, events, items, sent, consumed>>

(* An event of mgmt is queued, in place of the oldest when there are too   *)
(* many, and the task is told.                                             *)
queue_evt ==
  /\ Yielded
  /\ events < MaxEvents
  /\ events' = events + 1
  /\ evt_queue' = Append(LastOf(evt_queue, EVT_QUEUE_MAX - 1), events')
  /\ message' = TRUE
  /\ UNCHANGED <<at, rxVars, taskVars, lineVars>>

-----------------------------------------------------------------------------
(* The task                                                                *)

(* uart.setup succeeds, after any number of failures.  Here and whenever a *)
(* wait ends the task writes the events, and waits again.                  *)
Waits ==
  /\ at' = "waits" /\ evt_queue' = <<>>

Opens ==
  /\ at = "closed"
  /\ Waits
  /\ UNCHANGED <<rxVars, taskVars, message, events, lineVars>>

(* The second of waitUntil is over: the buffer is not looked at.           *)
Timeout ==
  /\ at = "waits" /\ evt_queue # <<>>
  /\ Waits
  /\ UNCHANGED <<rxVars, taskVars, message, events, lineVars>>

(* MGMT_RX reaches a task that waits, or nobody.                           *)
Delivers ==
  /\ Yielded /\ message
  /\ message' = FALSE
  /\ IF at = "waits" THEN at' = "turn" /\ n' = 0 ELSE UNCHANGED <<at, n>>
  /\ UNCHANGED <<rxVars, frames, handled, evt_queue, events, lineVars>>

(* One turn of process_rx takes all frames there are; without any it ends. *)
Turn ==
  LET s == scan(rx) IN
  /\ at = "turn"
  /\ IF Len(rx) < 9
     THEN Waits /\ UNCHANGED <<rxVars, frames>>
     ELSE /\ consumed' = consumed \o SubSeq(rx, 1, Len(rx) - Len(s.rest))
          /\ frames' = s.frames
          /\ UNCHANGED got
          /\ IF s.frames # <<>>
             THEN at' = "frames" /\ rx' = s.rest /\ UNCHANGED <<evt_queue, cut>>
             ELSE /\ Waits
                  /\ rx' = LastOf(s.rest, MAXFRAME)
                  /\ cut' = IF Len(s.rest) > MAXFRAME THEN got - MAXFRAME ELSE cut
  /\ UNCHANGED <<n, handled, message, events, lineVars>>

(* Mutated form: the buffer is scanned once for a message.                 *)
BehindFramesWaits == "waits"

(* What came while the task gave way is scanned as well.                   *)
BehindFrames == "turn"

Dispatch ==
  /\ at = "frames"
  /\ IF frames = <<>>
     THEN at' = BehindFrames /\ UNCHANGED taskVars
     ELSE /\ handled' = Append(handled, Head(frames)) /\ frames' = Tail(frames)
          /\ IF n + 1 < BUDGET
             THEN n' = n + 1 /\ UNCHANGED at
             ELSE n' = 0 /\ at' = "gives way"
  /\ UNCHANGED <<rxVars, evt_queue, message, events, lineVars>>

Resumes ==
  /\ at = "gives way"
  /\ at' = "frames"
  /\ UNCHANGED <<rxVars, taskVars, evt_queue, message, events, lineVars>>

Next ==
  \/ \E f \in Frames : Sends(f)
  \/ \E bytes \in Noise : Disturbs(bytes)
  \/ \E k \in 1..Len(line) : on_receive(k)
  \/ queue_evt
  \/ Opens \/ Timeout \/ Delivers \/ Turn \/ Dispatch \/ Resumes

Spec == Init /\ [][Next]_vars

-----------------------------------------------------------------------------
(* Properties                                                              *)

(* In whichever pieces the bytes came, the frames cut out of them are      *)
(* those of all of them at once, unless an overflow dropped some           *)
(* (mgmt_uart.lua:90-94, "frames, rest").                                  *)
PiecesDontMatter ==
  cut = 0 => scan(consumed \o rx).frames = handled \o frames \o scan(rx).frames

(* Only what was sent is handled, in order, and once; and noise, a broken  *)
(* frame or an overflow costs no later frame, as soon as as many bytes     *)
(* have come as the longest frame has that noise may promise               *)
(* (mgmt_uart.lua:122-155, resynchronization).                             *)
IntactIsHandled ==
  LET cap == IF MAXPAY > BLOB_MAX_PAYLOAD THEN MAXPAY ELSE BLOB_MAX_PAYLOAD
      Resolved(s) == s.first > cut /\ s.last <= got /\ s.first + cap + 6 <= got
  IN  at = "waits" /\ ~message =>
        \E pick \in [DOMAIN handled -> DOMAIN sent] :
          /\ \A j \in DOMAIN handled : handled[j] = sent[pick[j]].frame
          /\ \A j, k \in DOMAIN handled : j < k => pick[j] < pick[k]
          /\ \A i \in DOMAIN sent : Resolved(sent[i]) => \E j \in DOMAIN handled : pick[j] = i

(* A task that waits and has not been told anything has nothing to do: no  *)
(* frame and no event was left behind by a message that came while the     *)
(* task was away (mgmt_uart.lua:314-340, 473-480).                         *)
NothingWaits ==
  at = "waits" /\ ~message => evt_queue = <<>> /\ scan(rx).frames = <<>>
=============================================================================
