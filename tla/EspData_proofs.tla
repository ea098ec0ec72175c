----------------------------- MODULE EspData_proofs -----------------------------
(***************************************************************************)
(* What becomes of the battery's data in the esp32 firmware.  First the    *)
(* snapshot, for every length of the vehicle's buffer and of an RPC read,  *)
(* and every number of requests, calls and failures: what the polling task *)
(* asked for is kept apart, and so is a charge time the vehicle has        *)
(* written.  Then the history, for all snapshots and sizes: what is        *)
(* published reads as the snapshots it was made from, and is no longer     *)
(* than a plain encoding.                                                  *)
(***************************************************************************)
EXTENDS EspBms, EspHist, SequenceTheorems, WellFoundedInduction, TLAPS


Rounds == {"cells", "cell_stats", "stats"}
Infos == {"info", "cell_count", "capacity", "time"}

(* The round's block that will be asked for with no pause in between.      *)
Upcoming(j) ==
  IF j.at \in Rounds THEN j.at
  ELSE IF j.back = "cells" /\ j.at \in Infos \cup {"check"} THEN "cells"
  ELSE "none"

OwedAnswers == [count : Int, by : {"jk", "rpc"}, late : BOOLEAN]

JkShape ==
  /\ jk \in [at : Rounds \cup Infos \cup {"none", "check", "apply", "sleep"},
             ok : SUBSET Rounds, mixed : SUBSET {"jk", "rpc"}, back : {"cells", "apply"}]
  /\ s_snapshot \in Snapshots

JkType == JkShape /\ owed \in Seq(OwedAnswers)

(* The last answer owed is that of the last request.  While a task has the *)
(* bus it is the task's own, and an older one that the polling task itself *)
(* asked for cannot be taken for an answer to a block of the round.        *)
OwedInv ==
  /\ bus = "jk" =>
       /\ jk.at \in Rounds \cup Infos
       /\ Len(owed) \in 1 .. 2
       /\ owed[Len(owed)] = [count |-> Count[jk.at], by |-> "jk", late |-> FALSE]
       /\ Len(owed) = 2 /\ jk.at \in Rounds /\ owed[1].by = "jk" =>
            owed[1].count # Count[jk.at]
  /\ bus = "rpc" =>
       /\ Len(owed) \in 1 .. 2
       /\ owed[Len(owed)].by = "rpc"
  /\ bus = "free" =>
       /\ Len(owed) \in 0 .. 2
       /\ Len(owed) # 0 /\ Upcoming(jk) # "none" /\ owed[Len(owed)].by = "jk" =>
            owed[Len(owed)].count # Count[Upcoming(jk)]

RoundInv ==
  /\ JkType /\ OwedInv /\ bus \in {"free", "jk", "rpc"}
  /\ "jk" \notin jk.mixed /\ "jk" \notin s_snapshot.mixed

-----------------------------------------------------------------------------
(* The tables, entry by entry.                                             *)
LEMMA Tables ==
  /\ Range(RoundBlocks) = Rounds /\ Range(InfoBlocks) = Infos
  /\ Blocks = Rounds \cup Infos
  /\ Count["cells"] = 32 /\ Count["cell_stats"] = 4 /\ Count["stats"] = 58
  /\ Count["info"] = 20 /\ Count["cell_count"] = 2 /\ Count["capacity"] = 2
  /\ Count["time"] = 1
<1>1. Range(RoundBlocks) = Rounds
  <2>1. DOMAIN RoundBlocks = 1 .. 3
    BY DEF RoundBlocks
  <2> QED BY <2>1 DEF Range, RoundBlocks, Rounds
<1>2. Range(InfoBlocks) = Infos
  <2>1. DOMAIN InfoBlocks = 1 .. 4
    BY DEF InfoBlocks
  <2> QED BY <2>1 DEF Range, InfoBlocks, Infos
<1>3. /\ Count["cells"] = 32 /\ Count["cell_stats"] = 4 /\ Count["stats"] = 58
      /\ Count["info"] = 20 /\ Count["cell_count"] = 2 /\ Count["capacity"] = 2
      /\ Count["time"] = 1
  BY DEF Count
<1> QED BY <1>1, <1>2, <1>3 DEF Blocks

(* The counts of a round's blocks differ from one another and from those   *)
(* of the configuration.                                                   *)
LEMMA CountsDiffer ==
  /\ \A b \in Rounds \cup Infos : Count[b] \in Int
  /\ \A b \in Rounds \cup Infos, r \in Rounds : b # r => Count[b] # Count[r]
BY Tables DEF Rounds, Infos

-----------------------------------------------------------------------------
(* A transaction's request: of what is owed the last stays, before its own *)
(* answer.                                                                 *)
LEMMA Begun ==
  ASSUME JkType, OwedInv, NEW task \in {"jk", "rpc"}, NEW count \in Int, Begins(task, count)
  PROVE  /\ bus = "free" /\ bus' = task
         /\ owed' \in Seq(OwedAnswers)
         /\ Len(owed') \in 1 .. 2
         /\ owed'[Len(owed')] = [count |-> count, by |-> task, late |-> FALSE]
         /\ Len(owed') = 2 =>
              /\ Len(owed) # 0 /\ owed'[1].count = owed[Len(owed)].count
              /\ owed'[1].by = owed[Len(owed)].by
<1> DEFINE own == [count |-> count, by |-> task, late |-> FALSE]
           old == [Last(owed) EXCEPT !.late = TRUE]
<1>1. bus = "free" /\ bus' = task
  BY DEF Begins
<1>2. own \in OwedAnswers
  BY DEF OwedAnswers
<1>3. CASE owed = <<>>
  <2>1. owed' = <<own>>
    BY <1>2, <1>3 DEF Begins
  <2> QED BY <1>1, <1>2, <2>1
<1>4. CASE owed # <<>>
  <2>1. Len(owed) # 0 /\ owed[Len(owed)] \in OwedAnswers
    BY <1>4, EmptySeq DEF JkType
  <2>2. /\ old \in OwedAnswers
        /\ old.count = owed[Len(owed)].count /\ old.by = owed[Len(owed)].by
    BY <2>1 DEF Last, OwedAnswers
  <2>3. owed' = <<old>> \o <<own>>
    BY <1>4 DEF Begins
  <2> HIDE DEF old, own
  <2>4. /\ owed' \in Seq(OwedAnswers) /\ Len(owed') = 2
        /\ owed'[1] = old /\ owed'[2] = own
    <3> DEFINE first == <<old>>
               second == <<own>>
    <3>1. /\ first \in Seq(OwedAnswers) /\ second \in Seq(OwedAnswers)
          /\ Len(first) = 1 /\ Len(second) = 1
          /\ first[1] = old /\ second[1] = own
      BY <1>2, <2>2
    <3>2. owed' = first \o second
      BY <2>3
    <3> HIDE DEF first, second
    <3>3. /\ first \o second \in Seq(OwedAnswers)
          /\ Len(first \o second) = Len(first) + Len(second)
          /\ \A i \in 1 .. Len(first) + Len(second) :
               (first \o second)[i] = IF i <= Len(first) THEN first[i] ELSE second[i - Len(first)]
      BY <3>1, ConcatProperties
    <3>4. (first \o second)[1] = first[1] /\ (first \o second)[2] = second[1]
      BY <3>1, <3>3
    <3> QED BY <3>1, <3>2, <3>3, <3>4
  <2> QED BY <1>1, <2>1, <2>2, <2>4 DEF own
<1> QED BY <1>3, <1>4

(* Its end: what is still owed after it ends with its own answer.          *)
LEMMA Ended ==
  ASSUME JkType, OwedInv, NEW task \in {"jk", "rpc"}, NEW answer \in Outcomes,
         Ends(task, answer)
  PROVE  /\ bus = task /\ bus' = "free"
         /\ owed' \in Seq(OwedAnswers)
         /\ Len(owed') \in 0 .. 2
         /\ Len(owed') # 0 => owed'[Len(owed')] = owed[Len(owed)]
         /\ answer # NoAnswer => answer = owed[1]
<1>1. bus = task /\ bus' = "free" /\ Len(owed) \in 1 .. 2
  BY DEF Ends, OwedInv
<1>2. owed' \in {owed, Tail(owed), <<>>}
  BY DEF Ends
<1>3. answer # NoAnswer => answer = owed[1]
  BY DEF Outcomes
<1>4. /\ Tail(owed) \in Seq(OwedAnswers)
      /\ Len(Tail(owed)) = Len(owed) - 1
      /\ Len(owed) = 2 => Tail(owed)[1] = owed[2]
  <2>1. owed # <<>>
    BY <1>1
  <2> QED BY <1>1, <2>1, HeadTailProperties DEF JkType
<1>5. CASE owed' = owed
  BY <1>1, <1>3, <1>5 DEF JkType
<1>6. CASE owed' = Tail(owed)
  BY <1>1, <1>3, <1>4, <1>6
<1>7. CASE owed' = <<>>
  BY <1>1, <1>3, <1>7
<1> QED BY <1>2, <1>5, <1>6, <1>7

-----------------------------------------------------------------------------
(* An RPC call, of whatever length, leaves an answer that is not the       *)
(* polling task's.                                                         *)
LEMMA RpcKeeps ==
  ASSUME RoundInv, RpcBegins \/ RpcEnds
  PROVE  RoundInv'
<1> USE DEF RoundInv
<1>1. UNCHANGED <<jk, s_snapshot>>
  BY DEF RpcBegins, RpcEnds, pollVars, Keeps
<1>2. \A c \in RpcCounts \cup {Acknowledged} : c \in Int
  BY BmsAssumption DEF Acknowledged
<1>3. CASE RpcBegins
  <2>1. PICK count \in RpcCounts \cup {Acknowledged} : Begins("rpc", count)
    BY <1>3 DEF RpcBegins
  <2>2. /\ bus' = "rpc" /\ owed' \in Seq(OwedAnswers) /\ Len(owed') \in 1 .. 2
        /\ owed'[Len(owed')] = [count |-> count, by |-> "rpc", late |-> FALSE]
    BY <1>2, <2>1, Begun
  <2>3. owed'[Len(owed')].by = "rpc"
    BY <2>2
  <2> QED BY <1>1, <2>2, <2>3 DEF JkType, JkShape, OwedInv
<1>4. CASE RpcEnds
  <2>1. PICK answer \in Outcomes : Ends("rpc", answer)
    BY <1>4 DEF RpcEnds
  <2>2. /\ bus = "rpc" /\ bus' = "free" /\ owed' \in Seq(OwedAnswers) /\ Len(owed') \in 0 .. 2
        /\ Len(owed') # 0 => owed'[Len(owed')] = owed[Len(owed)]
    BY <2>1, Ended
  <2> QED BY <1>1, <2>2 DEF JkType, JkShape, OwedInv
<1> QED BY <1>3, <1>4

LEMMA JkBeginsKeeps ==
  ASSUME RoundInv, JkBegins
  PROVE  RoundInv'
<1> USE DEF RoundInv
<1>1. UNCHANGED <<jk, s_snapshot>> /\ jk.at \in Rounds \cup Infos /\ Begins("jk", Count[jk.at])
  BY Tables DEF JkBegins, pollVars, Keeps
<1>2. Count[jk.at] \in Int
  BY <1>1, CountsDiffer
<1>3. jk.at \in Rounds => Upcoming(jk) = jk.at /\ jk.at # "none"
  BY DEF Upcoming, Rounds
<1> QED BY <1>1, <1>2, <1>3, Begun DEF JkType, JkShape, OwedInv

(* Where the polling task goes when a transaction has ended, and what it   *)
(* puts into the snapshot at once.                                         *)
LEMMA JkMoves ==
  ASSUME JkShape, jk.at \in Rounds \cup Infos, JkEnds
  PROVE  /\ JkShape' /\ jk'.at # "time" /\ s_snapshot'.mixed = s_snapshot.mixed
         /\ jk.at # "time" => s_snapshot' = s_snapshot
         /\ Upcoming(jk') # "none" => Upcoming(jk') \in Rounds \ {jk.at}
<1> DEFINE polls == IF jk.at = "stats" THEN (s_poll_count + 1) % Refresh ELSE s_poll_count
           next == IF jk.at = "time" THEN jk.back ELSE After(jk.at, polls)
<1>1. PICK answer \in Outcomes :
        /\ jk' = [jk EXCEPT
                   !.at = next,
                   !.ok = IF Accepts(answer, Count[jk.at]) /\ jk.at \in Range(RoundBlocks)
                            THEN @ \cup {jk.at} ELSE @,
                   !.mixed = IF jk.at \in Range(RoundBlocks)
                               THEN @ \cup Mixed(answer, Count[jk.at]) ELSE @,
                   !.back = IF jk.at = "stats" THEN "apply" ELSE @]
        /\ s_snapshot' = IF jk.at = "time" /\ Accepts(answer, Count[jk.at])
                           THEN [s_snapshot EXCEPT !.time = "battery"] ELSE s_snapshot
  BY DEF JkEnds
<1>2. /\ jk.at = "time" => next = jk.back
      /\ jk.at = "cells" => next = "cell_stats"
      /\ jk.at = "cell_stats" => next = "stats"
      /\ jk.at = "stats" => next \in {"info", "apply"}
      /\ jk.at = "info" => next = "cell_count"
      /\ jk.at = "cell_count" => next = "capacity"
      /\ jk.at = "capacity" => next = "check"
  BY DEF After
<1>3. /\ jk'.at = next /\ jk'.back = IF jk.at = "stats" THEN "apply" ELSE jk.back
      /\ jk'.ok \in SUBSET Rounds
      /\ jk' = [at |-> jk'.at, ok |-> jk'.ok, mixed |-> jk'.mixed, back |-> jk'.back]
      /\ jk'.mixed \in SUBSET {"jk", "rpc"}
  BY <1>1, Tables DEF JkShape, Mixed
<1> HIDE DEF next
<1>4. next \in Rounds \cup Infos \cup {"none", "check", "apply", "sleep"} /\ next # "time"
  BY <1>2 DEF JkShape, Rounds, Infos
<1>5. /\ s_snapshot' \in Snapshots /\ s_snapshot'.mixed = s_snapshot.mixed
      /\ jk.at # "time" => s_snapshot' = s_snapshot
  BY <1>1 DEF JkShape, Snapshots
<1>6. Upcoming(jk') # "none" => Upcoming(jk') \in Rounds \ {jk.at}
  BY <1>2, <1>3 DEF Upcoming, Rounds, Infos, JkShape
<1> QED BY <1>3, <1>4, <1>5, <1>6 DEF JkShape

(* A block of the round is filled from its own answer, from a call's or not*)
(* at all.                                                                 *)
LEMMA JkEndsKeeps ==
  ASSUME RoundInv, JkEnds
  PROVE  RoundInv'
<1> USE DEF RoundInv
<1>1. PICK answer \in Outcomes :
        /\ Ends("jk", answer)
        /\ jk'.mixed = IF jk.at \in Rounds THEN jk.mixed \cup Mixed(answer, Count[jk.at])
                         ELSE jk.mixed
  BY Tables DEF JkEnds, JkType, JkShape
<1>2. /\ bus = "jk" /\ bus' = "free"
      /\ owed' \in Seq(OwedAnswers)
      /\ Len(owed') \in 0 .. 2
      /\ Len(owed') # 0 => owed'[Len(owed')] = owed[Len(owed)]
      /\ answer # NoAnswer => answer = owed[1]
  BY <1>1, Ended
<1>3. /\ jk.at \in Rounds \cup Infos
      /\ Len(owed) \in 1 .. 2
      /\ owed[Len(owed)] = [count |-> Count[jk.at], by |-> "jk", late |-> FALSE]
      /\ Len(owed) = 2 /\ jk.at \in Rounds /\ owed[1].by = "jk" =>
           owed[1].count # Count[jk.at]
  BY <1>2 DEF OwedInv
<1>4. jk.at \in Rounds => "jk" \notin Mixed(answer, Count[jk.at])
  <2>1. CASE answer = NoAnswer
    BY <2>1 DEF NoAnswer, Mixed
  <2>2. CASE answer # NoAnswer /\ Len(owed) = 1
    <3>1. answer = [count |-> Count[jk.at], by |-> "jk", late |-> FALSE]
      BY <1>2, <1>3, <2>2
    <3> QED BY <3>1 DEF Mixed
  <2>3. CASE answer # NoAnswer /\ Len(owed) = 2
    BY <1>2, <1>3, <2>3 DEF Accepts, Mixed
  <2> QED BY <1>3, <2>1, <2>2, <2>3
<1>5. /\ JkShape' /\ "jk" \notin s_snapshot'.mixed
      /\ Upcoming(jk') # "none" => Upcoming(jk') \in Rounds \ {jk.at}
  BY <1>3, JkMoves DEF JkType
<1>6. OwedInv'
  BY <1>2, <1>3, <1>5, CountsDiffer DEF OwedInv
<1> QED BY <1>1, <1>2, <1>4, <1>5, <1>6 DEF JkType

(* No other step of the driver is on the bus or touches what the round has.*)
LEMMA PollingKeeps ==
  ASSUME RoundInv, Checks \/ Applies \/ Wakes
  PROVE  RoundInv'
<1> USE DEF RoundInv
<1>1. CASE Checks
  <2>1. /\ UNCHANGED <<owed, bus, s_snapshot>>
        /\ jk.at = "check" /\ jk' = [jk EXCEPT !.at = jk'.at] /\ jk'.at \in {jk.back, "time"}
    BY <1>1 DEF Checks, Keeps, JkType, JkShape
  <2>2. Upcoming(jk') # "none" => Upcoming(jk') = Upcoming(jk)
    BY <2>1 DEF Upcoming, Rounds, Infos, JkType, JkShape
  <2>3. JkType' /\ "jk" \notin jk'.mixed
    BY <2>1 DEF JkType, JkShape, Rounds, Infos
  <2> QED BY <2>1, <2>2, <2>3 DEF OwedInv, Rounds, Infos
<1>2. CASE Applies
  <2>1. /\ UNCHANGED <<owed, bus>> /\ jk.at = "apply"
        /\ jk' = [jk EXCEPT !.at = "sleep", !.ok = {}, !.mixed = {}]
    BY <1>2 DEF Applies
  <2>2. s_snapshot' \in Snapshots /\ "jk" \notin s_snapshot'.mixed
    BY <1>2 DEF Applies, JkType, JkShape, Snapshots
  <2>3. JkType' /\ "jk" \notin jk'.mixed /\ Upcoming(jk') = "none"
    BY <2>1, <2>2 DEF JkType, JkShape, Upcoming, Rounds, Infos
  <2> QED BY <2>1, <2>2, <2>3 DEF OwedInv, Rounds, Infos
<1>3. CASE Wakes
  <2>1. /\ UNCHANGED <<bus, s_snapshot>> /\ jk.at = "sleep"
        /\ jk' = [jk EXCEPT !.at = "cells"]
        /\ owed' = IF bus = "free" THEN <<>> ELSE owed
    BY <1>3 DEF Wakes, Keeps
  <2>2. JkType' /\ "jk" \notin jk'.mixed
    BY <2>1 DEF JkType, JkShape, Rounds
  <2>3. bus = "free" => Len(owed') = 0
    BY <2>1
  <2> QED BY <2>1, <2>2, <2>3 DEF OwedInv, Rounds, Infos
<1> QED BY <1>1, <1>2, <1>3

(* The vehicle's side writes the charge time and nothing else.             *)
LEMMA VehicleKeeps ==
  ASSUME RoundInv, VehicleAsks \/ VehicleRepeats \/ UartError \/ jinjian_task
  PROVE  RoundInv'
<1>1. UNCHANGED <<jk, owed, bus>>
  BY DEF VehicleAsks, VehicleRepeats, UartError, jinjian_task, Receives, Handles, Overrides,
         rest, busVars, pollVars
<1>2. s_snapshot' \in {s_snapshot, [s_snapshot EXCEPT !.time = "vehicle"]}
  BY DEF VehicleAsks, VehicleRepeats, UartError, jinjian_task, Receives, Handles, Overrides, Keeps
<1>3. s_snapshot' \in Snapshots /\ "jk" \notin s_snapshot'.mixed
  BY <1>2 DEF RoundInv, JkType, JkShape, Snapshots
<1> QED BY <1>1, <1>3 DEF RoundInv, JkType, JkShape, OwedInv

(* The other driver's data come whole, from one frame.                     *)
LEMMA BleSnapshot ==
  ASSUME Ble
  PROVE  s_snapshot' \in {s_snapshot, [s_snapshot EXCEPT !.fresh = FALSE],
                          [s_snapshot EXCEPT !.fresh = TRUE, !.mixed = {}]}
BY DEF Ble, NextBle, gap_cb, gattc_cb, jk_ble_task, ParamSet, ScanStarts, ScanEnds, Advertises,
       Registered, Opens, Discovers, Disconnects, Notified, Passes, Rescans, Stops, Polls,
       WebScan, WebAsks, Keeps

LEMMA BleKeeps ==
  ASSUME RoundInv, Ble
  PROVE  RoundInv'
<1>1. UNCHANGED <<jk, owed, bus>>
  BY DEF Ble, busVars, pollVars
<1>2. s_snapshot' \in Snapshots /\ "jk" \notin s_snapshot'.mixed
  BY BleSnapshot DEF RoundInv, JkType, JkShape, Snapshots
<1> QED BY <1>1, <1>2 DEF RoundInv, JkType, JkShape, OwedInv

(* No late answer to another request of the polling task is among the data *)
(* that count as fresh, whatever RPC calls of whatever length, from 1 to 64*)
(* registers or a write, come between and however answers are lost or late:*)
(* the order in which jk_task asks for its blocks keeps their lengths      *)
(* apart, which is all that jk_read_regs knows an answer by.               *)
THEOREM BlocksAreKeptApart == Spec => []BlocksKeepApart
<1>1. Init => RoundInv
  <2> SUFFICES ASSUME Init PROVE RoundInv
    OBVIOUS
  <2>1. /\ jk = [at |-> IF transport = "uart" THEN "info" ELSE "none",
                 ok |-> {}, mixed |-> {}, back |-> "cells"]
        /\ owed = <<>> /\ bus = "free" /\ s_snapshot = NoData
    BY DEF Init
  <2>2. JkType
    BY <2>1, EmptySeq DEF JkType, JkShape, Rounds, Infos, Snapshots, NoData
  <2>3. OwedInv
    BY <2>1 DEF OwedInv
  <2> QED BY <2>1, <2>2, <2>3 DEF RoundInv, NoData
<1>2. RoundInv /\ [Next]_vars => RoundInv'
  <2> SUFFICES ASSUME RoundInv, [Next]_vars PROVE RoundInv'
    OBVIOUS
  <2>1. CASE RpcBegins \/ RpcEnds
    BY <2>1, RpcKeeps
  <2>2. CASE jk_task
    BY <2>2, JkBeginsKeeps, JkEndsKeeps, PollingKeeps DEF jk_task
  <2>3. CASE VehicleAsks \/ VehicleRepeats \/ UartError \/ jinjian_task
    BY <2>3, VehicleKeeps
  <2>4. CASE Ble
    BY <2>4, BleKeeps
  <2>5. CASE UNCHANGED vars
    BY <2>5 DEF vars, busVars, pollVars, RoundInv, JkType, JkShape, OwedInv
  <2> QED BY <2>1, <2>2, <2>3, <2>4, <2>5 DEF Next
<1>3. RoundInv => BlocksKeepApart
  BY DEF RoundInv, BlocksKeepApart
<1> QED BY <1>1, <1>2, <1>3, PTL DEF Spec

-----------------------------------------------------------------------------
(* Once the flag is set the polling task does not get to read the charge   *)
(* time, unless it had got past the flag.                                  *)
TimeInv ==
  /\ JkShape
  /\ bus = "jk" => jk.at \in Rounds \cup Infos
  /\ s_charge_time_overridden \in BOOLEAN /\ raced \in BOOLEAN
  /\ s_charge_time_overridden => transport = "uart"
  /\ s_charge_time_overridden /\ ~raced => jk.at # "time" /\ s_snapshot.time = "vehicle"

LEMMA TimeInvStep == ASSUME TimeInv, [Next]_vars PROVE TimeInv'
<1> USE DEF TimeInv
<1>1. CASE RpcBegins \/ RpcEnds
  <2>1. UNCHANGED <<transport, jk, timeVars, s_snapshot>> /\ bus' # "jk"
    BY <1>1 DEF RpcBegins, RpcEnds, Begins, Ends, pollVars, Keeps
  <2> QED BY <2>1 DEF timeVars, JkShape
<1>2. CASE JkBegins
  <2>1. UNCHANGED <<transport, jk, timeVars, s_snapshot>> /\ jk.at \in Rounds \cup Infos
    BY <1>2, Tables DEF JkBegins, others, pollVars, Keeps
  <2> QED BY <2>1 DEF timeVars, JkShape
<1>3. CASE JkEnds
  <2>1. UNCHANGED <<transport, timeVars>> /\ bus = "jk" /\ bus' = "free"
    BY <1>3 DEF JkEnds, Ends, others
  <2>2. /\ JkShape' /\ jk'.at # "time"
        /\ jk.at # "time" => s_snapshot' = s_snapshot
    BY <1>3, <2>1, JkMoves
  <2> QED BY <2>1, <2>2 DEF timeVars
<1>4. CASE Checks \/ Applies \/ Wakes
  <2>1. UNCHANGED <<transport, timeVars, bus>> /\ jk.at \notin Rounds \cup Infos
    BY <1>4 DEF Checks, Applies, Wakes, others, Rounds, Infos
  <2>2. JkShape' /\ s_snapshot'.time = s_snapshot.time
    BY <1>4 DEF Checks, Applies, Wakes, Keeps, JkShape, Rounds, Infos, Snapshots
  <2>3. s_charge_time_overridden => jk'.at # "time"
    BY <1>4 DEF Checks, Applies, Wakes, JkShape
  <2> QED BY <2>1, <2>2, <2>3 DEF timeVars
<1>5. CASE VehicleAsks \/ VehicleRepeats \/ UartError \/ Receives
  <2>1. UNCHANGED <<transport, jk, timeVars, s_snapshot, bus>>
    BY <1>5 DEF VehicleAsks, VehicleRepeats, UartError, Receives, rest, busVars, pollVars, Keeps
  <2> QED BY <2>1 DEF timeVars, JkShape
<1>6. CASE Handles
  <2>1. /\ UNCHANGED <<transport, jk, bus, s_charge_time_overridden, raced>>
        /\ s_snapshot' = s_snapshot \/ s_snapshot' = [s_snapshot EXCEPT !.time = "vehicle"]
    BY <1>6 DEF Handles, rest, busVars, pollVars
  <2> QED BY <2>1 DEF JkShape, Snapshots
<1>7. CASE Overrides
  <2>1. /\ UNCHANGED <<transport, jk, bus, s_snapshot>>
        /\ s_charge_time_overridden' = (transport = "uart" \/ s_charge_time_overridden)
        /\ raced' = (raced \/ jk.at = "time" \/ s_snapshot.time # "vehicle")
    BY <1>7 DEF Overrides, rest, busVars, pollVars, Keeps
  <2> QED BY <2>1 DEF JkShape
<1>8. CASE Ble
  <2>1. UNCHANGED <<transport, jk, bus, timeVars>> /\ transport = "ble"
    BY <1>8 DEF Ble, busVars, pollVars
  <2>2. s_snapshot' \in {s_snapshot, [s_snapshot EXCEPT !.fresh = FALSE],
                         [s_snapshot EXCEPT !.fresh = TRUE, !.mixed = {}]}
    BY <1>8, BleSnapshot
  <2> QED BY <2>1, <2>2 DEF timeVars, JkShape, Snapshots
<1>9. CASE UNCHANGED vars
  BY <1>9 DEF vars, busVars, pollVars, timeVars, JkShape
<1> QED BY <1>1, <1>2, <1>3, <1>4, <1>5, <1>6, <1>7, <1>8, <1>9 DEF Next, jk_task, jinjian_task

(* A charge time the vehicle has written is not read over by the battery's *)
(* from then on, for any number of requests, rounds and failures, unless a *)
(* reading was under way as it was written: refresh_info asks              *)
(* s_charge_time_overridden before it reads.                               *)
THEOREM WrittenTimeIsKept == Spec => []WrittenIsKept
<1>1. Init => TimeInv
  <2> SUFFICES ASSUME Init PROVE TimeInv
    OBVIOUS
  <2>1. /\ jk = [at |-> IF transport = "uart" THEN "info" ELSE "none",
                 ok |-> {}, mixed |-> {}, back |-> "cells"]
        /\ bus = "free" /\ s_snapshot = NoData
        /\ s_charge_time_overridden = FALSE /\ raced = FALSE
    BY DEF Init
  <2>2. JkShape
    BY <2>1 DEF JkShape, Rounds, Infos, Snapshots, NoData
  <2> QED BY <2>1, <2>2 DEF TimeInv
<1>2. TimeInv /\ [Next]_vars => TimeInv'
  BY TimeInvStep
<1>3. TimeInv => WrittenIsKept
  BY DEF TimeInv, WrittenIsKept
<1> QED BY <1>1, <1>2, <1>3, PTL DEF Spec

-----------------------------------------------------------------------------
(* The history.  The codec's functions are recursive; what is said of them *)
(* is shown by induction on the position, upwards or downwards.            *)


(* Induction on a set of positions.                                        *)
LEMMA LeastOf ==
  ASSUME NEW T, T \subseteq Nat, T # {}
  PROVE  \E x \in T : \A y \in T : x <= y
<1> DEFINE R == {p \in Nat \X Nat : p[1] < p[2]}
<1>1. IsWellFoundedOn(R, Nat)
  BY NatLessThanWellFounded DEF OpToRel
<1>2. PICK x \in T : \A y \in T : ~(<<y, x>> \in R)
  <2> HIDE DEF R
  <2> QED BY <1>1, WFMin
<1>3. ASSUME NEW y \in T PROVE x <= y
  <2>1. x \in Nat /\ y \in Nat
    OBVIOUS
  <2>2. ~(y < x)
    BY <1>2, <2>1
  <2> QED BY <2>1, <2>2
<1> QED BY <1>3

LEMMA Upwards ==
  ASSUME NEW N \in Nat, NEW S, 0 \in S, \A i \in 1 .. N : i - 1 \in S => i \in S
  PROVE  \A i \in 0 .. N : i \in S
<1> DEFINE T == (0 .. N) \ S
<1> SUFFICES ASSUME T # {} PROVE FALSE
  OBVIOUS
<1>1. PICK x \in T : \A y \in T : x <= y
  <2>1. T \subseteq Nat
    OBVIOUS
  <2> HIDE DEF T
  <2> QED BY <2>1, LeastOf
<1>2. x \in 1 .. N /\ x - 1 \in 0 .. N /\ ~(x <= x - 1)
  BY <1>1
<1> QED BY <1>1, <1>2

LEMMA Downwards ==
  ASSUME NEW N \in Nat, NEW S,
         \A i \in 1 .. N : (\A j \in i + 1 .. N : j \in S) => i \in S
  PROVE  \A i \in 1 .. N : i \in S
<1> DEFINE T == {m \in 0 .. N : \A j \in N - m + 1 .. N : j \in S}
<1>1. 0 \in T
  OBVIOUS
<1>2. ASSUME NEW m \in 1 .. N, m - 1 \in T PROVE m \in T
  <2>1. N - m + 1 \in 1 .. N /\ N - (m - 1) + 1 = (N - m + 1) + 1
    OBVIOUS
  <2>2. N - m + 1 \in S
    BY <1>2, <2>1
  <2>3. \A j \in N - m + 1 .. N : j = N - m + 1 \/ j \in (N - m + 1) + 1 .. N
    OBVIOUS
  <2> QED BY <1>2, <2>1, <2>2, <2>3
<1> HIDE DEF T
<1>3. N \in T
  BY <1>1, <1>2, Upwards
<1> QED BY <1>3 DEF T

-----------------------------------------------------------------------------
(* Numbers: each has a length, and a sum of lengths is a size.             *)
LEMMA Parts ==
  ASSUME NEW u \in Nat
  PROVE  u \div 128 \in Nat /\ (u >= 128 => u \div 128 < u)
OBVIOUS

LenIs(g, u) == IF u >= 128 THEN 1 + g[u \div 128] ELSE 1

(* The recursive definition of uvarint_len has a solution, so the number is it. *)
LEMMA LenExists ==
  ASSUME NEW v \in Nat
  PROVE  \E g : g = [u \in 0 .. v |-> LenIs(g, u)]
<1> DEFINE S == {k \in 0 .. v : \E g : g = [u \in 0 .. k |-> LenIs(g, u)]}
<1>1. 0 \in S
  <2> DEFINE h == [u \in 0 .. 0 |-> 1]
  <2>1. h = [u \in 0 .. 0 |-> LenIs(h, u)]
    BY DEF LenIs
  <2> QED BY <2>1
<1>2. ASSUME NEW k \in 1 .. v, k - 1 \in S PROVE k \in S
  <2>1. PICK g : g = [u \in 0 .. k - 1 |-> LenIs(g, u)]
    BY <1>2
  <2> DEFINE h == [u \in 0 .. k |-> LenIs(g, u)]
  <2>2. ASSUME NEW u \in 0 .. k PROVE LenIs(h, u) = LenIs(g, u)
    <3>1. CASE u >= 128
      <4> DEFINE w == u \div 128
      <4>1. w \in 0 .. k - 1 /\ w \in 0 .. k
        BY <3>1, Parts
      <4> HIDE DEF w
      <4>2. h[w] = g[w]
        BY <2>1, <4>1
      <4> HIDE DEF h
      <4> QED BY <3>1, <4>2 DEF LenIs, w
    <3>2. CASE ~(u >= 128)
      BY <3>2 DEF LenIs
    <3> QED BY <3>1, <3>2
  <2>3. h = [u \in 0 .. k |-> LenIs(h, u)]
    BY <2>2
  <2> HIDE DEF h
  <2> QED BY <1>2, <2>3
<1> HIDE DEF S
<1>3. \A k \in 0 .. v : k \in S
  BY <1>1, <1>2, Upwards
<1>4. v \in S
  BY <1>3
<1> QED BY <1>4 DEF S

LEMMA LenIsNat == ASSUME NEW v \in Nat PROVE uvarint_len(v) \in Nat
<1> DEFINE len == CHOOSE g : g = [u \in 0 .. v |-> LenIs(g, u)]
           S == {k \in 0 .. v : \A u \in 0 .. k : len[u] \in Nat}
<1>1. uvarint_len(v) = len[v]
  BY DEF uvarint_len, LenIs
<1>2. len = [u \in 0 .. v |-> LenIs(len, u)]
  <2> HIDE DEF S
  <2> QED BY LenExists, Zenon
<1> HIDE DEF len
<1>3. \A u \in 0 .. v : len[u] = LenIs(len, u)
  BY <1>2
<1>4. 0 \in S
  BY <1>3 DEF LenIs
<1>5. ASSUME NEW k \in 1 .. v, k - 1 \in S PROVE k \in S
  <2>1. \A u \in 0 .. k - 1 : len[u] \in Nat
    BY <1>5
  <2>2. len[k] = LenIs(len, k)
    BY <1>3
  <2>3. LenIs(len, k) \in Nat
    <3>1. k \div 128 \in Nat /\ (k >= 128 => k \div 128 \in 0 .. k - 1)
      BY Parts
    <3> QED BY <2>1, <3>1 DEF LenIs
  <2>4. \A u \in 0 .. k : u = k \/ u \in 0 .. k - 1
    OBVIOUS
  <2> QED BY <2>1, <2>2, <2>3, <2>4
<1> HIDE DEF S
<1>6. \A k \in 0 .. v : k \in S
  BY <1>4, <1>5, Upwards
<1>7. v \in S
  BY <1>6
<1> QED BY <1>1, <1>7 DEF S

SizeIs(s, g, i) == IF i = 0 THEN 0 ELSE g[i - 1] + uvarint_len(s[i])

(* So has that of Size.                                                    *)
LEMMA SizeExists ==
  ASSUME NEW s \in Seq(Nat)
  PROVE  \E g : g = [i \in 0 .. Len(s) |-> SizeIs(s, g, i)]
<1> DEFINE S == {k \in 0 .. Len(s) : \E g : g = [i \in 0 .. k |-> SizeIs(s, g, i)]}
<1>1. Len(s) \in Nat
  BY LenProperties
<1>2. 0 \in S
  <2> DEFINE h == [i \in 0 .. 0 |-> SizeIs(s, 0, i)]
  <2>1. h = [i \in 0 .. 0 |-> SizeIs(s, h, i)]
    BY DEF SizeIs
  <2>2. 0 \in 0 .. Len(s)
    BY <1>1
  <2> HIDE DEF h
  <2> QED BY <2>1, <2>2
<1>3. ASSUME NEW k \in 1 .. Len(s), k - 1 \in S PROVE k \in S
  <2>1. PICK g : g = [i \in 0 .. k - 1 |-> SizeIs(s, g, i)]
    BY <1>3
  <2> DEFINE h == [i \in 0 .. k |-> SizeIs(s, g, i)]
  <2>2. ASSUME NEW i \in 0 .. k PROVE SizeIs(s, h, i) = SizeIs(s, g, i)
    <3>1. CASE i = 0
      BY <3>1 DEF SizeIs
    <3>2. CASE i # 0
      <4>1. i - 1 \in 0 .. k - 1 /\ i - 1 \in 0 .. k
        BY <3>2
      <4>2. h[i - 1] = g[i - 1]
        BY <2>1, <4>1
      <4> HIDE DEF h
      <4> QED BY <3>2, <4>2 DEF SizeIs
    <3> QED BY <3>1, <3>2
  <2>3. h = [i \in 0 .. k |-> SizeIs(s, h, i)]
    BY <2>2
  <2> HIDE DEF h
  <2> QED BY <1>3, <2>3
<1> HIDE DEF S
<1>4. \A k \in 0 .. Len(s) : k \in S
  BY <1>1, <1>2, <1>3, Upwards
<1>5. Len(s) \in S
  BY <1>1, <1>4
<1> QED BY <1>5 DEF S

LEMMA SizeIsNat == ASSUME NEW s \in Seq(Nat) PROVE Size(s) \in Nat
<1> DEFINE size == CHOOSE g : g = [i \in 0 .. Len(s) |-> SizeIs(s, g, i)]
           S == {k \in 0 .. Len(s) : size[k] \in Nat}
<1>1. Len(s) \in Nat /\ \A i \in 1 .. Len(s) : s[i] \in Nat
  BY LenProperties, ElementOfSeq
<1>2. Size(s) = size[Len(s)]
  BY DEF Size, SizeIs
<1>3. size = [i \in 0 .. Len(s) |-> SizeIs(s, size, i)]
  <2> HIDE DEF S
  <2> QED BY SizeExists, Zenon
<1> HIDE DEF size
<1>4. \A i \in 0 .. Len(s) : size[i] = SizeIs(s, size, i)
  BY <1>3
<1>5. 0 \in S
  BY <1>1, <1>4 DEF SizeIs
<1>6. ASSUME NEW k \in 1 .. Len(s), k - 1 \in S PROVE k \in S
  <2>1. size[k] = size[k - 1] + uvarint_len(s[k])
    BY <1>4 DEF SizeIs
  <2>2. uvarint_len(s[k]) \in Nat /\ size[k - 1] \in Nat
    BY <1>1, <1>6, LenIsNat
  <2> QED BY <2>1, <2>2
<1> HIDE DEF S
<1>7. \A k \in 0 .. Len(s) : k \in S
  BY <1>1, <1>5, <1>6, Upwards
<1> QED BY <1>1, <1>2, <1>7 DEF S

(* Signed numbers come back.                                               *)
LEMMA ZigzagIs ==
  ASSUME NEW a \in Int
  PROVE  zigzag(a) \in Nat /\ (a # 0 => zigzag(a) # 0) /\ Unzigzag(zigzag(a)) = a
<1>1. CASE a >= 0
  <2>1. zigzag(a) = 2 * a /\ (2 * a) % 2 = 0 /\ (2 * a) \div 2 = a
    BY <1>1 DEF zigzag
  <2> QED BY <1>1, <2>1 DEF Unzigzag
<1>2. CASE ~(a >= 0)
  <2>1. zigzag(a) = 2 * (-a) - 1 /\ -a \in Nat /\ -a >= 1
    BY <1>2 DEF zigzag
  <2>2. (2 * (-a) - 1) % 2 = 1 /\ (2 * (-a) - 1 + 1) \div 2 = -a
    BY <2>1
  <2> QED BY <1>2, <2>1, <2>2 DEF Unzigzag
<1> QED BY <1>1, <1>2

-----------------------------------------------------------------------------
(* The codes of a sequence of differences.                                 *)
IsRun(d, i, n) ==
  /\ \A k \in 0..(n - 1) : d[i + k] = d[i]
  /\ i + n <= Len(d) => d[i + n] # d[i]

(* A run is not empty, ends within the differences, and all of it is alike. *)
LEMMA RunIs ==
  ASSUME NEW d \in Seq(Int), NEW i \in 1 .. Len(d)
  PROVE  /\ Run(d, i) \in 1 .. Len(d) - i + 1
         /\ \A k \in 0 .. Run(d, i) - 1 : d[i + k] = d[i]
<1> DEFINE T == {n \in 1 .. (Len(d) - i + 1) : i + n <= Len(d) => d[i + n] # d[i]}
<1>1. Len(d) \in Nat /\ i \in Nat
  BY LenProperties
<1>2. PICK x \in T : \A y \in T : x <= y
  <2>1. T \subseteq Nat
    OBVIOUS
  <2>2. Len(d) - i + 1 \in T
    BY <1>1
  <2> HIDE DEF T
  <2> QED BY <2>1, <2>2, LeastOf
<1>3. ASSUME NEW k \in 0 .. x - 1 PROVE d[i + k] = d[i]
  <2>1. CASE k = 0
    BY <1>1, <2>1
  <2>2. CASE k # 0
    <3>1. k \in 1 .. Len(d) - i + 1 /\ ~(x <= k)
      BY <1>1, <2>2
    <3>2. ~(k \in T)
      BY <1>2, <3>1
    <3> QED BY <3>1, <3>2
  <2> QED BY <2>1, <2>2
<1>4. x \in 1 .. (Len(d) - i + 1) /\ IsRun(d, i, x)
  BY <1>3 DEF IsRun
<1>5. Run(d, i) = CHOOSE n \in 1 .. (Len(d) - i + 1) : IsRun(d, i, n)
  BY DEF Run, IsRun
<1>6. Run(d, i) \in 1 .. (Len(d) - i + 1) /\ IsRun(d, i, Run(d, i))
  BY <1>4, <1>5, Zenon
<1> QED BY <1>6 DEF IsRun

LEMMA RunCodesType ==
  ASSUME NEW a \in Int, NEW n \in Nat \ {0}
  PROVE  RunCodes(a, n) \in Seq(Nat)
<1>1. zigzag(a) \in Nat /\ zigzag(a) + 2 \in Nat
  BY ZigzagIs
<1> DEFINE single == [i \in 1 .. n |-> zigzag(a) + 2]
           packed == <<2, zigzag(a), n>>
<1>2. single \in Seq(Nat)
  BY <1>1, IsASeq
<1>3. packed \in Seq(Nat) /\ <<1>> \in Seq(Nat) /\ <<0, n>> \in Seq(Nat)
  BY <1>1
<1>4. RunCodes(a, n) \in {single, packed, <<1>>, <<0, n>>}
  <2> DEFINE short == Size(packed) < Size(single)
  <2>1. RunCodes(a, n) = IF a = 0 THEN IF n = 1 THEN <<1>> ELSE <<0, n>>
                         ELSE IF short THEN packed ELSE single
    BY DEF RunCodes
  <2> HIDE DEF single, packed, short
  <2> QED BY <2>1
<1> HIDE DEF single, packed
<1> QED BY <1>2, <1>3, <1>4

FromIs(d, g, i) ==
  IF i > Len(d) THEN <<>> ELSE RunCodes(d[i], Run(d, i)) \o g[i + Run(d, i)]

(* The recursion of encode_delta_sequence has a solution, from the end.    *)
LEMMA FromExists ==
  ASSUME NEW d \in Seq(Int)
  PROVE  \E g : g = [i \in 1 .. Len(d) + 1 |-> FromIs(d, g, i)]
<1> DEFINE N == Len(d)
           S == {m \in 0 .. N :
                   \E g : g = [i \in N + 1 - m .. N + 1 |-> FromIs(d, g, i)]}
<1>1. N \in Nat
  BY LenProperties
<1>2. 0 \in S
  <2> DEFINE h == [i \in N + 1 .. N + 1 |-> <<>>]
  <2>1. h = [i \in N + 1 .. N + 1 |-> FromIs(d, h, i)]
    <3>1. ASSUME NEW i \in N + 1 .. N + 1 PROVE FromIs(d, h, i) = <<>>
      BY <1>1 DEF FromIs
    <3> QED BY <3>1
  <2>2. N + 1 - 0 = N + 1
    BY <1>1
  <2> HIDE DEF h, N
  <2> QED BY <1>1, <2>1, <2>2
<1>3. ASSUME NEW m \in 1 .. N, m - 1 \in S PROVE m \in S
  <2> DEFINE b == N + 1 - m
  <2>1. b \in 1 .. N /\ N + 1 - (m - 1) = b + 1
    BY <1>1
  <2>2. PICK g : g = [i \in b + 1 .. N + 1 |-> FromIs(d, g, i)]
    BY <1>3, <2>1
  <2> HIDE DEF b
  <2> DEFINE h == [i \in b .. N + 1 |-> FromIs(d, g, i)]
  <2>3. ASSUME NEW i \in b .. N + 1 PROVE FromIs(d, h, i) = FromIs(d, g, i)
    <3>1. CASE i > N
      BY <3>1 DEF FromIs
    <3>2. CASE ~(i > N)
      <4>1. i \in 1 .. N
        BY <1>1, <2>1, <3>2
      <4>2. Run(d, i) \in 1 .. N - i + 1
        BY <4>1, RunIs
      <4> DEFINE q == i + Run(d, i)
      <4>3. q \in b + 1 .. N + 1 /\ q \in b .. N + 1
        <5>1. q \in Nat /\ q >= i + 1 /\ q <= N + 1
          BY <1>1, <4>1, <4>2
        <5>2. i >= b /\ b \in Nat
          BY <1>1, <2>1, <4>1
        <5> HIDE DEF q
        <5> QED BY <1>1, <4>1, <5>1, <5>2
      <4> HIDE DEF q
      <4>4. h[q] = g[q]
        BY <2>2, <4>3
      <4> HIDE DEF h
      <4> QED BY <3>2, <4>4 DEF FromIs, q
    <3> QED BY <3>1, <3>2
  <2>4. h = [i \in b .. N + 1 |-> FromIs(d, h, i)]
    BY <2>3
  <2> HIDE DEF h
  <2> QED BY <1>3, <2>4 DEF b
<1> HIDE DEF S
<1>4. \A m \in 0 .. N : m \in S
  BY <1>1, <1>2, <1>3, Upwards
<1>5. N \in S
  BY <1>1, <1>4
<1>6. N + 1 - N = 1
  BY <1>1
<1> HIDE DEF N
<1>7. \E g : g = [i \in 1 .. N + 1 |-> FromIs(d, g, i)]
  BY <1>5, <1>6 DEF S
<1> QED BY <1>7 DEF N

(* What is still to be sent from a difference on.                          *)
Codes(d) == CHOOSE g : g = [i \in 1 .. Len(d) + 1 |-> FromIs(d, g, i)]

(* It is what encode_delta_sequence returns the first of.                  *)
LEMMA CodesAre ==
  ASSUME NEW d \in Seq(Int)
  PROVE  /\ encode_delta_sequence(d) = Codes(d)[1]
         /\ \A i \in 1 .. Len(d) + 1 :
              Codes(d)[i] = FromIs(d, Codes(d), i) /\ Codes(d)[i] \in Seq(Nat)
<1> DEFINE from == Codes(d)
           N == Len(d)
           S == {m \in 0 .. N : \A i \in N + 1 - m .. N + 1 : from[i] \in Seq(Nat)}
<1>1. N \in Nat
  BY LenProperties
<1>2. encode_delta_sequence(d) = Codes(d)[1]
  BY DEF encode_delta_sequence, Codes, FromIs
<1>3. from = [i \in 1 .. Len(d) + 1 |-> FromIs(d, from, i)]
  <2> HIDE DEF S, N
  <2> QED BY FromExists, Zenon DEF Codes
<1> HIDE DEF from
<1>4. \A i \in 1 .. N + 1 : from[i] = FromIs(d, from, i)
  BY <1>3
<1>5. 0 \in S
  <2>1. \A i \in N + 1 - 0 .. N + 1 : i = N + 1 /\ i > Len(d) /\ i \in 1 .. N + 1
    BY <1>1
  <2>2. <<>> \in Seq(Nat)
    OBVIOUS
  <2>3. \A i \in N + 1 - 0 .. N + 1 : from[i] = <<>>
    BY <1>4, <2>1 DEF FromIs
  <2>4. \A i \in N + 1 - 0 .. N + 1 : from[i] \in Seq(Nat)
    BY <2>2, <2>3, Zenon
  <2> QED BY <1>1, <2>4
<1>6. ASSUME NEW m \in 1 .. N, m - 1 \in S PROVE m \in S
  <2> DEFINE b == N + 1 - m
  <2>1. b \in 1 .. N /\ N + 1 - (m - 1) = b + 1 /\ ~(b > N) /\ b \in 1 .. N + 1
    BY <1>1
  <2>2. \A i \in b + 1 .. N + 1 : from[i] \in Seq(Nat)
    BY <1>6, <2>1
  <2> HIDE DEF b
  <2>3. Run(d, b) \in 1 .. N - b + 1 /\ d[b] \in Int
    BY <2>1, RunIs, ElementOfSeq
  <2> DEFINE q == b + Run(d, b)
             r == RunCodes(d[b], Run(d, b))
  <2>4. q \in b + 1 .. N + 1
    BY <1>1, <2>1, <2>3
  <2>5. r \in Seq(Nat)
    <3>1. Run(d, b) \in Nat \ {0}
      BY <1>1, <2>1, <2>3
    <3> QED BY <2>3, <3>1, RunCodesType
  <2>6. from[b] = r \o from[q]
    BY <1>4, <2>1 DEF FromIs
  <2> HIDE DEF q, r
  <2>7. from[q] \in Seq(Nat)
    BY <2>2, <2>4
  <2>8. from[b] \in Seq(Nat)
    BY <2>5, <2>6, <2>7, ConcatProperties
  <2>9. \A i \in b .. N + 1 : i = b \/ i \in b + 1 .. N + 1
    BY <2>1
  <2> HIDE DEF N
  <2>10. \A i \in b .. N + 1 : from[i] \in Seq(Nat)
    BY <2>2, <2>8, <2>9
  <2> QED BY <2>10, <1>6 DEF b
<1> HIDE DEF S
<1>7. \A m \in 0 .. N : m \in S
  BY <1>1, <1>5, <1>6, Upwards
<1>8. N \in S /\ N + 1 - N = 1
  BY <1>1, <1>7
<1>9. \A i \in 1 .. N + 1 : from[i] \in Seq(Nat)
  BY <1>8 DEF S
<1> QED BY <1>2, <1>4, <1>9 DEF from

-----------------------------------------------------------------------------
(* Sequences put together.                                                 *)
Concat(a, b, c) ==
  /\ Len(c) = Len(a) + Len(b) /\ Len(a) \in Nat /\ Len(b) \in Nat
  /\ \A k \in 1 .. Len(a) : c[k] = a[k]
  /\ \A k \in 1 .. Len(b) : c[Len(a) + k] = b[k]

(* Where the elements of two sequences are in their concatenation.         *)
LEMMA ConcatIs ==
  ASSUME NEW E, NEW a \in Seq(E), NEW b \in Seq(E)
  PROVE  a \o b \in Seq(E) /\ Concat(a, b, a \o b)
<1>1. /\ a \o b \in Seq(E) /\ Len(a \o b) = Len(a) + Len(b)
      /\ Len(a) \in Nat /\ Len(b) \in Nat
  BY ConcatProperties, LenProperties
<1>2. \A k \in 1 .. Len(a) + Len(b) :
        (a \o b)[k] = IF k <= Len(a) THEN a[k] ELSE b[k - Len(a)]
  BY ConcatProperties
<1>3. \A k \in 1 .. Len(a) : k \in 1 .. Len(a) + Len(b) /\ k <= Len(a)
  BY <1>1
<1>4. \A k \in 1 .. Len(b) : /\ Len(a) + k \in 1 .. Len(a) + Len(b)
                             /\ ~(Len(a) + k <= Len(a)) /\ (Len(a) + k) - Len(a) = k
  BY <1>1
<1> QED BY <1>1, <1>2, <1>3, <1>4 DEF Concat

-----------------------------------------------------------------------------
(* A sequence of numbers stands in the data from a position on.            *)
Occurs(data, p, s) ==
  /\ p - 1 + Len(s) <= Len(data)
  /\ \A k \in 1 .. Len(s) : data[p + k - 1] = s[k]

(* Of what stands somewhere, both parts do.                                *)
LEMMA OccursParts ==
  ASSUME NEW data \in Seq(Nat), NEW p \in Nat \ {0}, NEW a \in Seq(Nat), NEW b \in Seq(Nat),
         Occurs(data, p, a \o b)
  PROVE  Occurs(data, p, a) /\ Occurs(data, p + Len(a), b)
<1> DEFINE c == a \o b
<1>0. c \in Seq(Nat) /\ Concat(a, b, c) /\ Len(data) \in Nat
  BY ConcatIs, LenProperties
<1>2. /\ p - 1 + Len(c) <= Len(data)
      /\ \A k \in 1 .. Len(c) : data[p + k - 1] = c[k]
  BY DEF Occurs
<1> HIDE DEF c
<1>1. /\ c \in Seq(Nat) /\ Len(c) = Len(a) + Len(b)
      /\ Len(a) \in Nat /\ Len(b) \in Nat /\ Len(data) \in Nat
      /\ \A k \in 1 .. Len(a) : c[k] = a[k]
      /\ \A k \in 1 .. Len(b) : c[Len(a) + k] = b[k]
  BY <1>0 DEF Concat
<1>3. ASSUME NEW k \in 1 .. Len(a) PROVE data[p + k - 1] = a[k]
  <2>1. k \in 1 .. Len(c)
    BY <1>1
  <2>2. c[k] = a[k]
    BY <1>1
  <2>3. data[p + k - 1] = c[k]
    BY <1>2, <2>1
  <2> QED BY <2>2, <2>3
<1>4. ASSUME NEW k \in 1 .. Len(b) PROVE data[p + Len(a) + k - 1] = b[k]
  <2>0. Len(a) + k \in 1 .. Len(c)
    <3>1. Len(c) = Len(a) + Len(b) /\ Len(a) \in Nat /\ Len(b) \in Nat
      BY <1>1
    <3> QED BY <3>1
  <2>1. c[Len(a) + k] = b[k]
    BY <1>1
  <2>2. p + Len(a) + k - 1 = p + (Len(a) + k) - 1
    BY <1>1
  <2>3. data[p + (Len(a) + k) - 1] = c[Len(a) + k]
    BY <1>2, <2>0
  <2> QED BY <2>1, <2>2, <2>3
<1>5. p - 1 + Len(a) <= Len(data) /\ p + Len(a) - 1 + Len(b) <= Len(data)
  BY <1>1, <1>2
<1> QED BY <1>3, <1>4, <1>5 DEF Occurs

(* It still stands there when more data follows.                           *)
LEMMA OccursOn ==
  ASSUME NEW data \in Seq(Nat), NEW more \in Seq(Nat), NEW p \in Nat \ {0},
         NEW s \in Seq(Nat), Occurs(data, p, s)
  PROVE  Occurs(data \o more, p, s)
<1> DEFINE c == data \o more
<1>1. Concat(data, more, c) /\ Len(s) \in Nat /\ Len(data) \in Nat /\ Len(more) \in Nat
  BY ConcatIs, LenProperties
<1> HIDE DEF c
<1>2. Len(c) = Len(data) + Len(more) /\ \A k \in 1 .. Len(data) : c[k] = data[k]
  BY <1>1 DEF Concat
<1>3. ASSUME NEW k \in 1 .. Len(s) PROVE c[p + k - 1] = s[k]
  <2>1. p - 1 + Len(s) <= Len(data) /\ data[p + k - 1] = s[k]
    BY DEF Occurs
  <2>2. p + k - 1 \in 1 .. Len(data)
    BY <1>1, <2>1
  <2> QED BY <1>2, <2>1, <2>2
<1>4. p - 1 + Len(s) <= Len(c)
  BY <1>1, <1>2 DEF Occurs
<1>5. Occurs(c, p, s)
  BY <1>3, <1>4 DEF Occurs
<1> QED BY <1>5 DEF c

(* What follows the data stands behind it.                                 *)
LEMMA OccursBehind ==
  ASSUME NEW data \in Seq(Nat), NEW more \in Seq(Nat)
  PROVE  Occurs(data \o more, 1 + Len(data), more)
<1> DEFINE c == data \o more
<1>1. Concat(data, more, c) /\ Len(data) \in Nat /\ Len(more) \in Nat
  BY ConcatIs, LenProperties
<1> HIDE DEF c
<1>2. Len(c) = Len(data) + Len(more) /\ \A k \in 1 .. Len(more) : c[Len(data) + k] = more[k]
  BY <1>1 DEF Concat
<1>3. \A k \in 1 .. Len(more) : 1 + Len(data) + k - 1 = Len(data) + k
  BY <1>1
<1>4. 1 + Len(data) - 1 + Len(more) <= Len(c)
  BY <1>1, <1>2
<1>5. Occurs(c, 1 + Len(data), more)
  BY <1>2, <1>3, <1>4 DEF Occurs
<1> QED BY <1>5 DEF c

LEMMA OccursAll == ASSUME NEW s \in Seq(Nat) PROVE Occurs(s, 1, s)
<1>1. Len(s) \in Nat
  BY LenProperties
<1>2. \A k \in 1 .. Len(s) : 1 + k - 1 = k
  BY <1>1
<1>3. 1 - 1 + Len(s) <= Len(s)
  BY <1>1
<1> QED BY <1>2, <1>3 DEF Occurs

-----------------------------------------------------------------------------
(* The receiver's reading of the codes, one after the other.               *)
LEMMA SubSeqIs ==
  ASSUME NEW d \in Seq(Int), NEW m \in 0 .. Len(d)
  PROVE  /\ SubSeq(d, 1, m) \in Seq(Int) /\ Len(SubSeq(d, 1, m)) = m
         /\ \A k \in 1 .. m : SubSeq(d, 1, m)[k] = d[k]
<1>1. Len(d) \in Nat /\ \A k \in 1 .. Len(d) : d[k] \in Int
  BY LenProperties, ElementOfSeq
<1>2. \A k \in 1 .. m : d[k] \in Int
  BY <1>1
<1> QED BY <1>1, <1>2, SubSeqProperties

(* A prefix grows by what comes next.                                      *)
LEMMA SubSeqGrows ==
  ASSUME NEW d \in Seq(Int), NEW m \in Nat, NEW c \in Seq(Int), m + Len(c) <= Len(d),
         \A k \in 1 .. Len(c) : c[k] = d[m + k]
  PROVE  SubSeq(d, 1, m) \o c = SubSeq(d, 1, m + Len(c))
<1> DEFINE a == SubSeq(d, 1, m)
           b == SubSeq(d, 1, m + Len(c))
<1>1. Len(d) \in Nat /\ Len(c) \in Nat /\ m \in 0 .. Len(d) /\ m + Len(c) \in 0 .. Len(d)
  BY LenProperties
<1>2. /\ a \in Seq(Int) /\ Len(a) = m /\ \A k \in 1 .. m : a[k] = d[k]
      /\ b \in Seq(Int) /\ Len(b) = m + Len(c)
      /\ \A k \in 1 .. m + Len(c) : b[k] = d[k]
  BY <1>1, SubSeqIs
<1> HIDE DEF a, b
<1> DEFINE e == a \o c
<1>3. e \in Seq(Int) /\ Concat(a, c, e)
  BY <1>2, ConcatIs
<1> HIDE DEF e
<1>4. /\ e \in Seq(Int) /\ Len(e) = m + Len(c)
      /\ \A k \in 1 .. m : e[k] = a[k]
      /\ \A k \in 1 .. Len(c) : e[m + k] = c[k]
  BY <1>2, <1>3 DEF Concat
<1>5. ASSUME NEW k \in 1 .. m + Len(c) PROVE e[k] = b[k]
  <2>1. CASE k <= m
    <3>1. k \in 1 .. m /\ k \in 1 .. m + Len(c)
      BY <1>1, <2>1
    <3>2. e[k] = a[k] /\ a[k] = d[k] /\ b[k] = d[k]
      BY <1>2, <1>4, <3>1
    <3> QED BY <3>2
  <2>2. CASE ~(k <= m)
    <3> DEFINE j == k - m
    <3>1. j \in 1 .. Len(c) /\ m + j = k
      BY <1>1, <2>2
    <3> HIDE DEF j
    <3> QED BY <1>2, <1>4, <3>1
  <2> QED BY <2>1, <2>2
<1>6. e = b
  BY <1>2, <1>4, <1>5, SeqEqual
<1> QED BY <1>6 DEF a, b, e

At(d, m, q) == [deltas |-> SubSeq(d, 1, m), next |-> q]

(* Every code is told apart from the others, and means what it was for.    *)
LEMMA SingleIs ==
  ASSUME NEW data \in Seq(Nat), NEW q \in 1 .. Len(data), NEW a \in Int,
         data[q] = w_delta_code(a)
  PROVE  CodeLength(data, q) = 1 /\ CodeMeans(data, q) = <<a>>
<1>1. zigzag(a) \in Nat /\ (a # 0 => zigzag(a) # 0) /\ Unzigzag(zigzag(a)) = a
  BY ZigzagIs
<1>2. CASE a = 0
  BY <1>2 DEF CodeLength, CodeMeans, w_delta_code
<1>3. CASE a # 0
  <2>1. data[q] = zigzag(a) + 2 /\ data[q] > 2 /\ (zigzag(a) + 2) - 2 = zigzag(a)
    BY <1>1, <1>3 DEF w_delta_code
  <2>2. Unzigzag(data[q] - 2) = a
    BY <1>1, <2>1
  <2>3. data[q] # 0 /\ data[q] # 1 /\ data[q] # 2
    BY <2>1
  <2> QED BY <2>2, <2>3 DEF CodeLength, CodeMeans
<1> QED BY <1>2, <1>3

(* A run code is read as its run,                                          *)
LEMMA PackedIs ==
  ASSUME NEW data \in Seq(Nat), NEW q \in Nat \ {0}, NEW a \in Int, NEW n \in Nat,
         Occurs(data, q, <<2, zigzag(a), n>>)
  PROVE  /\ q \in 1 .. Len(data) /\ q + 2 \in 1 .. Len(data)
         /\ CodeLength(data, q) = 3 /\ CodeMeans(data, q) = [i \in 1 .. n |-> a]
<1>1. zigzag(a) \in Nat /\ Unzigzag(zigzag(a)) = a /\ Len(data) \in Nat
  BY ZigzagIs, LenProperties
<1> DEFINE c == <<2, zigzag(a), n>>
<1>2. Len(c) = 3 /\ c[1] = 2 /\ c[2] = zigzag(a) /\ c[3] = n
  BY <1>1
<1>3. q - 1 + Len(c) <= Len(data) /\ \A k \in 1 .. Len(c) : data[q + k - 1] = c[k]
  BY DEF Occurs
<1> HIDE DEF c
<1>4. data[q] = 2 /\ data[q + 1] = zigzag(a) /\ data[q + 2] = n
  <2>1. q + 1 - 1 = q /\ q + 2 - 1 = q + 1 /\ q + 3 - 1 = q + 2
    OBVIOUS
  <2>2. 1 \in 1 .. Len(c) /\ 2 \in 1 .. Len(c) /\ 3 \in 1 .. Len(c)
    BY <1>2
  <2> QED BY <1>2, <1>3, <2>1, <2>2
<1>5. q \in 1 .. Len(data) /\ q + 2 \in 1 .. Len(data)
  BY <1>1, <1>2, <1>3
<1> QED BY <1>1, <1>4, <1>5 DEF CodeLength, CodeMeans

(* and so is that of a run of zeros.                                       *)
LEMMA ZerosAre ==
  ASSUME NEW data \in Seq(Nat), NEW q \in Nat \ {0}, NEW n \in Nat,
         Occurs(data, q, <<0, n>>)
  PROVE  /\ q \in 1 .. Len(data) /\ q + 1 \in 1 .. Len(data)
         /\ CodeLength(data, q) = 2 /\ CodeMeans(data, q) = [i \in 1 .. n |-> 0]
<1>1. Len(data) \in Nat
  BY LenProperties
<1> DEFINE c == <<0, n>>
<1>2. Len(c) = 2 /\ c[1] = 0 /\ c[2] = n
  BY <1>1
<1>3. q - 1 + Len(c) <= Len(data) /\ \A k \in 1 .. Len(c) : data[q + k - 1] = c[k]
  BY DEF Occurs
<1> HIDE DEF c
<1>4. data[q] = 0 /\ data[q + 1] = n
  <2>1. q + 1 - 1 = q /\ q + 2 - 1 = q + 1
    OBVIOUS
  <2>2. 1 \in 1 .. Len(c) /\ 2 \in 1 .. Len(c)
    BY <1>2
  <2> QED BY <1>2, <1>3, <2>1, <2>2
<1>5. q \in 1 .. Len(data) /\ q + 1 \in 1 .. Len(data)
  BY <1>1, <1>2, <1>3
<1> QED BY <1>4, <1>5 DEF CodeLength, CodeMeans

StandsFor(data, q, l, d, m, n, a) ==
  /\ m + n <= Len(d) /\ q + l - 1 <= Len(data) /\ \A k \in 1 .. n : d[m + k] = a
  /\ CodeLength(data, q) = l /\ CodeMeans(data, q) = [i \in 1 .. n |-> a]

(* A code that stands for the next n differences takes the reader over     *)
(* them.                                                                   *)
LEMMA CodeTaken ==
  ASSUME NEW d \in Seq(Int), NEW m \in Nat, NEW n \in Nat, NEW data \in Seq(Nat),
         NEW q \in Nat \ {0}, NEW l \in Nat \ {0}, NEW a \in Int,
         StandsFor(data, q, l, d, m, n, a)
  PROVE  ReadCode(data, At(d, m, q)) = At(d, m + n, q + l)
<1>1. Len(data) \in Nat /\ Len(d) \in Nat
  BY LenProperties
<1>0. /\ m + n <= Len(d) /\ q + l - 1 <= Len(data) /\ \A k \in 1 .. n : d[m + k] = a
      /\ CodeLength(data, q) = l /\ CodeMeans(data, q) = [i \in 1 .. n |-> a]
  BY DEF StandsFor
<1> DEFINE c == [i \in 1 .. n |-> a]
<1>2. c \in Seq(Int) /\ Len(c) = n /\ \A k \in 1 .. n : c[k] = a
  BY IsASeq
<1>3. CodeMeans(data, q) = c
  BY <1>0
<1> HIDE DEF c
<1>4. SubSeq(d, 1, m) \o c = SubSeq(d, 1, m + n)
  <2>1. m + Len(c) <= Len(d) /\ \A k \in 1 .. Len(c) : c[k] = d[m + k]
    BY <1>0, <1>2
  <2>2. SubSeq(d, 1, m) \o c = SubSeq(d, 1, m + Len(c))
    BY <1>2, <2>1, SubSeqGrows
  <2> QED BY <1>2, <2>2, Zenon
<1>5. ~(q > Len(data)) /\ ~(q + l - 1 > Len(data))
  BY <1>0, <1>1
<1>6. ReadCode(data, At(d, m, q)) =
        [deltas |-> SubSeq(d, 1, m) \o c, next |-> q + l]
  <2> DEFINE s == SubSeq(d, 1, m)
  <2> HIDE DEF s
  <2>1. At(d, m, q) = [deltas |-> s, next |-> q]
    BY DEF At, s
  <2>2. At(d, m, q).deltas = s /\ At(d, m, q).next = q
    BY <2>1
  <2>3. ReadCode(data, At(d, m, q)) = [deltas |-> s \o c, next |-> q + l]
    BY <1>0, <1>3, <1>5, <2>2 DEF ReadCode
  <2> QED BY <2>3 DEF s
<1> QED BY <1>4, <1>6 DEF At

(* Where the reader can be: before the codes of a run, or in a run whose   *)
(* differences have a code each.                                           *)
Before(data, d, last, m, q) ==
  /\ m \in 0 .. Len(d) /\ q \in Nat \ {0}
  /\ Occurs(data, q, Codes(d)[m + 1])
  /\ q + Len(Codes(d)[m + 1]) = last

InRun(data, d, last, m, q, i, t) ==
  /\ t \in 0 .. Run(d, i) - 1
  /\ m = i - 1 + t /\ q \in Nat \ {0} /\ d[i] # 0
  /\ \A k \in 0 .. Run(d, i) - t - 1 : data[q + k] = zigzag(d[i]) + 2
  /\ q + (Run(d, i) - t) - 1 <= Len(data)
  /\ Occurs(data, q + (Run(d, i) - t), Codes(d)[i + Run(d, i)])
  /\ q + (Run(d, i) - t) + Len(Codes(d)[i + Run(d, i)]) = last

Within(data, d, last, m, q) == \E i \in 1 .. Len(d), t \in Nat : InRun(data, d, last, m, q, i, t)

(* Within a run sent one by one, the next code is read as the next difference. *)
LEMMA WithinStep ==
  ASSUME NEW data \in Seq(Nat), NEW d \in Seq(Int), NEW last,
         NEW m \in Nat, NEW q \in Nat \ {0},
         Within(data, d, last, m, q)
  PROVE  /\ m \in Nat /\ m < Len(d)
         /\ ReadCode(data, At(d, m, q)) = At(d, m + 1, q + 1)
         /\ Before(data, d, last, m + 1, q + 1) \/ Within(data, d, last, m + 1, q + 1)
<1>1. PICK i \in 1 .. Len(d), t \in Nat : InRun(data, d, last, m, q, i, t)
  BY DEF Within
<1> DEFINE r == Run(d, i)
<1>2. /\ t \in 0 .. r - 1 /\ m = i - 1 + t /\ q \in Nat \ {0} /\ d[i] # 0
      /\ \A k \in 0 .. r - t - 1 : data[q + k] = zigzag(d[i]) + 2
      /\ q + (r - t) - 1 <= Len(data)
      /\ Occurs(data, q + (r - t), Codes(d)[i + r])
      /\ q + (r - t) + Len(Codes(d)[i + r]) = last
  BY <1>1 DEF InRun
<1>3. r \in 1 .. Len(d) - i + 1 /\ \A k \in 0 .. r - 1 : d[i + k] = d[i]
  BY RunIs
<1> HIDE DEF r
<1>4. Len(d) \in Nat /\ Len(data) \in Nat /\ i \in Nat \ {0} /\ d[i] \in Int
  BY LenProperties, ElementOfSeq
<1>9. /\ t \in 0 .. r - 1 /\ m = i - 1 + t /\ q \in Nat \ {0} /\ q + (r - t) - 1 <= Len(data)
      /\ r \in Nat /\ i + r <= Len(d) + 1
  BY <1>2, <1>3, <1>4
<1>5. m \in Nat /\ m + 1 <= Len(d) /\ q \in 1 .. Len(data)
  <2>1. t \in Nat /\ t + 1 <= r /\ m + 1 = i + t
    BY <1>4, <1>9
  <2>2. m \in Nat /\ m + 1 <= Len(d)
    BY <1>4, <1>9, <2>1
  <2>3. q \in Nat /\ q >= 1 /\ q <= Len(data)
    BY <1>4, <1>9, <2>1
  <2> QED BY <1>4, <2>2, <2>3
<1>6. ReadCode(data, At(d, m, q)) = At(d, m + 1, q + 1)
  <2>1. data[q] = w_delta_code(d[i])
    <3>1. 0 \in 0 .. r - t - 1 /\ q + 0 = q
      BY <1>2, <1>3
    <3> QED BY <1>2, <3>1 DEF w_delta_code
  <2>2. CodeLength(data, q) = 1 /\ CodeMeans(data, q) = <<d[i]>>
    BY <1>4, <1>5, <2>1, SingleIs
  <2>3. CodeMeans(data, q) = [k \in 1 .. 1 |-> d[i]]
    BY <2>2
  <2>4. \A k \in 1 .. 1 : d[m + k] = d[i]
    <3>1. \A k \in 1 .. 1 : m + k = i + t
      BY <1>2, <1>4
    <3>2. d[i + t] = d[i]
      BY <1>2, <1>3
    <3> QED BY <3>1, <3>2
  <2>5. q + 1 - 1 <= Len(data)
    BY <1>5
  <2>6. StandsFor(data, q, 1, d, m, 1, d[i])
    BY <1>5, <2>2, <2>3, <2>4, <2>5 DEF StandsFor
  <2>7. 1 \in Nat /\ 1 \in Nat \ {0} /\ q \in Nat \ {0}
    BY <1>5
  <2>8. ReadCode(data, At(d, m, q)) = At(d, m + 1, q + 1)
    BY <1>4, <2>6, <2>7, CodeTaken
  <2> QED BY <2>8
<1>7. CASE t + 1 = r
  <2>1. m + 1 + 1 = i + r /\ q + (r - t) = q + 1 /\ m + 1 \in 0 .. Len(d) /\ q + 1 \in Nat \ {0}
    BY <1>2, <1>4, <1>5, <1>7
  <2>2. Before(data, d, last, m + 1, q + 1)
    BY <1>2, <2>1 DEF Before
  <2> QED BY <1>4, <1>5, <1>6, <2>2
<1>8. CASE t + 1 # r
  <2>1. /\ t + 1 \in 0 .. r - 1 /\ m + 1 = i - 1 + (t + 1) /\ q + 1 \in Nat \ {0}
        /\ (q + 1) + (r - (t + 1)) = q + (r - t)
        /\ (q + 1) + (r - (t + 1)) - 1 <= Len(data)
    <3>1. t \in Nat /\ t + 1 < r /\ r \in Nat /\ i \in Nat /\ q \in Nat /\ q + (r - t) - 1 <= Len(data)
      BY <1>4, <1>8, <1>9
    <3>2. m + 1 = i - 1 + (t + 1)
      BY <1>4, <1>9, <3>1
    <3> QED BY <1>4, <3>1, <3>2
  <2>2. ASSUME NEW k \in 0 .. r - (t + 1) - 1
        PROVE  data[(q + 1) + k] = zigzag(d[i]) + 2
    <3>1. k + 1 \in 0 .. r - t - 1 /\ (q + 1) + k = q + (k + 1)
      BY <1>2, <1>3
    <3> QED BY <1>2, <3>1
  <2>3. InRun(data, d, last, m + 1, q + 1, i, t + 1)
    BY <1>2, <2>1, <2>2 DEF InRun, r
  <2>4. Within(data, d, last, m + 1, q + 1)
    BY <2>3 DEF Within
  <2> QED BY <1>4, <1>5, <1>6, <2>4
<1> QED BY <1>7, <1>8

(* The four forms a run is sent in.                                        *)
LEMMA RunCodesAre ==
  ASSUME NEW a \in Int, NEW n \in Nat \ {0}
  PROVE  \/ a = 0 /\ n = 1 /\ RunCodes(a, n) = <<1>>
         \/ a = 0 /\ RunCodes(a, n) = <<0, n>>
         \/ RunCodes(a, n) = <<2, zigzag(a), n>>
         \/ a # 0 /\ RunCodes(a, n) = [i \in 1 .. n |-> zigzag(a) + 2]
BY DEF RunCodes

(* At the begin of a run, the next code is read as what it stands for.     *)
LEMMA BeforeStep ==
  ASSUME NEW data \in Seq(Nat), NEW d \in Seq(Int), NEW last,
         NEW m \in Nat, NEW q \in Nat \ {0},
         Before(data, d, last, m, q), m < Len(d)
  PROVE  \E n \in Nat \ {0}, l \in Nat \ {0} :
            /\ ReadCode(data, At(d, m, q)) = At(d, m + n, q + l)
            /\ \/ Before(data, d, last, m + n, q + l)
               \/ Within(data, d, last, m + n, q + l)
<1> DEFINE i == m + 1
           r == Run(d, i)
           a == d[i]
           c == RunCodes(a, r)
           behind == Codes(d)[i + r]
<1>1. /\ Len(d) \in Nat /\ Len(data) \in Nat /\ m \in Nat /\ q \in Nat \ {0}
      /\ i \in 1 .. Len(d) /\ i \in 1 .. Len(d) + 1 /\ ~(i > Len(d))
  BY LenProperties DEF Before
<1>2. a \in Int
  <2> HIDE DEF i
  <2> QED BY <1>1, ElementOfSeq
<1>3. r \in 1 .. Len(d) - i + 1 /\ \A k \in 0 .. r - 1 : d[i + k] = a
  <2> HIDE DEF i
  <2> QED BY <1>1, RunIs
<1>4. r \in Nat \ {0} /\ i + r \in 1 .. Len(d) + 1 /\ m + r <= Len(d) /\ m + r + 1 = i + r
  <2> HIDE DEF r
  <2> QED BY <1>1, <1>3
<1>5. c \in Seq(Nat) /\ behind \in Seq(Nat) /\ Codes(d)[i] = c \o behind
  <2> HIDE DEF i, r
  <2>1. c \in Seq(Nat)
    BY <1>2, <1>4, RunCodesType
  <2>2. behind \in Seq(Nat) /\ Codes(d)[i] = FromIs(d, Codes(d), i)
    BY <1>1, <1>4, CodesAre
  <2>3. FromIs(d, Codes(d), i) = c \o behind
    BY <1>1 DEF FromIs, r
  <2> QED BY <2>1, <2>2, <2>3
<1>6. Occurs(data, q, c) /\ Occurs(data, q + Len(c), behind)
  <2>1. Occurs(data, q, c \o behind)
    BY <1>5 DEF Before
  <2> HIDE DEF c, behind
  <2> QED BY <1>1, <1>5, <2>1, OccursParts
<1>7. q + Len(c) + Len(behind) = last /\ Len(c) \in Nat /\ Len(behind) \in Nat
  <2> HIDE DEF c, behind, i
  <2>1. Concat(c, behind, c \o behind)
    BY <1>5, ConcatIs
  <2>2. Len(c \o behind) = Len(c) + Len(behind) /\ Len(c) \in Nat /\ Len(behind) \in Nat
    BY <2>1 DEF Concat
  <2>3. q + Len(c \o behind) = last
    BY <1>5 DEF Before, i
  <2> QED BY <1>1, <2>2, <2>3
<1>8. \/ a = 0 /\ r = 1 /\ c = <<1>>
      \/ a = 0 /\ c = <<0, r>>
      \/ c = <<2, zigzag(a), r>>
      \/ a # 0 /\ c = [k \in 1 .. r |-> zigzag(a) + 2]
  <2> HIDE DEF a, r
  <2> QED BY <1>2, <1>4, RunCodesAre
<1>9. \A k \in 1 .. r : d[m + k] = a
  <2> SUFFICES ASSUME NEW k \in 1 .. r PROVE d[m + k] = a
    OBVIOUS
  <2> HIDE DEF a, r
  <2>1. k - 1 \in 0 .. r - 1 /\ i + (k - 1) = m + k
    BY <1>1, <1>4
  <2> QED BY <1>3, <2>1
<1>10. q - 1 + Len(c) <= Len(data)
  <2> HIDE DEF c
  <2> QED BY <1>6 DEF Occurs
(* The reader is before the next run, if it is taken over this one.        *)
<1>11. Before(data, d, last, m + r, q + Len(c))
  <2> HIDE DEF c, r
  <2>1. m + r \in 0 .. Len(d) /\ q + Len(c) \in Nat \ {0}
    BY <1>1, <1>4, <1>7
  <2> QED BY <1>4, <1>6, <1>7, <2>1 DEF Before
<1> HIDE DEF a, r, c, behind
<1>12. ASSUME Len(c) \in Nat \ {0}, CodeLength(data, q) = Len(c),
              CodeMeans(data, q) = [k \in 1 .. r |-> a]
       PROVE  ReadCode(data, At(d, m, q)) = At(d, m + r, q + Len(c))
  <2>1. q + Len(c) - 1 <= Len(data)
    BY <1>1, <1>7, <1>10
  <2>2. StandsFor(data, q, Len(c), d, m, r, a)
    BY <1>4, <1>9, <1>12, <2>1 DEF StandsFor
  <2>3. r \in Nat
    BY <1>4
  <2>4. m \in Nat /\ q \in Nat \ {0}
    BY <1>1
  <2> DEFINE l == Len(c)
  <2>5. l \in Nat \ {0} /\ StandsFor(data, q, l, d, m, r, a)
    BY <1>12, <2>2
  <2> HIDE DEF l, i
  <2>6. ReadCode(data, At(d, m, q)) = At(d, m + r, q + l)
    BY <1>2, <2>3, <2>4, <2>5, CodeTaken
  <2> QED BY <2>6 DEF l
<1>13. CASE a = 0 /\ r = 1 /\ c = <<1>>
  <2>1. Len(c) = 1 /\ c[1] = 1 /\ Len(c) \in Nat \ {0}
    BY <1>13
  <2>2. data[q] = w_delta_code(a)
    <3>1. 1 \in 1 .. Len(c) /\ q + 1 - 1 = q
      BY <1>1, <2>1
    <3> QED BY <1>6, <1>13, <2>1, <3>1 DEF Occurs, w_delta_code
  <2>3. q \in 1 .. Len(data)
    BY <1>1, <1>10, <2>1
  <2>4. CodeLength(data, q) = 1 /\ CodeMeans(data, q) = <<a>>
    BY <1>2, <2>2, <2>3, SingleIs
  <2>5. CodeMeans(data, q) = [k \in 1 .. r |-> a]
    BY <1>13, <2>4
  <2> QED BY <1>4, <1>11, <1>12, <2>1, <2>4, <2>5
<1>14. CASE a = 0 /\ c = <<0, r>>
  <2>1. CodeLength(data, q) = 2 /\ CodeMeans(data, q) = [k \in 1 .. r |-> 0]
    BY <1>1, <1>4, <1>6, <1>14, ZerosAre
  <2>2. Len(c) = 2 /\ Len(c) \in Nat \ {0}
    BY <1>14
  <2> QED BY <1>4, <1>11, <1>12, <1>14, <2>1, <2>2
<1>15. CASE c = <<2, zigzag(a), r>>
  <2>1. CodeLength(data, q) = 3 /\ CodeMeans(data, q) = [k \in 1 .. r |-> a]
    BY <1>1, <1>2, <1>4, <1>6, <1>15, PackedIs
  <2>2. Len(c) = 3 /\ Len(c) \in Nat \ {0}
    BY <1>15
  <2> QED BY <1>4, <1>11, <1>12, <2>1, <2>2
<1>16. CASE a # 0 /\ c = [k \in 1 .. r |-> zigzag(a) + 2]
  <2>1. Len(c) = r /\ \A k \in 1 .. r : c[k] = zigzag(a) + 2
    BY <1>4, <1>16
  <2>2. ASSUME NEW k \in 0 .. r - 0 - 1 PROVE data[q + k] = zigzag(a) + 2
    <3>1. k + 1 \in 1 .. r /\ q + (k + 1) - 1 = q + k
      BY <1>1, <1>4
    <3> QED BY <1>6, <2>1, <3>1 DEF Occurs
  <2>3. /\ 0 \in 0 .. r - 1 /\ m = i - 1 + 0 /\ r - 0 = r
        /\ q + (r - 0) - 1 <= Len(data)
    BY <1>1, <1>4, <1>10, <2>1
  <2>4. InRun(data, d, last, m, q, i, 0)
    BY <1>1, <1>6, <1>7, <1>16, <2>1, <2>2, <2>3 DEF InRun, a, r, behind
  <2>5. Within(data, d, last, m, q)
    BY <1>1, <2>4 DEF Within
  <2>6. /\ ReadCode(data, At(d, m, q)) = At(d, m + 1, q + 1)
        /\ Before(data, d, last, m + 1, q + 1) \/ Within(data, d, last, m + 1, q + 1)
    BY <2>5, WithinStep
  <2>7. 1 \in Nat \ {0}
    OBVIOUS
  <2> QED BY <2>6, <2>7
<1> QED BY <1>8, <1>13, <1>14, <1>15, <1>16

ReadIs(data, p, n, g, k) ==
  IF k = 0 THEN [deltas |-> <<>>, next |-> p]
  ELSE IF Len(g[k - 1].deltas) < n THEN ReadCode(data, g[k - 1]) ELSE g[k - 1]

(* The recursion of ReadDeltas has a solution.                             *)
LEMMA ReadExists ==
  ASSUME NEW data, NEW p, NEW n \in Nat
  PROVE  \E g : g = [i \in 0 .. n |-> ReadIs(data, p, n, g, i)]
<1> DEFINE S == {k \in 0 .. n : \E g : g = [i \in 0 .. k |-> ReadIs(data, p, n, g, i)]}
<1>1. n \in Nat
  OBVIOUS
<1>2. 0 \in S
  <2> DEFINE h == [i \in 0 .. 0 |-> ReadIs(data, p, n, 0, i)]
  <2>1. h = [i \in 0 .. 0 |-> ReadIs(data, p, n, h, i)]
    BY DEF ReadIs
  <2>2. 0 \in 0 .. n
    BY <1>1
  <2> HIDE DEF h
  <2> QED BY <2>1, <2>2
<1>3. ASSUME NEW k \in 1 .. n, k - 1 \in S PROVE k \in S
  <2>1. PICK g : g = [i \in 0 .. k - 1 |-> ReadIs(data, p, n, g, i)]
    BY <1>3
  <2> DEFINE h == [i \in 0 .. k |-> ReadIs(data, p, n, g, i)]
  <2>2. ASSUME NEW i \in 0 .. k PROVE ReadIs(data, p, n, h, i) = ReadIs(data, p, n, g, i)
    <3>1. CASE i = 0
      BY <3>1 DEF ReadIs
    <3>2. CASE i # 0
      <4>1. i - 1 \in 0 .. k - 1 /\ i - 1 \in 0 .. k
        BY <3>2
      <4>2. h[i - 1] = g[i - 1]
        BY <2>1, <4>1
      <4> HIDE DEF h
      <4> QED BY <3>2, <4>2 DEF ReadIs
    <3> QED BY <3>1, <3>2
  <2>3. h = [i \in 0 .. k |-> ReadIs(data, p, n, h, i)]
    BY <2>2
  <2> HIDE DEF h
  <2> QED BY <1>3, <2>3
<1> HIDE DEF S
<1>4. \A k \in 0 .. n : k \in S
  BY <1>1, <1>2, <1>3, Upwards
<1>5. n \in S
  BY <1>1, <1>4
<1> QED BY <1>5 DEF S

Reached(data, d, last, s, k) ==
  \E m \in k .. Len(d), q \in Nat \ {0} :
    s = At(d, m, q) /\ (Before(data, d, last, m, q) \/ Within(data, d, last, m, q))

(* One more code is read, or all differences have been.                    *)
LEMMA ReadOn ==
  ASSUME NEW data \in Seq(Nat), NEW d \in Seq(Int), NEW last, NEW s, NEW k \in 0 .. Len(d) - 1,
         Reached(data, d, last, s, k)
  PROVE  Reached(data, d, last,
                 IF Len(s.deltas) < Len(d) THEN ReadCode(data, s) ELSE s, k + 1)
<1>1. Len(d) \in Nat
  BY LenProperties
<1>2. PICK m \in k .. Len(d), q \in Nat \ {0} :
        s = At(d, m, q) /\ (Before(data, d, last, m, q) \/ Within(data, d, last, m, q))
  BY DEF Reached
<1>3. m \in 0 .. Len(d) /\ m \in Nat
  BY <1>1
<1>4. Len(s.deltas) = m
  <2>1. s.deltas = SubSeq(d, 1, m)
    BY <1>2 DEF At
  <2>2. Len(SubSeq(d, 1, m)) = m
    BY <1>3, SubSeqIs
  <2> QED BY <2>1, <2>2
<1>5. CASE m < Len(d)
  <2>1. \E n \in Nat \ {0}, l \in Nat \ {0} :
           /\ ReadCode(data, s) = At(d, m + n, q + l)
           /\ \/ Before(data, d, last, m + n, q + l)
              \/ Within(data, d, last, m + n, q + l)
    <3>1. CASE Before(data, d, last, m, q)
      <4>1. \E n \in Nat \ {0}, l \in Nat \ {0} :
               /\ ReadCode(data, At(d, m, q)) = At(d, m + n, q + l)
               /\ \/ Before(data, d, last, m + n, q + l)
                  \/ Within(data, d, last, m + n, q + l)
        BY <1>3, <1>5, <3>1, BeforeStep
      <4> QED BY <1>2, <4>1, Zenon
    <3>2. CASE Within(data, d, last, m, q)
      <4>1. /\ ReadCode(data, s) = At(d, m + 1, q + 1)
            /\ Before(data, d, last, m + 1, q + 1) \/ Within(data, d, last, m + 1, q + 1)
        <5>1. /\ ReadCode(data, At(d, m, q)) = At(d, m + 1, q + 1)
              /\ \/ Before(data, d, last, m + 1, q + 1)
                 \/ Within(data, d, last, m + 1, q + 1)
          BY <1>3, <3>2, WithinStep
        <5> QED BY <1>2, <5>1, Zenon
      <4>2. 1 \in Nat \ {0}
        OBVIOUS
      <4> QED BY <4>1, <4>2
    <3> QED BY <1>2, <3>1, <3>2
  <2>2. PICK n \in Nat \ {0}, l \in Nat \ {0} :
           /\ ReadCode(data, s) = At(d, m + n, q + l)
           /\ \/ Before(data, d, last, m + n, q + l)
              \/ Within(data, d, last, m + n, q + l)
    BY <2>1
  <2> DEFINE e == m + n
             o == q + l
  <2>3. e \in Nat /\ o \in Nat \ {0} /\ k + 1 <= e
    BY <1>3
  <2>4. /\ ReadCode(data, s) = At(d, e, o)
        /\ Before(data, d, last, e, o) \/ Within(data, d, last, e, o)
    BY <2>2
  <2> HIDE DEF e, o
  <2>5. e <= Len(d)
    <3>1. CASE Before(data, d, last, e, o)
      BY <3>1, <1>1 DEF Before
    <3>2. CASE Within(data, d, last, e, o)
      <4>1. e < Len(d)
        BY <2>3, <3>2, WithinStep
      <4> QED BY <1>1, <2>3, <4>1
    <3> QED BY <2>4, <3>1, <3>2
  <2>6. e \in k + 1 .. Len(d)
    BY <1>1, <2>3, <2>5
  <2>7. Reached(data, d, last, ReadCode(data, s), k + 1)
    BY <2>3, <2>4, <2>6 DEF Reached
  <2> QED BY <1>4, <1>5, <2>7
<1>6. CASE ~(m < Len(d))
  <2>1. m = Len(d) /\ m \in k + 1 .. Len(d)
    BY <1>1, <1>6
  <2>2. Reached(data, d, last, s, k + 1)
    BY <1>2, <2>1 DEF Reached
  <2> QED BY <1>4, <1>6, <2>2
<1> QED BY <1>5, <1>6

(* Where the codes of the differences stand, they are read back.           *)
LEMMA CodesRead ==
  ASSUME NEW data \in Seq(Nat), NEW p \in Nat \ {0}, NEW d \in Seq(Int),
         Occurs(data, p, encode_delta_sequence(d))
  PROVE  ReadDeltas(data, p, Len(d)) =
           [deltas |-> d, next |-> p + Len(encode_delta_sequence(d))]
<1> DEFINE n == Len(d)
           last == p + Len(encode_delta_sequence(d))
           read == CHOOSE g : g = [k \in 0 .. n |-> ReadIs(data, p, n, g, k)]
           S == {k \in 0 .. n : Reached(data, d, last, read[k], k)}
<1>1. n \in Nat
  BY LenProperties
<1>2. ReadDeltas(data, p, n) = read[n]
  BY DEF ReadDeltas, ReadIs
<1>3. read = [k \in 0 .. n |-> ReadIs(data, p, n, read, k)]
  <2> HIDE DEF S, last, n
  <2>1. \E g : g = [k \in 0 .. n |-> ReadIs(data, p, n, g, k)]
    BY <1>1, ReadExists
  <2> QED BY <2>1, Zenon
<1> HIDE DEF read
<1>4. \A k \in 0 .. n : read[k] = ReadIs(data, p, n, read, k)
  BY <1>3
<1>5. 0 \in S
  <2>1. read[0] = [deltas |-> <<>>, next |-> p]
    <3>1. read[0] = ReadIs(data, p, n, read, 0)
      BY <1>1, <1>4
    <3> HIDE DEF n
    <3> QED BY <3>1, Zenon DEF ReadIs
  <2>2. SubSeq(d, 1, 0) = <<>>
    <3>1. SubSeq(d, 1, 0) \in Seq(Int) /\ Len(SubSeq(d, 1, 0)) = 0
      BY <1>1, SubSeqIs
    <3> QED BY <3>1, EmptySeq
  <2>3. read[0] = At(d, 0, p)
    BY <2>1, <2>2 DEF At
  <2>4. Before(data, d, last, 0, p)
    <3>1. Codes(d)[0 + 1] = encode_delta_sequence(d)
      BY CodesAre
    <3> QED BY <1>1, <3>1 DEF Before
  <2>5. 0 \in 0 .. Len(d)
    BY <1>1
  <2> HIDE DEF last
  <2>6. Reached(data, d, last, read[0], 0)
    BY <2>3, <2>4, <2>5 DEF Reached
  <2> QED BY <1>1, <2>6
<1>6. ASSUME NEW k \in 1 .. n, k - 1 \in S PROVE k \in S
  <2>1. read[k] = IF Len(read[k - 1].deltas) < n
                  THEN ReadCode(data, read[k - 1]) ELSE read[k - 1]
    BY <1>4 DEF ReadIs
  <2>2. k - 1 \in 0 .. Len(d) - 1 /\ (k - 1) + 1 = k
    BY <1>1
  <2> DEFINE j == k - 1
  <2>3. Reached(data, d, last, read[j], j)
    BY <1>6
  <2> HIDE DEF j, last
  <2>4. Reached(data, d, last, read[k], j + 1)
    BY <2>1, <2>2, <2>3, ReadOn DEF j
  <2>5. Reached(data, d, last, read[k], k)
    BY <2>2, <2>4 DEF j
  <2> QED BY <2>5
<1> HIDE DEF S
<1>7. \A k \in 0 .. n : k \in S
  BY <1>1, <1>5, <1>6, Upwards
<1>8. Reached(data, d, last, read[n], n)
  BY <1>1, <1>7 DEF S
<1>9. read[n] = [deltas |-> d, next |-> last]
  <2> HIDE DEF last
  <2>1. PICK m \in n .. Len(d), q \in Nat \ {0} :
          /\ read[n] = At(d, m, q)
          /\ Before(data, d, last, m, q) \/ Within(data, d, last, m, q)
    BY <1>8 DEF Reached
  <2>2. m = n
    BY <1>1
  <2>3. ~Within(data, d, last, m, q)
    <3>1. Within(data, d, last, m, q) => m < Len(d)
      BY <1>1, <2>2, WithinStep
    <3> QED BY <1>1, <2>2, <3>1
  <2>4. Before(data, d, last, m, q)
    BY <2>1, <2>3
  <2>5. Codes(d)[n + 1] = <<>>
    <3>1. n + 1 \in 1 .. Len(d) + 1 /\ n + 1 > Len(d)
      BY <1>1
    <3> QED BY <3>1, CodesAre DEF FromIs
  <2>6. q = last
    <3>1. q + Len(Codes(d)[n + 1]) = last
      BY <2>2, <2>4 DEF Before
    <3>2. Len(<<>>) = 0
      OBVIOUS
    <3> QED BY <2>5, <3>1, <3>2
  <2>7. SubSeq(d, 1, n) = d
    <3>1. /\ SubSeq(d, 1, n) \in Seq(Int) /\ Len(SubSeq(d, 1, n)) = n
          /\ \A k \in 1 .. n : SubSeq(d, 1, n)[k] = d[k]
      BY <1>1, SubSeqIs
    <3> QED BY <3>1, SeqEqual
  <2> QED BY <2>1, <2>2, <2>6, <2>7 DEF At
<1> HIDE DEF last
<1>10. ReadDeltas(data, p, n) = [deltas |-> d, next |-> last]
  BY <1>2, <1>9
<1> QED BY <1>10 DEF last

LEMMA CodesType == ASSUME NEW d \in Seq(Int) PROVE encode_delta_sequence(d) \in Seq(Nat)
<1>1. 1 \in 1 .. Len(d) + 1
  BY LenProperties
<1> QED BY <1>1, CodesAre

-----------------------------------------------------------------------------
(* Sums of differences.                                                    *)
SumIs(first, deltas, g, i) == IF i = 1 THEN first ELSE g[i - 1] + deltas[i - 1]

(* The recursion of Sums has a solution.                                   *)
LEMMA SumExists ==
  ASSUME NEW first, NEW E, NEW deltas \in Seq(E)
  PROVE  \E g : g = [i \in 1 .. Len(deltas) + 1 |-> SumIs(first, deltas, g, i)]
<1> DEFINE S == {k \in 0 .. Len(deltas) + 1 : \E g : g = [i \in 1 .. k |-> SumIs(first, deltas, g, i)]}
<1>1. Len(deltas) + 1 \in Nat
  BY LenProperties
<1>2. 0 \in S
  <2> DEFINE h == [i \in 1 .. 0 |-> SumIs(first, deltas, 0, i)]
  <2>1. h = [i \in 1 .. 0 |-> SumIs(first, deltas, h, i)]
    BY DEF SumIs
  <2>2. 0 \in 0 .. Len(deltas) + 1
    BY <1>1
  <2> HIDE DEF h
  <2> QED BY <2>1, <2>2
<1>3. ASSUME NEW k \in 1 .. Len(deltas) + 1, k - 1 \in S PROVE k \in S
  <2>1. PICK g : g = [i \in 1 .. k - 1 |-> SumIs(first, deltas, g, i)]
    BY <1>3
  <2> DEFINE h == [i \in 1 .. k |-> SumIs(first, deltas, g, i)]
  <2>2. ASSUME NEW i \in 1 .. k PROVE SumIs(first, deltas, h, i) = SumIs(first, deltas, g, i)
    <3>1. CASE i = 1
      BY <3>1 DEF SumIs
    <3>2. CASE i # 1
      <4>1. i - 1 \in 1 .. k - 1 /\ i - 1 \in 1 .. k
        BY <3>2
      <4>2. h[i - 1] = g[i - 1]
        BY <2>1, <4>1
      <4> HIDE DEF h
      <4> QED BY <3>2, <4>2 DEF SumIs
    <3> QED BY <3>1, <3>2
  <2>3. h = [i \in 1 .. k |-> SumIs(first, deltas, h, i)]
    BY <2>2
  <2> HIDE DEF h
  <2> QED BY <1>3, <2>3
<1> HIDE DEF S
<1>4. \A k \in 0 .. Len(deltas) + 1 : k \in S
  BY <1>1, <1>2, <1>3, Upwards
<1>5. Len(deltas) + 1 \in S
  BY <1>1, <1>4
<1> QED BY <1>5 DEF S

(* Numbers are the sums of their first and their steps,                    *)
LEMMA SumsAre ==
  ASSUME NEW deltas \in Seq(Int), NEW w \in Seq(Int), Len(w) = Len(deltas) + 1,
         \A i \in 2 .. Len(w) : w[i] = w[i - 1] + deltas[i - 1]
  PROVE  Sums(w[1], deltas) = w
<1> DEFINE N == Len(deltas) + 1
           sum == CHOOSE g : g = [i \in 1 .. N |-> SumIs(w[1], deltas, g, i)]
           S == {k \in 0 .. N : k >= 1 => sum[k] = w[k]}
<1>1. N \in Nat /\ N >= 1 /\ N = Len(w)
  BY LenProperties
<1>2. Sums(w[1], deltas) = sum
  BY DEF Sums, SumIs
<1>3. sum = [i \in 1 .. N |-> SumIs(w[1], deltas, sum, i)]
  <2> HIDE DEF S
  <2>1. \E g : g = [i \in 1 .. N |-> SumIs(w[1], deltas, g, i)]
    BY SumExists
  <2> HIDE DEF N
  <2> QED BY <2>1, Zenon
<1> HIDE DEF sum, N
<1>4. \A i \in 1 .. N : sum[i] = SumIs(w[1], deltas, sum, i)
  BY <1>3
<1>5. 0 \in S
  BY <1>1
<1>6. ASSUME NEW k \in 1 .. N, k - 1 \in S PROVE k \in S
  <2>1. sum[k] = SumIs(w[1], deltas, sum, k)
    BY <1>4
  <2>2. CASE k = 1
    BY <1>1, <2>1, <2>2 DEF SumIs
  <2>3. CASE k # 1
    <3>1. k \in 2 .. Len(w) /\ k - 1 >= 1
      BY <1>1, <2>3
    <3>2. sum[k - 1] = w[k - 1] /\ w[k] = w[k - 1] + deltas[k - 1]
      BY <1>6, <3>1
    <3>3. sum[k] = sum[k - 1] + deltas[k - 1]
      BY <2>1, <2>3 DEF SumIs
    <3>4. sum[k] = w[k]
      BY <3>2, <3>3
    <3> QED BY <3>4
  <2> QED BY <2>2, <2>3
<1> HIDE DEF S
<1>7. \A k \in 0 .. N : k \in S
  BY <1>1, <1>5, <1>6, Upwards
<1>8. \A k \in 1 .. N : sum[k] = w[k]
  BY <1>1, <1>7 DEF S
<1>9. w = [k \in 1 .. N |-> w[k]]
  BY <1>1
<1>10. sum = [k \in 1 .. N |-> sum[k]]
  BY <1>3
<1>11. sum = w
  BY <1>8, <1>9, <1>10
<1> QED BY <1>2, <1>11

(* and so of their first and their differences.                            *)
LEMMA DifferencesAre ==
  ASSUME NEW v \in Seq(Int), Len(v) >= 1
  PROVE  /\ Differences(v) \in Seq(Int) /\ Len(Differences(v)) = Len(v) - 1
         /\ \A i \in 1 .. Len(v) - 1 : Differences(v)[i] = v[i + 1] - v[i]
         /\ Sums(v[1], Differences(v)) = v
<1> DEFINE d == Differences(v)
<1>1. Len(v) \in Nat /\ \A i \in 1 .. Len(v) : v[i] \in Int
  BY LenProperties, ElementOfSeq
<1>2. \A i \in 1 .. Len(v) - 1 : v[i + 1] - v[i] \in Int
  BY <1>1
<1>3. /\ d \in Seq(Int) /\ Len(d) = Len(v) - 1
      /\ \A i \in 1 .. Len(v) - 1 : d[i] = v[i + 1] - v[i]
  <2> DEFINE n == Len(v) - 1
             F(i) == v[i + 1] - v[i]
  <2>1. n \in Nat /\ \A i \in 1 .. n : F(i) \in Int
    BY <1>1, <1>2
  <2>2. d = [i \in 1 .. n |-> F(i)]
    BY DEF Differences
  <2>3. d \in [1 .. n -> Int] /\ \A i \in 1 .. n : d[i] = F(i)
    <3> HIDE DEF n, F, d
    <3> QED BY <2>1, <2>2
  <2>4. d \in Seq(Int) /\ Len(d) = n
    <3> HIDE DEF n, F, d
    <3> QED BY <2>1, <2>3
  <2> QED BY <2>3, <2>4
<1> HIDE DEF d
<1>4. ASSUME NEW i \in 2 .. Len(v) PROVE v[i] = v[i - 1] + d[i - 1]
  <2>1. i - 1 \in 1 .. Len(v) - 1 /\ (i - 1) + 1 = i /\ i \in 1 .. Len(v) /\ i - 1 \in 1 .. Len(v)
    BY <1>1
  <2>2. d[i - 1] = v[i] - v[i - 1]
    BY <1>3, <2>1
  <2>3. v[i] \in Int /\ v[i - 1] \in Int
    BY <1>1, <2>1
  <2> QED BY <2>2, <2>3
<1>5. Len(v) = Len(d) + 1
  BY <1>1, <1>3
<1>6. Sums(v[1], d) = v
  BY <1>3, <1>4, <1>5, SumsAre
<1> QED BY <1>3, <1>6 DEF d

-----------------------------------------------------------------------------
(* A column, and what the receiver makes of it.                            *)
FirstOf(v, is_signed) == IF is_signed THEN zigzag(v[1]) ELSE v[1]

Turned(v) == <<Differences(v)[1]>> \o Differences(Differences(v))

CodesOf(v, mode) ==
  IF mode = Constant \/ Differences(v) = <<>> THEN <<>>
  ELSE IF mode = Linear THEN <<w_delta_code(Differences(v)[1])>>
  ELSE encode_delta_sequence(IF mode = Delta2 THEN Turned(v) ELSE Differences(v))

(* A column is its first number and the codes of a mode.                   *)
LEMMA EncodeIs ==
  ASSUME NEW v, NEW is_signed, NEW mode
  PROVE  encode_column(v, is_signed, mode) = <<FirstOf(v, is_signed)>> \o CodesOf(v, mode)
BY DEF encode_column, FirstOf, CodesOf, Turned

(* What the encoder can be given.                                          *)
IsColumn(v, is_signed) ==
  /\ v \in Seq(Int) /\ Len(v) >= 1
  /\ is_signed \/ v[1] \in Nat

(* The first number is read back, signed or not.                           *)
LEMMA FirstIs ==
  ASSUME NEW v, NEW is_signed \in BOOLEAN, IsColumn(v, is_signed)
  PROVE  /\ FirstOf(v, is_signed) \in Nat
         /\ (IF is_signed THEN Unzigzag(FirstOf(v, is_signed)) ELSE FirstOf(v, is_signed)) = v[1]
<1>1. v[1] \in Int
  <2>1. v \in Seq(Int) /\ 1 \in 1 .. Len(v)
    BY LenProperties DEF IsColumn
  <2> QED BY <2>1, ElementOfSeq
<1>2. zigzag(v[1]) \in Nat /\ Unzigzag(zigzag(v[1])) = v[1]
  BY <1>1, ZigzagIs
<1>3. CASE is_signed
  BY <1>2, <1>3 DEF FirstOf
<1>4. CASE ~is_signed
  BY <1>4 DEF FirstOf, IsColumn
<1> QED BY <1>3, <1>4

(* Only a column of one number has no differences.                         *)
LEMMA NoDifferences ==
  ASSUME NEW v \in Seq(Int), Len(v) >= 1
  PROVE  Differences(v) = <<>> <=> Len(v) = 1
<1>1. Differences(v) \in Seq(Int) /\ Len(Differences(v)) = Len(v) - 1 /\ Len(v) \in Nat
  BY DifferencesAre, LenProperties
<1> HIDE DEF Differences
<1>2. Differences(v) = <<>> <=> Len(Differences(v)) = 0
  BY <1>1, EmptySeq
<1> QED BY <1>1, <1>2

(* The differences are the sums of the first and their own differences.    *)
LEMMA TurnedIs ==
  ASSUME NEW v \in Seq(Int), Len(v) > 1
  PROVE  /\ Turned(v) \in Seq(Int) /\ Len(Turned(v)) = Len(v) - 1
         /\ Sums(Turned(v)[1], Tail(Turned(v))) = Differences(v)
<1> DEFINE d == Differences(v)
           b == Differences(d)
           w == Turned(v)
<1>1. Len(v) \in Nat /\ Len(v) >= 1
  BY LenProperties
<1>2. d \in Seq(Int) /\ Len(d) = Len(v) - 1 /\ Len(d) >= 1
  <2> HIDE DEF d
  <2>1. Differences(v) \in Seq(Int) /\ Len(Differences(v)) = Len(v) - 1
    BY <1>1, DifferencesAre
  <2> QED BY <1>1, <2>1 DEF d
<1> HIDE DEF d
<1>3. b \in Seq(Int) /\ Len(b) = Len(d) - 1 /\ Sums(d[1], b) = d
  BY <1>2, DifferencesAre
<1>4. d[1] \in Int
  <2>1. 1 \in 1 .. Len(d)
    BY <1>2
  <2> QED BY <1>2, <2>1, ElementOfSeq
<1> HIDE DEF b
<1>5. w = <<d[1]>> \o b
  BY DEF Turned, d, b
<1>6. <<d[1]>> \in Seq(Int) /\ Len(<<d[1]>>) = 1 /\ <<d[1]>>[1] = d[1]
  BY <1>4
<1> DEFINE h == <<d[1]>>
<1>7. w \in Seq(Int) /\ Concat(h, b, w)
  <2>1. h \o b \in Seq(Int) /\ Concat(h, b, h \o b)
    <3> HIDE DEF h
    <3> QED BY <1>3, <1>6, ConcatIs DEF h
  <2> QED BY <1>5, <2>1
<1>8. Len(w) = Len(v) - 1 /\ w[1] = d[1] /\ \A k \in 1 .. Len(b) : w[1 + k] = b[k]
  <2> HIDE DEF w
  <2>1. Len(h) = 1 /\ h[1] = d[1]
    BY <1>6
  <2> HIDE DEF h
  <2>2. 1 \in 1 .. Len(h)
    BY <2>1
  <2>3. /\ Len(w) = Len(h) + Len(b) /\ w[1] = h[1]
        /\ \A k \in 1 .. Len(b) : w[Len(h) + k] = b[k]
    BY <1>7, <2>2 DEF Concat
  <2>4. Len(w) = Len(v) - 1
    BY <1>2, <1>3, <2>1, <2>3
  <2> QED BY <2>1, <2>3, <2>4
<1>9. Tail(w) = b
  <2> HIDE DEF w, h
  <2>1. w # <<>>
    BY <1>2, <1>7, <1>8, EmptySeq
  <2>2. /\ Tail(w) \in Seq(Int) /\ Len(Tail(w)) = Len(w) - 1
        /\ \A k \in 1 .. Len(Tail(w)) : Tail(w)[k] = w[k + 1]
    BY <1>7, <2>1, HeadTailProperties
  <2> DEFINE u == Tail(w)
  <2>3. u \in Seq(Int) /\ Len(u) = Len(b) /\ \A k \in 1 .. Len(u) : u[k] = b[k]
    <3>1. Len(u) = Len(b)
      BY <1>2, <1>3, <1>8, <2>2
    <3>2. ASSUME NEW k \in 1 .. Len(u) PROVE u[k] = b[k]
      <4>1. k \in 1 .. Len(b) /\ k + 1 = 1 + k
        BY <3>1
      <4> QED BY <1>8, <2>2, <4>1
    <3> QED BY <2>2, <3>1, <3>2
  <2> HIDE DEF u
  <2>4. u = b
    BY <1>3, <2>3, SeqEqual
  <2> QED BY <2>4 DEF u
<1> HIDE DEF w
<1>10. Sums(w[1], Tail(w)) = d
  BY <1>3, <1>8, <1>9
<1> QED BY <1>2, <1>7, <1>8, <1>10 DEF w, d

LEMMA CodesOfType ==
  ASSUME NEW v \in Seq(Int), Len(v) >= 1, NEW mode
  PROVE  CodesOf(v, mode) \in Seq(Nat)
<1>1. Len(v) \in Nat /\ Differences(v) \in Seq(Int) /\ Len(Differences(v)) = Len(v) - 1
  BY LenProperties, DifferencesAre
<1>2. CASE mode = Constant \/ Differences(v) = <<>>
  BY <1>2 DEF CodesOf
<1>3. CASE ~(mode = Constant \/ Differences(v) = <<>>)
  <2>1. Len(v) > 1
    BY <1>1, <1>3, NoDifferences
  <2>2. Turned(v) \in Seq(Int)
    BY <2>1, TurnedIs
  <2>3. Differences(v)[1] \in Int
    <3>1. 1 \in 1 .. Len(Differences(v))
      BY <1>1, <2>1
    <3> QED BY <1>1, <3>1, ElementOfSeq
  <2>4. w_delta_code(Differences(v)[1]) \in Nat
    <3>1. zigzag(Differences(v)[1]) \in Nat
      BY <2>3, ZigzagIs
    <3> QED BY <3>1 DEF w_delta_code
  <2>5. <<w_delta_code(Differences(v)[1])>> \in Seq(Nat)
    BY <2>4
  <2>6. /\ encode_delta_sequence(Turned(v)) \in Seq(Nat)
        /\ encode_delta_sequence(Differences(v)) \in Seq(Nat)
    BY <1>1, <2>2, CodesType
  <2> QED BY <1>3, <2>5, <2>6 DEF CodesOf
<1> QED BY <1>2, <1>3

LEMMA ColumnType ==
  ASSUME NEW v, NEW is_signed \in BOOLEAN, IsColumn(v, is_signed), NEW mode
  PROVE  encode_column(v, is_signed, mode) \in Seq(Nat)
<1>1. CodesOf(v, mode) \in Seq(Nat)
  BY CodesOfType DEF IsColumn
<1>2. <<FirstOf(v, is_signed)>> \in Seq(Nat)
  BY FirstIs
<1>3. <<FirstOf(v, is_signed)>> \o CodesOf(v, mode) \in Seq(Nat)
  BY <1>1, <1>2, ConcatIs
<1> QED BY <1>3, EncodeIs

(* How many differences the receiver reads, and what it adds up.           *)
Need(n, mode) ==
  CASE mode = Constant -> 0 [] mode = Linear -> Smaller(n - 1, 1) [] OTHER -> n - 1

Steps(n, mode, e) ==
  CASE mode = Constant -> [i \in 1 .. n - 1 |-> 0]
    [] mode = Linear -> [i \in 1 .. n - 1 |-> e[1]]
    [] mode = Delta2 /\ n > 1 -> Sums(e[1], Tail(e))
    [] OTHER -> e

(* Constant: nothing is read.                                              *)
LEMMA NoneRead ==
  ASSUME NEW data \in Seq(Nat), NEW p \in Nat \ {0}, p - 1 <= Len(data)
  PROVE  ReadDeltas(data, p, 0) = [deltas |-> <<>>, next |-> p]
<1> DEFINE d == <<>>
           c == encode_delta_sequence(d)
<1>1. d \in Seq(Int) /\ Len(d) = 0
  OBVIOUS
<1> HIDE DEF d
<1>2. c = <<>>
  <2>1. 1 \in 1 .. Len(d) + 1 /\ 1 > Len(d)
    BY <1>1
  <2>2. Codes(d)[1] = FromIs(d, Codes(d), 1) /\ c = Codes(d)[1]
    BY <1>1, <2>1, CodesAre
  <2> HIDE DEF c
  <2> QED BY <2>1, <2>2 DEF FromIs
<1>3. Len(c) = 0 /\ Len(data) \in Nat
  BY <1>2, LenProperties
<1>4. Occurs(data, p, c)
  <2> HIDE DEF c
  <2> QED BY <1>3 DEF Occurs
<1>5. ReadDeltas(data, p, Len(d)) = [deltas |-> d, next |-> p + Len(c)]
  BY <1>1, <1>4, CodesRead
<1>6. ReadDeltas(data, p, 0) = [deltas |-> d, next |-> p]
  <2> HIDE DEF c
  <2>1. Len(d) = 0 /\ p + Len(c) = p
    BY <1>1, <1>3
  <2> QED BY <1>5, <2>1
<1> QED BY <1>6 DEF d

(* Linear: one difference is read.                                         *)
LEMMA OneRead ==
  ASSUME NEW data \in Seq(Nat), NEW p \in Nat \ {0}, NEW a \in Int,
         Occurs(data, p, <<w_delta_code(a)>>)
  PROVE  ReadDeltas(data, p, 1) = [deltas |-> <<a>>, next |-> p + 1]
<1> DEFINE read == CHOOSE g : g = [k \in 0 .. 1 |-> ReadIs(data, p, 1, g, k)]
           d == <<a>>
<1>1. ReadDeltas(data, p, 1) = read[1]
  BY DEF ReadDeltas, ReadIs
<1>2. read = [k \in 0 .. 1 |-> ReadIs(data, p, 1, read, k)]
  <2>1. \E g : g = [k \in 0 .. 1 |-> ReadIs(data, p, 1, g, k)]
    <3>1. 1 \in Nat
      OBVIOUS
    <3> QED BY <3>1, ReadExists, Zenon
  <2> QED BY <2>1, Zenon
<1> HIDE DEF read
<1>3. read[0] = ReadIs(data, p, 1, read, 0) /\ read[1] = ReadIs(data, p, 1, read, 1)
  <2>1. 0 \in 0 .. 1 /\ 1 \in 0 .. 1
    OBVIOUS
  <2>2. \A k \in 0 .. 1 : read[k] = ReadIs(data, p, 1, read, k)
    BY <1>2, Zenon
  <2> QED BY <2>1, <2>2, Zenon
<1>4. read[0] = [deltas |-> <<>>, next |-> p]
  BY <1>3, Zenon DEF ReadIs
<1>5. d \in Seq(Int) /\ Len(d) = 1 /\ d[1] = a
  OBVIOUS
<1>6. SubSeq(d, 1, 0) = <<>> /\ SubSeq(d, 1, 1) = d
  <2> HIDE DEF d
  <2>1. SubSeq(d, 1, 0) \in Seq(Int) /\ Len(SubSeq(d, 1, 0)) = 0
    BY <1>5, SubSeqIs
  <2>2. /\ SubSeq(d, 1, 1) \in Seq(Int) /\ Len(SubSeq(d, 1, 1)) = 1
        /\ \A k \in 1 .. 1 : SubSeq(d, 1, 1)[k] = d[k]
    BY <1>5, SubSeqIs
  <2>3. SubSeq(d, 1, 1) = d
    BY <1>5, <2>2, SeqEqual
  <2> QED BY <2>1, <2>3, EmptySeq
<1>7. read[0] = At(d, 0, p)
  BY <1>4, <1>6 DEF At
<1>8. Len(data) \in Nat /\ p \in 1 .. Len(data) /\ data[p] = w_delta_code(a)
  <2> DEFINE c == <<w_delta_code(a)>>
  <2>1. Len(c) = 1 /\ c[1] = w_delta_code(a)
    OBVIOUS
  <2>2. p - 1 + Len(c) <= Len(data) /\ \A k \in 1 .. Len(c) : data[p + k - 1] = c[k]
    BY DEF Occurs
  <2> HIDE DEF c
  <2>3. 1 \in 1 .. Len(c) /\ p + 1 - 1 = p
    BY <2>1
  <2> QED BY <2>1, <2>2, <2>3, LenProperties
<1>9. CodeLength(data, p) = 1 /\ CodeMeans(data, p) = <<a>>
  BY <1>8, SingleIs
<1>10. StandsFor(data, p, 1, d, 0, 1, a)
  <2> HIDE DEF d
  <2>1. CodeMeans(data, p) = [k \in 1 .. 1 |-> a]
    BY <1>9
  <2>2. \A k \in 1 .. 1 : d[0 + k] = a
    BY <1>5
  <2> QED BY <1>5, <1>8, <1>9, <2>1, <2>2 DEF StandsFor
<1> HIDE DEF d
<1>11. ReadCode(data, At(d, 0, p)) = At(d, 0 + 1, p + 1)
  BY <1>5, <1>10, CodeTaken
<1>12. read[1] = ReadCode(data, read[0])
  <2>1. 1 - 1 = 0 /\ Len(<<>>) = 0 /\ Len(<<>>) < 1 /\ read[0].deltas = <<>>
    BY <1>4
  <2>2. read[1] = IF Len(read[1 - 1].deltas) < 1 THEN ReadCode(data, read[1 - 1]) ELSE read[1 - 1]
    BY <1>3 DEF ReadIs
  <2> QED BY <2>1, <2>2
<1>13. read[1] = [deltas |-> d, next |-> p + 1]
  BY <1>6, <1>7, <1>11, <1>12 DEF At
<1> QED BY <1>1, <1>13 DEF d

(* In each mode the column can have, its differences are found.            *)
ReadsAs(data, p, v, mode, e) ==
  /\ e \in Seq(Int) /\ Len(e) = Need(Len(v), mode)
  /\ ReadDeltas(data, p, Need(Len(v), mode)) =
       [deltas |-> e, next |-> p + Len(CodesOf(v, mode))]
  /\ Steps(Len(v), mode, e) = Differences(v)

(* In each mode that can hold a column, its differences are read back.     *)
LEMMA StepsRead ==
  ASSUME NEW data \in Seq(Nat), NEW p \in Nat \ {0}, NEW v \in Seq(Int), Len(v) >= 1,
         NEW mode \in Modes(v), Occurs(data, p, CodesOf(v, mode))
  PROVE  \E e : ReadsAs(data, p, v, mode, e)
<1> DEFINE n == Len(v)
           d == Differences(v)
           c == CodesOf(v, mode)
<1>1. n \in Nat /\ n >= 1 /\ Len(data) \in Nat
  BY LenProperties
<1>2. /\ d \in Seq(Int) /\ Len(d) = n - 1 /\ \A i \in 1 .. n - 1 : d[i] = v[i + 1] - v[i]
      /\ d = <<>> <=> n = 1
  BY DifferencesAre, NoDifferences
<1>3. c \in Seq(Nat) /\ Len(c) \in Nat /\ p - 1 <= Len(data)
  <2>1. c \in Seq(Nat)
    BY CodesOfType
  <2>2. p - 1 + Len(c) <= Len(data)
    BY DEF Occurs
  <2> HIDE DEF c
  <2> QED BY <1>1, <2>1, <2>2, LenProperties
<1> HIDE DEF n, d
<1>4. \A i \in 1 .. n : v[i] \in Int
  BY ElementOfSeq DEF n
<1>5. mode \in {Delta, Delta2, Constant, Linear}
  BY DEF Modes
<1>6. Delta = 0 /\ Delta2 = 1 /\ Constant = 2 /\ Linear = 3
  BY DEF Delta, Delta2, Constant, Linear
<1>7. ReadDeltas(data, p, 0) = [deltas |-> <<>>, next |-> p]
  BY <1>3, NoneRead
<1>8. <<>> \in Seq(Int) /\ Len(<<>>) = 0 /\ p + 0 = p
  OBVIOUS
<1>9. CASE mode = Constant
  <2>1. c = <<>>
    BY <1>9 DEF CodesOf
  <2>2. Unvarying(v)
    BY <1>6, <1>9 DEF Modes
  <2>3. ASSUME NEW i \in 1 .. n - 1 PROVE d[i] = 0
    <3>1. i \in 1 .. n /\ i + 1 \in 1 .. n /\ 1 \in 1 .. n
      BY <1>1
    <3>2. v[i] = v[1] /\ v[i + 1] = v[1] /\ v[1] \in Int
      BY <1>4, <2>2, <3>1 DEF Unvarying, n
    <3> QED BY <1>2, <3>2
  <2>4. d = [i \in 1 .. n - 1 |-> 0]
    <3>1. d = [i \in 1 .. n - 1 |-> d[i]]
      BY <1>2
    <3> QED BY <2>3, <3>1
  <2>5. Need(n, mode) = 0 /\ Steps(n, mode, <<>>) = [i \in 1 .. n - 1 |-> 0]
    <3>1. mode # Linear /\ mode # Delta2
      BY <1>6, <1>9
    <3> QED BY <1>9, <3>1 DEF Need, Steps
  <2>6. ReadsAs(data, p, v, mode, <<>>)
    BY <1>7, <1>8, <2>1, <2>4, <2>5 DEF ReadsAs, n, d
  <2> QED BY <2>6
<1>10. CASE mode = Linear
  <2>0. mode # Constant /\ mode # Delta2
    BY <1>6, <1>10
  <2>1. CASE n = 1
    <3>1. d = <<>> /\ c = <<>>
      BY <1>2, <2>1 DEF CodesOf, d
    <3>2. Need(n, mode) = 0
      BY <1>10, <2>0, <2>1 DEF Need, Smaller
    <3>3. Steps(n, mode, <<>>) = [i \in 1 .. n - 1 |-> <<>>[1]]
      BY <1>10, <2>0 DEF Steps
    <3>4. [i \in 1 .. n - 1 |-> <<>>[1]] = d
      <4>1. d = [i \in 1 .. n - 1 |-> d[i]] /\ 1 .. n - 1 = {}
        BY <1>2, <2>1
      <4> QED BY <4>1
    <3>5. ReadsAs(data, p, v, mode, <<>>)
      BY <1>7, <1>8, <3>1, <3>2, <3>3, <3>4 DEF ReadsAs, n, d
    <3> QED BY <3>5
  <2>2. CASE n # 1
    <3> DEFINE a == d[1]
    <3>1. 1 \in 1 .. Len(d) /\ Len(d) = n - 1
      BY <1>1, <1>2, <2>2
    <3>2. a \in Int
      BY <1>2, <3>1, ElementOfSeq
    <3>3. c = <<w_delta_code(a)>>
      BY <1>2, <1>10, <2>0, <2>2 DEF CodesOf, d
    <3>4. Need(n, mode) = 1
      <4>1. ~(n - 1 < 1)
        BY <1>1, <2>2
      <4> QED BY <1>10, <2>0, <4>1 DEF Need, Smaller
    <3>5. ReadDeltas(data, p, 1) = [deltas |-> <<a>>, next |-> p + 1]
      <4>1. Occurs(data, p, <<w_delta_code(a)>>)
        BY <3>3
      <4> HIDE DEF a
      <4> QED BY <3>2, <4>1, OneRead
    <3>6. Unvarying(d)
      BY <1>6, <1>10 DEF Modes, d
    <3>7. d = [i \in 1 .. n - 1 |-> a]
      <4>1. d = [i \in 1 .. n - 1 |-> d[i]]
        BY <1>2
      <4>2. \A i \in 1 .. n - 1 : d[i] = a
        <5>1. DOMAIN d = 1 .. n - 1
          BY <1>2
        <5> QED BY <3>6, <5>1 DEF Unvarying
      <4> HIDE DEF a
      <4> QED BY <4>1, <4>2
    <3> DEFINE e == <<a>>
    <3>8. e \in Seq(Int) /\ Len(e) = 1 /\ e[1] = a
      BY <3>2
    <3>9. Len(c) = 1
      BY <3>3
    <3> HIDE DEF e, a
    <3>10. Steps(n, mode, e) = [i \in 1 .. n - 1 |-> a]
      BY <1>10, <2>0, <3>8 DEF Steps
    <3>11. ReadsAs(data, p, v, mode, e)
      BY <3>4, <3>5, <3>7, <3>8, <3>9, <3>10 DEF ReadsAs, n, d, e
    <3> QED BY <3>11
  <2> QED BY <2>1, <2>2
<1>11. CASE mode = Delta \/ mode = Delta2
  <2>0. mode # Constant /\ mode # Linear /\ Need(n, mode) = n - 1
    BY <1>6, <1>11 DEF Need
  <2>1. CASE n = 1
    <3>1. d = <<>> /\ c = <<>>
      BY <1>2, <2>1 DEF CodesOf, d
    <3>2. Need(n, mode) = 0
      BY <2>0, <2>1
    <3>3. Steps(n, mode, <<>>) = <<>>
      <4>1. ~(n > 1)
        BY <2>1
      <4> QED BY <2>0, <4>1 DEF Steps
    <3>4. ReadsAs(data, p, v, mode, <<>>)
      BY <1>7, <1>8, <3>1, <3>2, <3>3 DEF ReadsAs, n, d
    <3> QED BY <3>4
  <2>2. CASE n # 1
    <3> DEFINE e == IF mode = Delta2 THEN Turned(v) ELSE d
    <3>1. n > 1
      BY <1>1, <2>2
    <3>2. /\ Turned(v) \in Seq(Int) /\ Len(Turned(v)) = n - 1
          /\ Sums(Turned(v)[1], Tail(Turned(v))) = d
      BY <3>1, TurnedIs DEF n, d
    <3>3. e \in Seq(Int) /\ Len(e) = n - 1
      BY <1>2, <3>2
    <3>4. c = encode_delta_sequence(e)
      BY <1>2, <2>0, <2>2 DEF CodesOf, d
    <3>5. Steps(n, mode, e) = d
      <4>1. CASE mode = Delta2
        BY <1>6, <2>0, <3>1, <3>2, <4>1 DEF Steps
      <4>2. CASE mode # Delta2
        BY <2>0, <4>2 DEF Steps
      <4> QED BY <4>1, <4>2
    <3> HIDE DEF e, c
    <3>6. ReadDeltas(data, p, Len(e)) = [deltas |-> e, next |-> p + Len(c)]
      <4>1. Occurs(data, p, encode_delta_sequence(e))
        BY <3>4 DEF c
      <4> QED BY <3>3, <3>4, <4>1, CodesRead
    <3>7. ReadsAs(data, p, v, mode, e)
      BY <2>0, <3>3, <3>5, <3>6 DEF ReadsAs, n, d, c
    <3> QED BY <3>7
  <2> QED BY <2>1, <2>2
<1> QED BY <1>5, <1>9, <1>10, <1>11

(* A column is read back as it was, and the receiver is behind it.         *)
THEOREM ColumnRead ==
  ASSUME NEW data \in Seq(Nat), NEW p \in Nat \ {0}, NEW v, NEW is_signed \in BOOLEAN,
         IsColumn(v, is_signed), NEW mode \in Modes(v),
         Occurs(data, p, encode_column(v, is_signed, mode))
  PROVE  ReadColumn(data, p, Len(v), is_signed, mode) =
           [values |-> v, next |-> p + Len(encode_column(v, is_signed, mode)), whole |-> TRUE]
<1> DEFINE f == FirstOf(v, is_signed)
           h == <<f>>
           c == CodesOf(v, mode)
           n == Len(v)
<1>1. v \in Seq(Int) /\ n >= 1 /\ Len(data) \in Nat
  BY LenProperties DEF IsColumn
<1>2. f \in Nat /\ (IF is_signed THEN Unzigzag(f) ELSE f) = v[1]
  BY FirstIs
<1>3. c \in Seq(Nat)
  BY <1>1, CodesOfType
<1>4. encode_column(v, is_signed, mode) = h \o c
  BY EncodeIs
<1> HIDE DEF f, c, n
<1>5. h \in Seq(Nat) /\ Len(h) = 1 /\ h[1] = f
  BY <1>2
<1> HIDE DEF h
<1>6. Occurs(data, p, h) /\ Occurs(data, p + 1, c)
  <2>1. Occurs(data, p, h) /\ Occurs(data, p + Len(h), c)
    BY <1>3, <1>4, <1>5, OccursParts
  <2> QED BY <1>5, <2>1
<1>7. Len(h \o c) = 1 + Len(c) /\ Len(c) \in Nat
  <2>1. Concat(h, c, h \o c)
    BY <1>3, <1>5, ConcatIs
  <2> QED BY <1>5, <2>1 DEF Concat
<1>8. data[p] = f /\ ~(p > Len(data))
  <2>1. 1 \in 1 .. Len(h) /\ p + 1 - 1 = p
    BY <1>5
  <2>2. p - 1 + Len(h) <= Len(data) /\ \A k \in 1 .. Len(h) : data[p + k - 1] = h[k]
    BY <1>6 DEF Occurs
  <2> QED BY <1>1, <1>5, <2>1, <2>2
<1>9. PICK e : ReadsAs(data, p + 1, v, mode, e)
  <2>1. p + 1 \in Nat \ {0} /\ Occurs(data, p + 1, CodesOf(v, mode)) /\ Len(v) >= 1
    BY <1>1, <1>6 DEF c, n
  <2> QED BY <1>1, <2>1, StepsRead
<1>10. /\ Len(e) = Need(n, mode)
       /\ ReadDeltas(data, p + 1, Need(n, mode)) = [deltas |-> e, next |-> p + 1 + Len(c)]
       /\ Steps(n, mode, e) = Differences(v)
  BY <1>9 DEF ReadsAs, n, c
<1>11. Sums(v[1], Steps(n, mode, e)) = v
  BY <1>1, <1>10, DifferencesAre DEF n
<1> DEFINE d == ReadDeltas(data, p + 1, Need(n, mode))
<1>12. ReadColumn(data, p, n, is_signed, mode) =
         IF p > Len(data) \/ Len(d.deltas) # Need(n, mode)
         THEN [values |-> [i \in 1 .. n |-> 0], next |-> p, whole |-> FALSE]
         ELSE [values |-> Sums(IF is_signed THEN Unzigzag(data[p]) ELSE data[p],
                               Steps(n, mode, d.deltas)),
               next |-> d.next, whole |-> TRUE]
  BY DEF ReadColumn, Need, Steps
<1>13. d.deltas = e /\ d.next = p + 1 + Len(c)
  BY <1>10
<1> HIDE DEF d
<1>14. ReadColumn(data, p, n, is_signed, mode) =
         [values |-> Sums(v[1], Steps(n, mode, e)), next |-> p + 1 + Len(c), whole |-> TRUE]
  BY <1>2, <1>8, <1>10, <1>12, <1>13
<1>15. p + 1 + Len(c) = p + Len(h \o c)
  BY <1>7
<1>16. ReadColumn(data, p, n, is_signed, mode) =
         [values |-> v, next |-> p + Len(h \o c), whole |-> TRUE]
  BY <1>11, <1>14, <1>15, Zenon
<1> QED BY <1>4, <1>16 DEF n

-----------------------------------------------------------------------------
(* The mode that is chosen is one the column can have.                     *)
IsBest(v, is_signed, best) ==
  \A mode \in Modes(v) :
    \/ Size(encode_column(v, is_signed, best)) < Size(encode_column(v, is_signed, mode))
    \/ /\ Size(encode_column(v, is_signed, best)) = Size(encode_column(v, is_signed, mode))
       /\ Turn(best) <= Turn(mode)

(* The mode that is chosen can hold the column.                            *)
LEMMA ChosenMode ==
  ASSUME NEW v, NEW is_signed \in BOOLEAN, IsColumn(v, is_signed)
  PROVE  choose_column_mode(v, is_signed) \in Modes(v)
<1> DEFINE length(mode) == Size(encode_column(v, is_signed, mode))
           L == {length(mode) : mode \in Modes(v)}
<1>1. Delta \in Modes(v) /\ \A mode \in Modes(v) : Turn(mode) \in Nat
  BY DEF Modes, Turn, Delta, Delta2, Constant, Linear
<1>2. \A mode \in Modes(v) : length(mode) \in Nat
  BY ColumnType, SizeIsNat
<1> HIDE DEF length
<1>3. L \subseteq Nat /\ L # {}
  BY <1>1, <1>2
<1> HIDE DEF L
<1>4. PICK l \in L : \A k \in L : l <= k
  BY <1>3, LeastOf
<1> DEFINE M == {mode \in Modes(v) : length(mode) = l}
           T == {Turn(mode) : mode \in M}
<1>5. T \subseteq Nat /\ T # {}
  BY <1>1, <1>4 DEF L
<1> HIDE DEF T
<1>6. PICK t \in T : \A k \in T : t <= k
  BY <1>5, LeastOf
<1>7. PICK best \in M : Turn(best) = t
  BY <1>6 DEF T
<1>8. best \in Modes(v) /\ length(best) = l
  BY <1>7
<1>9. ASSUME NEW mode \in Modes(v)
      PROVE  \/ length(best) < length(mode)
             \/ length(best) = length(mode) /\ Turn(best) <= Turn(mode)
  <2>1. l <= length(mode)
    BY <1>4 DEF L
  <2>2. CASE length(mode) = l
    <3>1. Turn(mode) \in T
      BY <2>2 DEF T
    <3> QED BY <1>6, <1>7, <1>8, <2>2, <3>1
  <2>3. CASE length(mode) # l
    <3>1. l \in Nat /\ length(mode) \in Nat
      BY <1>2, <1>3
    <3> QED BY <1>8, <2>1, <2>3, <3>1
  <2> QED BY <2>2, <2>3
<1>10. IsBest(v, is_signed, best)
  BY <1>9 DEF IsBest, length
<1>11. choose_column_mode(v, is_signed) = CHOOSE b \in Modes(v) : IsBest(v, is_signed, b)
  BY DEF choose_column_mode, IsBest
<1> QED BY <1>8, <1>10, <1>11, Zenon

-----------------------------------------------------------------------------
(* The columns of a batch, and the layouts made of them.                   *)
IsRow(row) ==
  /\ row.fixed[1] \in Int /\ row.fixed[2] \in Nat /\ row.fixed[3] \in Nat
  /\ \A j \in 1 .. MAX_CELLS : row.cells[j] \in Nat

IsBatch(batch) ==
  /\ Len(batch) \in Nat \ {0} /\ DOMAIN batch = 1 .. Len(batch)
  /\ \A i \in 1 .. Len(batch) : IsRow(batch[i])

ColumnOf(row, idx, spatial) ==
  IF idx <= 3 THEN row.fixed[idx]
  ELSE IF idx - 3 = 1 THEN row.cells[1]
  ELSE row.cells[idx - 3] - row.cells[IF spatial THEN idx - 3 - 1 ELSE 1]

(* What build_column makes is a column the encoder can be given.           *)
LEMMA BuildIs ==
  ASSUME NEW batch, IsBatch(batch), NEW cells \in 0 .. MAX_CELLS, NEW idx \in 1 .. 3 + cells,
         NEW spatial \in BOOLEAN
  PROVE  /\ IsSigned(idx) \in BOOLEAN
         /\ IsColumn(build_column(batch, idx, spatial), IsSigned(idx))
         /\ Len(build_column(batch, idx, spatial)) = Len(batch)
         /\ \A i \in 1 .. Len(batch) :
              build_column(batch, idx, spatial)[i] = ColumnOf(batch[i], idx, spatial)
<1>1. MAX_CELLS \in Nat /\ cells \in Nat /\ cells <= MAX_CELLS /\ idx \in Nat \ {0}
  BY HistAssumption
<1> DEFINE n == Len(batch)
           v == build_column(batch, idx, spatial)
<1>2. n \in Nat /\ n >= 1 /\ DOMAIN batch = 1 .. n
  BY DEF IsBatch
<1>3. ASSUME NEW i \in 1 .. n
      PROVE  /\ ColumnOf(batch[i], idx, spatial) \in Int
             /\ idx \in {2, 3, 4} => ColumnOf(batch[i], idx, spatial) \in Nat
  <2> DEFINE row == batch[i]
  <2>1. IsRow(row)
    BY DEF IsBatch
  <2> HIDE DEF row
  <2>2. CASE idx <= 3
    <3>1. idx \in {1, 2, 3}
      BY <1>1, <2>2
    <3> QED BY <2>1, <3>1 DEF IsRow, ColumnOf, row
  <2>3. CASE ~(idx <= 3)
    <3> DEFINE j == idx - 3
               k == IF spatial THEN idx - 3 - 1 ELSE 1
    <3>1. j \in 1 .. MAX_CELLS /\ 1 \in 1 .. MAX_CELLS /\ (j = 1 <=> idx = 4)
      BY <1>1, <2>3
    <3>2. CASE j = 1
      <4>1. ColumnOf(row, idx, spatial) = row.cells[1]
        BY <2>3, <3>2 DEF ColumnOf
      <4> QED BY <2>1, <3>1, <4>1 DEF IsRow, row
    <3>3. CASE j # 1
      <4>1. k \in 1 .. MAX_CELLS
        BY <1>1, <3>1, <3>3
      <4>2. ColumnOf(row, idx, spatial) = row.cells[j] - row.cells[k]
        BY <2>3, <3>3 DEF ColumnOf
      <4>3. ~(idx \in {2, 3, 4})
        BY <2>3, <3>1, <3>3
      <4> HIDE DEF j, k
      <4>4. row.cells[j] \in Nat /\ row.cells[k] \in Nat
        BY <2>1, <3>1, <4>1 DEF IsRow
      <4> QED BY <4>2, <4>3, <4>4 DEF row
    <3> QED BY <3>2, <3>3
  <2> QED BY <2>2, <2>3
<1>4. v = [i \in 1 .. n |-> ColumnOf(batch[i], idx, spatial)]
  BY <1>2 DEF build_column, ColumnOf
<1> DEFINE F(i) == ColumnOf(batch[i], idx, spatial)
<1>5. /\ v \in Seq(Int) /\ Len(v) = n /\ \A i \in 1 .. n : v[i] = F(i)
  <2>1. \A i \in 1 .. n : F(i) \in Int
    BY <1>3
  <2>2. v = [i \in 1 .. n |-> F(i)]
    BY <1>4
  <2> HIDE DEF v, n, F
  <2>3. v \in [1 .. n -> Int]
    BY <2>1, <2>2
  <2> QED BY <1>2, <2>2, <2>3
<1>6. IsSigned(idx) \in BOOLEAN /\ (~IsSigned(idx) => idx \in {2, 3, 4})
  <2>1. CASE idx <= 3
    <3>1. idx \in {1, 2, 3}
      BY <1>1, <2>1
    <3> QED BY <3>1 DEF IsSigned
  <2>2. CASE ~(idx <= 3)
    BY <1>1, <2>2 DEF IsSigned
  <2> QED BY <2>1, <2>2
<1>7. IsColumn(v, IsSigned(idx))
  <2>1. ~IsSigned(idx) => v[1] \in Nat
    <3>1. 1 \in 1 .. n
      BY <1>2
    <3> HIDE DEF v, n
    <3> QED BY <1>3, <1>5, <1>6, <3>1
  <2> HIDE DEF v
  <2> QED BY <1>2, <1>5, <1>6, <2>1 DEF IsColumn
<1> HIDE DEF v, n
<1>8. \A i \in 1 .. n : v[i] = ColumnOf(batch[i], idx, spatial)
  BY <1>5
<1> QED BY <1>5, <1>6, <1>7, <1>8 DEF v, n

UptoIs(batch, spatial, modes, g, k) ==
  IF k = 0 THEN <<>> ELSE g[k - 1] \o Column(batch, spatial, modes, k)

HasUpto(batch, spatial, modes, n) ==
  \E g : g = [k \in 0 .. n |-> UptoIs(batch, spatial, modes, g, k)]

(* The recursion of Layout has a solution.                                 *)
LEMMA UptoExists ==
  ASSUME NEW batch, NEW spatial, NEW modes, NEW n \in Nat
  PROVE  HasUpto(batch, spatial, modes, n)
<1> DEFINE S == {k \in 0 .. n : \E g : g = [i \in 0 .. k |-> UptoIs(batch, spatial, modes, g, i)]}
<1>1. n \in Nat
  OBVIOUS
<1>2. 0 \in S
  <2> DEFINE h == [i \in 0 .. 0 |-> UptoIs(batch, spatial, modes, 0, i)]
  <2>1. h = [i \in 0 .. 0 |-> UptoIs(batch, spatial, modes, h, i)]
    BY DEF UptoIs
  <2>2. 0 \in 0 .. n
    BY <1>1
  <2> HIDE DEF h
  <2> QED BY <2>1, <2>2
<1>3. ASSUME NEW k \in 1 .. n, k - 1 \in S PROVE k \in S
  <2>1. PICK g : g = [i \in 0 .. k - 1 |-> UptoIs(batch, spatial, modes, g, i)]
    BY <1>3
  <2> DEFINE h == [i \in 0 .. k |-> UptoIs(batch, spatial, modes, g, i)]
  <2>2. ASSUME NEW i \in 0 .. k PROVE UptoIs(batch, spatial, modes, h, i) = UptoIs(batch, spatial, modes, g, i)
    <3>1. CASE i = 0
      BY <3>1 DEF UptoIs
    <3>2. CASE i # 0
      <4>1. i - 1 \in 0 .. k - 1 /\ i - 1 \in 0 .. k
        BY <3>2
      <4>2. h[i - 1] = g[i - 1]
        BY <2>1, <4>1
      <4> HIDE DEF h
      <4> QED BY <3>2, <4>2 DEF UptoIs
    <3> QED BY <3>1, <3>2
  <2>3. h = [i \in 0 .. k |-> UptoIs(batch, spatial, modes, h, i)]
    BY <2>2
  <2> HIDE DEF h
  <2> QED BY <1>3, <2>3
<1> HIDE DEF S
<1>4. \A k \in 0 .. n : k \in S
  BY <1>1, <1>2, <1>3, Upwards
<1>5. n \in S
  BY <1>1, <1>4
<1> QED BY <1>5 DEF S, HasUpto

Upto(batch, cells, spatial, modes) ==
  CHOOSE g : g = [k \in 0 .. 3 + cells |-> UptoIs(batch, spatial, modes, g, k)]

(* It is the data of the layout, column by column.                         *)
LEMMA UptoAre ==
  ASSUME NEW batch, IsBatch(batch), NEW cells \in 0 .. MAX_CELLS, NEW spatial \in BOOLEAN,
         NEW modes
  PROVE  LET upto == Upto(batch, cells, spatial, modes)
         IN  /\ upto[0] = <<>>
             /\ \A k \in 1 .. 3 + cells :
                  /\ upto[k] = upto[k - 1] \o Column(batch, spatial, modes, k)
                  /\ Column(batch, spatial, modes, k) \in Seq(Nat)
             /\ \A k \in 0 .. 3 + cells : upto[k] \in Seq(Nat)
             /\ Layout(batch, cells, spatial, modes) =
                  [count |-> Len(batch) - 1, cells |-> cells, spatial |-> spatial,
                   modes |-> modes, data |-> upto[3 + cells]]
<1> DEFINE upto == Upto(batch, cells, spatial, modes)
           n == 3 + cells
           S == {k \in 0 .. n : upto[k] \in Seq(Nat)}
<1>1. n \in Nat /\ cells \in Nat
  BY HistAssumption
<1>2. Layout(batch, cells, spatial, modes) =
        [count |-> Len(batch) - 1, cells |-> cells, spatial |-> spatial,
         modes |-> modes, data |-> upto[n]]
  BY DEF Layout, Upto, UptoIs
<1>3. upto = [k \in 0 .. n |-> UptoIs(batch, spatial, modes, upto, k)]
  <2> HIDE DEF S, upto, n
  <2>1. HasUpto(batch, spatial, modes, n)
    BY <1>1, UptoExists
  <2>2. upto = CHOOSE g : g = [k \in 0 .. n |-> UptoIs(batch, spatial, modes, g, k)]
    BY DEF upto, n, Upto
  <2> QED BY <2>1, <2>2, Zenon DEF HasUpto
<1> HIDE DEF upto, n
<1>4. \A k \in 0 .. n : upto[k] = UptoIs(batch, spatial, modes, upto, k)
  BY <1>3
<1>5. upto[0] = <<>>
  BY <1>1, <1>4 DEF UptoIs
<1>6. ASSUME NEW k \in 1 .. n
      PROVE  /\ upto[k] = upto[k - 1] \o Column(batch, spatial, modes, k)
             /\ Column(batch, spatial, modes, k) \in Seq(Nat)
  <2>1. k \in 0 .. n /\ k # 0 /\ k \in 1 .. 3 + cells
    BY <1>1 DEF n
  <2>2. upto[k] = upto[k - 1] \o Column(batch, spatial, modes, k)
    BY <1>4, <2>1 DEF UptoIs
  <2>3. IsSigned(k) \in BOOLEAN /\ IsColumn(build_column(batch, k, spatial), IsSigned(k))
    BY <2>1, BuildIs
  <2>4. Column(batch, spatial, modes, k) \in Seq(Nat)
    BY <2>3, ColumnType DEF Column
  <2> QED BY <2>2, <2>4
<1>7. 0 \in S
  <2>1. <<>> \in Seq(Nat)
    OBVIOUS
  <2>2. upto[0] \in Seq(Nat)
    BY <1>5, <2>1, Zenon
  <2> QED BY <1>1, <2>2
<1>8. ASSUME NEW k \in 1 .. n, k - 1 \in S PROVE k \in S
  <2>1. upto[k - 1] \in Seq(Nat) /\ Column(batch, spatial, modes, k) \in Seq(Nat)
    BY <1>6, <1>8
  <2>2. upto[k - 1] \o Column(batch, spatial, modes, k) \in Seq(Nat)
    BY <2>1, ConcatIs
  <2>3. upto[k] \in Seq(Nat)
    BY <1>6, <2>2
  <2> QED BY <2>3
<1> HIDE DEF S
<1>9. \A k \in 0 .. n : k \in S
  BY <1>1, <1>7, <1>8, Upwards
<1>10. \A k \in 0 .. n : upto[k] \in Seq(Nat)
  BY <1>9 DEF S
<1> QED BY <1>2, <1>5, <1>6, <1>10 DEF upto, n

(* Each column stands in the data behind those before it.                  *)
LEMMA ColumnsStand ==
  ASSUME NEW batch, IsBatch(batch), NEW cells \in 0 .. MAX_CELLS, NEW spatial \in BOOLEAN,
         NEW modes
  PROVE  LET upto == Upto(batch, cells, spatial, modes)
         IN  \A k \in 1 .. 3 + cells :
               Occurs(upto[3 + cells], 1 + Len(upto[k - 1]), Column(batch, spatial, modes, k))
<1> DEFINE upto == Upto(batch, cells, spatial, modes)
           n == 3 + cells
           col(k) == Column(batch, spatial, modes, k)
           Stands(m) == \A k \in 1 .. m : Occurs(upto[m], 1 + Len(upto[k - 1]), col(k))
           S == {m \in 0 .. n : Stands(m)}
<1>1. n \in Nat
  BY HistAssumption
<1>2. /\ \A k \in 1 .. n : upto[k] = upto[k - 1] \o col(k) /\ col(k) \in Seq(Nat)
      /\ \A k \in 0 .. n : upto[k] \in Seq(Nat)
  BY UptoAre
<1> HIDE DEF upto, n, col
<1>3. 0 \in S
  BY <1>1
<1>4. ASSUME NEW m \in 1 .. n, m - 1 \in S PROVE m \in S
  <2> DEFINE a == upto[m - 1]
             c == col(m)
  <2>1. m - 1 \in 0 .. n /\ m \in 0 .. n
    BY <1>1
  <2>2. a \in Seq(Nat) /\ c \in Seq(Nat) /\ upto[m] = a \o c
    BY <1>2, <2>1
  <2> HIDE DEF a, c
  <2>3. ASSUME NEW k \in 1 .. m PROVE Occurs(upto[m], 1 + Len(upto[k - 1]), col(k))
    <3>1. CASE k = m
      <4>1. Occurs(a \o c, 1 + Len(a), c)
        BY <2>2, OccursBehind
      <4> QED BY <2>2, <3>1, <4>1 DEF a, c
    <3>2. CASE k # m
      <4> DEFINE p == 1 + Len(upto[k - 1])
      <4>1. k \in 1 .. m - 1 /\ k \in 1 .. n /\ k - 1 \in 0 .. n
        BY <1>1, <3>2
      <4>2. Occurs(a, p, col(k))
        BY <1>4, <4>1 DEF a
      <4>3. col(k) \in Seq(Nat) /\ p \in Nat \ {0}
        <5>1. upto[k - 1] \in Seq(Nat)
          BY <1>2, <4>1
        <5>2. Len(upto[k - 1]) \in Nat
          BY <5>1, LenProperties
        <5> QED BY <1>2, <4>1, <5>2
      <4> HIDE DEF p
      <4>4. Occurs(a \o c, p, col(k))
        BY <2>2, <4>2, <4>3, OccursOn
      <4> QED BY <2>2, <4>4 DEF p
    <3> QED BY <3>1, <3>2
  <2> QED BY <2>1, <2>3
<1> HIDE DEF S
<1>5. \A m \in 0 .. n : m \in S
  BY <1>1, <1>3, <1>4, Upwards
<1>6. n \in S
  BY <1>1, <1>5
<1>7. Stands(n)
  BY <1>6 DEF S
<1> QED BY <1>7 DEF upto, n, col

(* Modes the columns can have.                                             *)
Suits(batch, cells, spatial, modes) ==
  \A idx \in 1 .. 3 + cells :
    (IF modes = <<>> THEN Delta ELSE modes[idx]) \in Modes(build_column(batch, idx, spatial))

Best(batch, cells, spatial) ==
  [idx \in 1 .. 3 + cells |->
     choose_column_mode(build_column(batch, idx, spatial), IsSigned(idx))]

(* The chosen modes can hold their columns, and Delta holds all.           *)
LEMMA BestSuits ==
  ASSUME NEW batch, IsBatch(batch), NEW cells \in 0 .. MAX_CELLS, NEW spatial \in BOOLEAN
  PROVE  /\ Suits(batch, cells, spatial, <<>>)
         /\ Suits(batch, cells, spatial, Best(batch, cells, spatial))
         /\ Len(Best(batch, cells, spatial)) = 3 + cells
<1> DEFINE best == Best(batch, cells, spatial)
           n == 3 + cells
           F(idx) == choose_column_mode(build_column(batch, idx, spatial), IsSigned(idx))
<1>1. n \in Nat /\ n >= 1 /\ 1 .. n # {}
  <2>1. n \in Nat /\ n >= 1
    BY HistAssumption
  <2>2. 1 \in 1 .. n
    BY <2>1
  <2> QED BY <2>1, <2>2
<1>2. \A idx \in 1 .. n : F(idx) \in Modes(build_column(batch, idx, spatial))
  BY BuildIs, ChosenMode
<1>3. best = [idx \in 1 .. n |-> F(idx)]
  BY DEF Best
<1> HIDE DEF best, n, F
<1>4. Len(best) = n /\ \A idx \in 1 .. n : best[idx] = F(idx)
  BY <1>1, <1>3
<1>5. best # <<>>
  BY <1>1, <1>4
<1>6. Suits(batch, cells, spatial, best)
  BY <1>2, <1>4, <1>5 DEF Suits, n
<1>7. Suits(batch, cells, spatial, <<>>)
  BY DEF Suits, Modes
<1> QED BY <1>4, <1>6, <1>7 DEF best, n

(* The size of a layout is that of its parts.                              *)
LEMMA BytesAre ==
  ASSUME NEW batch, IsBatch(batch), NEW cells \in 0 .. MAX_CELLS, NEW spatial \in BOOLEAN,
         NEW modes, Len(modes) \in Nat
  PROVE  LET m == Layout(batch, cells, spatial, modes)
         IN  /\ Bytes(m) \in Int /\ Size(m.data) \in Nat
             /\ HeaderSize(m) \in Nat /\ ModeSize(m.modes) \in Nat
             /\ uvarint_len(m.count) \in Nat
             /\ m.count = Len(batch) - 1 /\ m.cells = cells /\ m.spatial = spatial
             /\ m.modes = modes
<1> DEFINE m == Layout(batch, cells, spatial, modes)
           upto == Upto(batch, cells, spatial, modes)
<1>1. /\ m = [count |-> Len(batch) - 1, cells |-> cells, spatial |-> spatial,
              modes |-> modes, data |-> upto[3 + cells]]
      /\ upto[3 + cells] \in Seq(Nat)
  <2>1. 3 + cells \in 0 .. 3 + cells
    BY HistAssumption
  <2> QED BY <2>1, UptoAre
<1> HIDE DEF m, upto
<1>2. /\ m.count = Len(batch) - 1 /\ m.cells = cells /\ m.spatial = spatial /\ m.modes = modes
      /\ m.data \in Seq(Nat)
  BY <1>1
<1>3. Size(m.data) \in Nat
  BY <1>2, SizeIsNat
<1>4. uvarint_len(m.count) \in Nat
  <2>1. m.count \in Nat
    BY <1>2 DEF IsBatch
  <2> QED BY <2>1, LenIsNat
<1>5. HeaderSize(m) \in Nat
  <2>1. Header(m.cells, m.spatial, m.modes) \in Nat
    <3>1. cells \in Nat
      BY HistAssumption
    <3> QED BY <1>2, <3>1 DEF Header
  <2> QED BY <2>1, LenIsNat DEF HeaderSize
<1>6. ModeSize(m.modes) \in Nat
  <2>1. 2 * Len(modes) + 7 \in Nat
    OBVIOUS
  <2> QED BY <1>2, <2>1 DEF ModeSize
<1>7. Bytes(m) \in Int
  BY <1>3, <1>4, <1>5, <1>6 DEF Bytes
<1> QED BY <1>2, <1>3, <1>4, <1>5, <1>6, <1>7 DEF m

(* The layout that is taken is not longer than without modes.              *)
LEMMA LayoutTaken ==
  ASSUME NEW batch, IsBatch(batch), NEW cells \in 0 .. MAX_CELLS, NEW spatial \in BOOLEAN
  PROVE  LET m == encode_layout(batch, cells, spatial)
             plain == Layout(batch, cells, spatial, <<>>)
         IN  /\ Bytes(m) \in Int /\ Bytes(plain) \in Int /\ Bytes(m) <= Bytes(plain)
             /\ m.spatial = spatial
             /\ \E modes : Suits(batch, cells, spatial, modes)
                             /\ m = Layout(batch, cells, spatial, modes)
<1> DEFINE best == Best(batch, cells, spatial)
           with == Layout(batch, cells, spatial, best)
           without == Layout(batch, cells, spatial, <<>>)
           saved == Size(without.data) - Size(with.data)
           m == encode_layout(batch, cells, spatial)
<1>1. cells \in Nat
  BY HistAssumption
<1>2. /\ Suits(batch, cells, spatial, <<>>) /\ Suits(batch, cells, spatial, best)
      /\ Len(best) \in Nat
  BY <1>1, BestSuits
<1>3. m = IF UseModes(saved, with, without) THEN with ELSE without
  BY DEF encode_layout, Best
<1>4. Len(<<>>) = 0 /\ Len(<<>>) \in Nat
  OBVIOUS
<1> HIDE DEF best, m
<1>5. /\ Bytes(with) \in Int /\ Size(with.data) \in Nat /\ HeaderSize(with) \in Nat
      /\ ModeSize(with.modes) \in Nat /\ uvarint_len(with.count) \in Nat
      /\ with.count = Len(batch) - 1 /\ with.spatial = spatial
  BY <1>2, BytesAre
<1>6. /\ Bytes(without) \in Int /\ Size(without.data) \in Nat /\ HeaderSize(without) \in Nat
      /\ ModeSize(without.modes) \in Nat /\ uvarint_len(without.count) \in Nat
      /\ without.count = Len(batch) - 1 /\ without.spatial = spatial /\ without.modes = <<>>
  BY <1>4, BytesAre
<1> HIDE DEF with, without
<1>7. ModeSize(without.modes) = 0
  <2>1. Len(without.modes) = 0
    BY <1>4, <1>6
  <2>2. (2 * 0 + 7) \div 8 = 0
    OBVIOUS
  <2> QED BY <2>1, <2>2 DEF ModeSize
<1>8. CASE UseModes(saved, with, without)
  <2>1. Size(without.data) - Size(with.data) >
          ModeSize(with.modes) + HeaderSize(with) - HeaderSize(without)
    BY <1>8 DEF UseModes
  <2>2. uvarint_len(with.count) = uvarint_len(without.count)
    BY <1>5, <1>6
  <2>3. Bytes(with) <= Bytes(without)
    <3>1. Bytes(with) = uvarint_len(with.count) + HeaderSize(with)
                        + ModeSize(with.modes) + Size(with.data)
      BY DEF Bytes
    <3>2. Bytes(without) = uvarint_len(without.count) + HeaderSize(without)
                           + ModeSize(without.modes) + Size(without.data)
      BY DEF Bytes
    <3>3. /\ uvarint_len(without.count) \in Nat /\ HeaderSize(with) \in Nat
          /\ HeaderSize(without) \in Nat /\ ModeSize(with.modes) \in Nat
          /\ Size(with.data) \in Nat /\ Size(without.data) \in Nat
      BY <1>5, <1>6
    <3> QED BY <1>7, <2>1, <2>2, <3>1, <3>2, <3>3
  <2>4. m = with
    BY <1>3, <1>8
  <2> QED BY <1>2, <1>5, <1>6, <2>3, <2>4 DEF m, with, without
<1>9. CASE ~UseModes(saved, with, without)
  <2>1. m = without /\ Bytes(without) <= Bytes(without)
    BY <1>3, <1>6, <1>9
  <2> QED BY <1>2, <1>6, <2>1 DEF m, with, without
<1> QED BY <1>8, <1>9

-----------------------------------------------------------------------------
(* How many cells a batch has, and its rows.                               *)
Filled(snaps) == {i \in DOMAIN snaps : snaps[i].cell_mv # <<>>}

Leader(snaps) == CHOOSE i \in Filled(snaps) : \A k \in Filled(snaps) : i <= k

CellsOf(snaps) ==
  IF Filled(snaps) = {} THEN 0 ELSE Smaller(Len(snaps[Leader(snaps)].cell_mv), MAX_CELLS)

RowsOf(snaps, cells) == [i \in 1 .. Len(snaps) |-> Row(snaps[i], cells)]

Rows == {Row(snap, cells) : snap \in Samples, cells \in 0 .. MAX_CELLS}

(* What a snapshot is.                                                     *)
LEMMA SampleIs ==
  ASSUME NEW snap \in Samples
  PROVE  /\ snap.bat_current \in Int /\ snap.cap_remain \in Int /\ snap.time \in Nat
         /\ snap.cell_mv \in Seq(Nat) /\ Len(snap.cell_mv) \in Nat
         /\ snap.cell_mv = <<>> <=> Len(snap.cell_mv) = 0
         /\ \A j \in 1 .. Len(snap.cell_mv) : snap.cell_mv[j] \in Nat
<1>1. /\ snap.bat_current \in Int /\ snap.cap_remain \in Int /\ snap.time \in Nat
      /\ snap.cell_mv \in Seq(Nat)
  BY HistAssumption
<1> DEFINE c == snap.cell_mv
<1>2. c \in Seq(Nat)
  BY <1>1
<1> HIDE DEF c
<1>3. Len(c) \in Nat /\ (c = <<>> <=> Len(c) = 0) /\ \A j \in 1 .. Len(c) : c[j] \in Nat
  BY <1>2, LenProperties, EmptySeq, ElementOfSeq
<1> QED BY <1>1, <1>3 DEF c

(* The first snapshot that has cells,                                      *)
LEMMA LeaderIs ==
  ASSUME NEW snaps \in Seq(Samples), Filled(snaps) # {}
  PROVE  /\ Leader(snaps) \in Filled(snaps) /\ Leader(snaps) \in 1 .. Len(snaps)
         /\ \A k \in Filled(snaps) : Leader(snaps) <= k
<1>1. Filled(snaps) \subseteq 1 .. Len(snaps)
  BY LenProperties DEF Filled
<1>2. Filled(snaps) \subseteq Nat
  BY <1>1
<1>3. \E i \in Filled(snaps) : \A k \in Filled(snaps) : i <= k
  BY <1>2, LeastOf
<1>4. Leader(snaps) \in Filled(snaps) /\ \A k \in Filled(snaps) : Leader(snaps) <= k
  BY <1>3, Zenon DEF Leader
<1> QED BY <1>1, <1>4

(* from which the batch has its number of cells.                           *)
LEMMA CellsAre ==
  ASSUME NEW snaps \in Seq(Samples)
  PROVE  /\ CellsOf(snaps) \in 0 .. MAX_CELLS
         /\ CellsOf(snaps) = 0 <=> Filled(snaps) = {}
<1>1. MAX_CELLS \in Nat \ {0}
  BY HistAssumption
<1>2. CASE Filled(snaps) = {}
  BY <1>1, <1>2 DEF CellsOf
<1>3. CASE Filled(snaps) # {}
  <2> DEFINE snap == snaps[Leader(snaps)]
             l == Len(snap.cell_mv)
  <2>1. Leader(snaps) \in Filled(snaps) /\ Leader(snaps) \in 1 .. Len(snaps)
    BY <1>3, LeaderIs
  <2>2. snap \in Samples /\ snap.cell_mv # <<>>
    BY <2>1, ElementOfSeq DEF Filled
  <2> HIDE DEF snap
  <2>3. l \in Nat /\ l # 0
    BY <2>2, SampleIs
  <2>4. CellsOf(snaps) = Smaller(l, MAX_CELLS)
    BY <1>3 DEF CellsOf, snap
  <2> HIDE DEF l
  <2> QED BY <1>1, <1>3, <2>3, <2>4 DEF Smaller
<1> QED BY <1>2, <1>3

LEMMA Appended ==
  ASSUME NEW E, NEW s \in Seq(E), NEW x \in E
  PROVE  /\ Append(s, x) \in Seq(E) /\ Len(Append(s, x)) = Len(s) + 1 /\ Len(s) \in Nat
         /\ DOMAIN Append(s, x) = 1 .. Len(s) + 1 /\ DOMAIN s = 1 .. Len(s)
         /\ \A i \in 1 .. Len(s) : Append(s, x)[i] = s[i]
         /\ Append(s, x)[Len(s) + 1] = x
<1>1. /\ Append(s, x) \in Seq(E) /\ Len(Append(s, x)) = Len(s) + 1 /\ Len(s) \in Nat
      /\ \A i \in 1 .. Len(s) : Append(s, x)[i] = s[i]
      /\ Append(s, x)[Len(s) + 1] = x
  BY AppendProperties, LenProperties
<1> QED BY <1>1, LenProperties

(* A snapshot changes that number only if there was none.                  *)
LEMMA CellsGrow ==
  ASSUME NEW snaps \in Seq(Samples), NEW snap \in Samples
  PROVE  CellsOf(Append(snaps, snap)) =
           IF CellsOf(snaps) = 0 THEN Smaller(Len(snap.cell_mv), MAX_CELLS) ELSE CellsOf(snaps)
<1> DEFINE more == Append(snaps, snap)
           n == Len(snaps)
<1>1. /\ more \in Seq(Samples) /\ Len(more) = n + 1 /\ n \in Nat
      /\ DOMAIN more = 1 .. n + 1 /\ DOMAIN snaps = 1 .. n
      /\ \A i \in 1 .. n : more[i] = snaps[i]
      /\ more[n + 1] = snap
  BY Appended
<1> HIDE DEF more, n
<1>2. Filled(more) \cap 1 .. n = Filled(snaps) /\ Filled(snaps) \subseteq Filled(more)
  BY <1>1 DEF Filled
<1>3. n + 1 \in Filled(more) <=> snap.cell_mv # <<>>
  BY <1>1 DEF Filled
<1>4. Filled(more) \subseteq 1 .. n + 1
  BY <1>1 DEF Filled
<1>5. CASE Filled(snaps) # {}
  <2>1. /\ Leader(snaps) \in Filled(snaps) /\ Leader(snaps) \in 1 .. n
        /\ \A k \in Filled(snaps) : Leader(snaps) <= k
    BY <1>5, LeaderIs DEF n
  <2>2. Filled(more) # {}
    BY <1>2, <1>5
  <2>3. /\ Leader(more) \in Filled(more) /\ Leader(more) \in 1 .. n + 1
        /\ \A k \in Filled(more) : Leader(more) <= k
    BY <1>1, <2>2, LeaderIs
  <2>4. Leader(more) <= Leader(snaps)
    BY <1>2, <2>1, <2>3
  <2>5. Leader(more) \in 1 .. n
    BY <1>1, <2>1, <2>3, <2>4
  <2>6. Leader(snaps) <= Leader(more)
    BY <1>2, <2>1, <2>3, <2>5
  <2>7. Leader(more) = Leader(snaps)
    BY <2>1, <2>4, <2>5, <2>6
  <2>8. more[Leader(more)] = snaps[Leader(snaps)]
    BY <1>1, <2>1, <2>7
  <2>9. CellsOf(more) = CellsOf(snaps)
    BY <1>5, <2>2, <2>8 DEF CellsOf
  <2>10. CellsOf(snaps) # 0
    BY <1>5, CellsAre
  <2> QED BY <2>9, <2>10 DEF more
<1>6. CASE Filled(snaps) = {}
  <2>1. CellsOf(snaps) = 0
    BY <1>6, CellsAre
  <2>2. \A k \in Filled(more) : k = n + 1
    BY <1>1, <1>2, <1>4, <1>6
  <2>3. CASE snap.cell_mv = <<>>
    <3>1. Filled(more) = {}
      BY <1>3, <2>2, <2>3
    <3>2. CellsOf(more) = 0
      BY <3>1 DEF CellsOf
    <3>3. Len(snap.cell_mv) = 0 /\ Smaller(0, MAX_CELLS) = 0
      BY <2>3, SampleIs, HistAssumption DEF Smaller
    <3> QED BY <2>1, <3>2, <3>3 DEF more
  <2>4. CASE snap.cell_mv # <<>>
    <3>1. Filled(more) # {}
      BY <1>3, <2>4
    <3>2. Leader(more) = n + 1
      BY <1>1, <2>2, <3>1, LeaderIs
    <3>3. CellsOf(more) = Smaller(Len(snap.cell_mv), MAX_CELLS)
      BY <1>1, <3>1, <3>2 DEF CellsOf
    <3> QED BY <2>1, <3>3 DEF more
  <2> QED BY <2>3, <2>4
<1> QED BY <1>5, <1>6

(* Without voltages a row does not depend on how many cells the batch has. *)
LEMMA RowWithout ==
  ASSUME NEW snap \in Samples, snap.cell_mv = <<>>,
         NEW a \in 0 .. MAX_CELLS, NEW b \in 0 .. MAX_CELLS
  PROVE  Row(snap, a) = Row(snap, b)
<1>1. Len(snap.cell_mv) = 0
  BY SampleIs
<1>2. Smaller(a, 0) = 0 /\ Smaller(b, 0) = 0
  BY DEF Smaller
<1> DEFINE Cells(c) == [j \in 1 .. MAX_CELLS |->
              IF j <= Smaller(c, Len(snap.cell_mv)) THEN snap.cell_mv[j] ELSE 0]
           zero == [j \in 1 .. MAX_CELLS |-> 0]
<1>3. Cells(a) = zero
  BY <1>1, <1>2, HistAssumption
<1>4. Cells(b) = zero
  BY <1>1, <1>2, HistAssumption
<1> HIDE DEF zero
<1>5. Cells(a) = Cells(b)
  BY <1>3, <1>4
<1> QED BY <1>5, Zenon DEF Row

(* The rows of snapshots are rows.                                         *)
LEMMA RowsAre ==
  ASSUME NEW snaps \in Seq(Samples), NEW cells \in 0 .. MAX_CELLS
  PROVE  /\ RowsOf(snaps, cells) \in Seq(Rows) /\ Len(RowsOf(snaps, cells)) = Len(snaps)
         /\ \A i \in 1 .. Len(snaps) : RowsOf(snaps, cells)[i] = Row(snaps[i], cells)
<1> DEFINE n == Len(snaps)
           v == RowsOf(snaps, cells)
           F(i) == Row(snaps[i], cells)
<1>1. n \in Nat /\ \A i \in 1 .. n : snaps[i] \in Samples
  BY LenProperties, ElementOfSeq
<1>2. \A i \in 1 .. n : F(i) \in Rows
  BY <1>1 DEF Rows
<1>3. v = [i \in 1 .. n |-> F(i)]
  BY DEF RowsOf
<1> HIDE DEF n, v, F
<1>4. v \in [1 .. n -> Rows]
  BY <1>2, <1>3
<1>5. v \in Seq(Rows) /\ Len(v) = n /\ \A i \in 1 .. n : v[i] = F(i)
  BY <1>1, <1>3, <1>4
<1> QED BY <1>5 DEF n, v, F

(* The rows so far are those for the new number of cells too.              *)
LEMMA RowsGrow ==
  ASSUME NEW snaps \in Seq(Samples), NEW snap \in Samples
  PROVE  LET c == CellsOf(Append(snaps, snap))
         IN  RowsOf(Append(snaps, snap), c) = Append(RowsOf(snaps, CellsOf(snaps)), Row(snap, c))
<1> DEFINE more == Append(snaps, snap)
           n == Len(snaps)
           b == CellsOf(snaps)
           c == CellsOf(more)
           old == RowsOf(snaps, b)
           x == Row(snap, c)
           new == Append(old, x)
           all == RowsOf(more, c)
<1>1. /\ more \in Seq(Samples) /\ Len(more) = n + 1 /\ n \in Nat
      /\ \A i \in 1 .. n : more[i] = snaps[i]
      /\ more[n + 1] = snap
      /\ DOMAIN snaps = 1 .. n
  BY Appended
<1>2. c = IF b = 0 THEN Smaller(Len(snap.cell_mv), MAX_CELLS) ELSE b
  BY CellsGrow
<1> HIDE DEF more
<1>3. b \in 0 .. MAX_CELLS /\ (b = 0 <=> Filled(snaps) = {}) /\ c \in 0 .. MAX_CELLS
  BY <1>1, CellsAre
<1> HIDE DEF b, c
<1>4. old \in Seq(Rows) /\ Len(old) = n /\ \A i \in 1 .. n : old[i] = Row(snaps[i], b)
  BY <1>3, RowsAre
<1>5. all \in Seq(Rows) /\ Len(all) = n + 1 /\ \A i \in 1 .. n + 1 : all[i] = Row(more[i], c)
  BY <1>1, <1>3, RowsAre
<1>6. x \in Rows
  BY <1>3 DEF Rows
<1> HIDE DEF old, all, x
<1>7. /\ new \in Seq(Rows) /\ Len(new) = n + 1 /\ new[n + 1] = x
      /\ \A i \in 1 .. n : new[i] = old[i]
  <2>1. /\ new \in Seq(Rows) /\ Len(new) = Len(old) + 1 /\ new[Len(old) + 1] = x
        /\ \A i \in 1 .. Len(old) : new[i] = old[i]
    BY <1>4, <1>6, Appended
  <2> HIDE DEF new
  <2> QED BY <1>4, <2>1
<1> HIDE DEF new, n
<1>8. ASSUME NEW i \in 1 .. n + 1 PROVE all[i] = new[i]
  <2>1. CASE i = n + 1
    BY <1>1, <1>5, <1>7, <2>1 DEF x
  <2>2. CASE i # n + 1
    <3>1. i \in 1 .. n
      BY <1>1, <2>2
    <3>2. all[i] = Row(snaps[i], c) /\ new[i] = Row(snaps[i], b)
      BY <1>1, <1>4, <1>5, <1>7, <3>1
    <3>3. snaps[i] \in Samples
      BY <3>1, ElementOfSeq DEF n
    <3>4. CASE b = 0
      <4>1. snaps[i].cell_mv = <<>>
        BY <1>1, <1>3, <3>1, <3>4 DEF Filled
      <4>2. Row(snaps[i], c) = Row(snaps[i], b)
        BY <1>3, <3>3, <4>1, RowWithout
      <4> QED BY <3>2, <4>2
    <3>5. CASE b # 0
      BY <1>2, <3>2, <3>5
    <3> QED BY <3>4, <3>5
  <2> QED BY <2>1, <2>2
<1>9. all = new
  BY <1>5, <1>7, <1>8, SeqEqual
<1> QED BY <1>9 DEF all, new, old, x, b, c, more

(* What a row holds of its snapshot.                                       *)
LEMMA RowIs ==
  ASSUME NEW snap \in Samples, NEW cells \in 0 .. MAX_CELLS
  PROVE  LET row == Row(snap, cells)
         IN  /\ IsRow(row)
             /\ row.fixed[1] = snap.bat_current
             /\ row.fixed[2] = IF snap.cap_remain < 0 THEN 0 ELSE snap.cap_remain
             /\ row.fixed[3] = snap.time
             /\ \A j \in 1 .. cells :
                  row.cells[j] = IF j <= Len(snap.cell_mv) THEN snap.cell_mv[j] ELSE 0
<1> DEFINE row == Row(snap, cells)
           c == snap.cell_mv
           k == Smaller(cells, Len(c))
           F(j) == IF j <= k THEN c[j] ELSE 0
<1>1. /\ snap.bat_current \in Int /\ snap.cap_remain \in Int /\ snap.time \in Nat
      /\ Len(c) \in Nat /\ \A j \in 1 .. Len(c) : c[j] \in Nat
  BY SampleIs
<1>2. MAX_CELLS \in Nat \ {0} /\ cells \in Nat /\ cells <= MAX_CELLS
  BY HistAssumption
<1>3. /\ row.fixed = <<snap.bat_current, IF snap.cap_remain < 0 THEN 0 ELSE snap.cap_remain,
                       snap.time>>
      /\ row.cells = [j \in 1 .. MAX_CELLS |-> F(j)]
  BY DEF Row
<1>4. /\ row.fixed[1] = snap.bat_current
      /\ row.fixed[2] = IF snap.cap_remain < 0 THEN 0 ELSE snap.cap_remain
      /\ row.fixed[3] = snap.time
  BY <1>3
<1> HIDE DEF c, row
<1>5. k \in Nat /\ k <= cells /\ k <= Len(c) /\ (k = cells \/ k = Len(c))
  BY <1>1, <1>2 DEF Smaller
<1> HIDE DEF k
<1>6. \A j \in 1 .. MAX_CELLS : F(j) \in Nat
  BY <1>1, <1>5
<1>7. \A j \in 1 .. MAX_CELLS : row.cells[j] = F(j)
  BY <1>3
<1>8. IsRow(row)
  <2>1. \A j \in 1 .. MAX_CELLS : row.cells[j] \in Nat
    BY <1>6, <1>7
  <2> QED BY <1>1, <1>4, <2>1 DEF IsRow
<1>9. ASSUME NEW j \in 1 .. cells
      PROVE  row.cells[j] = IF j <= Len(c) THEN c[j] ELSE 0
  <2>1. j \in 1 .. MAX_CELLS /\ (j <= k <=> j <= Len(c))
    BY <1>1, <1>2, <1>5
  <2> QED BY <1>7, <2>1
<1> QED BY <1>4, <1>8, <1>9 DEF row, c

(* Rows are a batch that can be encoded.                                   *)
LEMMA BatchIs ==
  ASSUME NEW snaps \in Seq(Samples), Len(snaps) >= 1, NEW cells \in 0 .. MAX_CELLS
  PROVE  /\ IsBatch(RowsOf(snaps, cells)) /\ Len(RowsOf(snaps, cells)) = Len(snaps)
         /\ \A i \in 1 .. Len(snaps) : RowsOf(snaps, cells)[i] = Row(snaps[i], cells)
<1> DEFINE batch == RowsOf(snaps, cells)
<1>1. /\ batch \in Seq(Rows) /\ Len(batch) = Len(snaps) /\ Len(snaps) \in Nat
      /\ \A i \in 1 .. Len(snaps) : batch[i] = Row(snaps[i], cells)
  BY RowsAre, LenProperties
<1>2. DOMAIN batch = 1 .. Len(batch)
  BY <1>1, LenProperties
<1> HIDE DEF batch
<1>3. ASSUME NEW i \in 1 .. Len(snaps) PROVE IsRow(batch[i])
  <2>1. snaps[i] \in Samples
    BY ElementOfSeq
  <2> QED BY <1>1, <2>1, RowIs
<1>4. IsBatch(batch)
  BY <1>1, <1>2, <1>3 DEF IsBatch
<1> QED BY <1>1, <1>4 DEF batch

-----------------------------------------------------------------------------
(* The invariant: the batch holds the snapshots that were taken, as rows   *)
(* of as many cells as the first of them with voltages had, and what was   *)
(* published encodes such a batch.                                         *)
Encodes(p) ==
  /\ p.of \in Seq(Samples) /\ Len(p.of) >= 1
  /\ p.rows = RowsOf(p.of, CellsOf(p.of))
  /\ p.message = bms_hist_encode(p.rows, CellsOf(p.of))

HistInv ==
  /\ taken \in Seq(Samples)
  /\ cell_count = CellsOf(taken)
  /\ rows = RowsOf(taken, CellsOf(taken))
  /\ \A p \in published : Encodes(p)

(* bms_hist_add makes the rows of one snapshot more.                       *)
LEMMA AddIs ==
  ASSUME HistInv, NEW snap \in Samples
  PROVE  LET more == Append(taken, snap)
         IN  /\ more \in Seq(Samples) /\ Len(more) >= 1
             /\ bms_hist_add(snap) =
                  [rows |-> RowsOf(more, CellsOf(more)), cell_count |-> CellsOf(more)]
<1> DEFINE more == Append(taken, snap)
           cells == IF cell_count = 0 THEN Smaller(Len(snap.cell_mv), MAX_CELLS)
                    ELSE cell_count
<1>1. /\ taken \in Seq(Samples) /\ cell_count = CellsOf(taken)
      /\ rows = RowsOf(taken, CellsOf(taken))
  BY DEF HistInv
<1>2. more \in Seq(Samples) /\ Len(more) = Len(taken) + 1 /\ Len(taken) \in Nat
  BY <1>1, Appended
<1>3. cells = CellsOf(more)
  BY <1>1, CellsGrow
<1>4. RowsOf(more, CellsOf(more)) = Append(rows, Row(snap, CellsOf(more)))
  BY <1>1, RowsGrow
<1>5. bms_hist_add(snap) = [rows |-> Append(rows, Row(snap, cells)), cell_count |-> cells]
  BY DEF bms_hist_add
<1> HIDE DEF cells, more
<1> QED BY <1>2, <1>3, <1>4, <1>5 DEF more

LEMMA HistInitInv == HistInit => HistInv
<1> SUFFICES ASSUME HistInit PROVE HistInv
  OBVIOUS
<1>1. taken = <<>> /\ rows = <<>> /\ cell_count = 0 /\ published = {}
  BY DEF HistInit
<1>2. <<>> \in Seq(Samples) /\ Len(<<>>) = 0 /\ DOMAIN <<>> = {}
  OBVIOUS
<1>3. CellsOf(taken) = 0
  <2>1. Filled(taken) = {}
    BY <1>1 DEF Filled
  <2> QED BY <2>1 DEF CellsOf
<1>4. RowsOf(taken, CellsOf(taken)) = <<>>
  BY <1>1, <1>2 DEF RowsOf
<1> QED BY <1>1, <1>2, <1>3, <1>4 DEF HistInv

LEMMA HistStepInv ==
  ASSUME HistInv, [HistNext]_histVars
  PROVE  HistInv'
<1>1. ASSUME NEW snap \in Samples, Gather(snap) PROVE HistInv'
  <2> DEFINE more == Append(taken, snap)
             h == bms_hist_add(snap)
  <2>1. /\ more \in Seq(Samples)
        /\ h = [rows |-> RowsOf(more, CellsOf(more)), cell_count |-> CellsOf(more)]
    BY AddIs
  <2>2. /\ rows' = h.rows /\ cell_count' = h.cell_count /\ taken' = more /\ published' = {}
    BY <1>1 DEF Gather
  <2> HIDE DEF h, more
  <2>3. rows' = RowsOf(more, CellsOf(more)) /\ cell_count' = CellsOf(more)
    BY <2>1, <2>2
  <2> QED BY <2>1, <2>2, <2>3 DEF HistInv, RowsOf, CellsOf, Filled, Leader
<1>2. ASSUME NEW snap \in Samples, Publish(snap) PROVE HistInv'
  <2> DEFINE more == Append(taken, snap)
             h == bms_hist_add(snap)
             p == [of |-> more, rows |-> h.rows,
                   message |-> bms_hist_encode(h.rows, h.cell_count)]
  <2>1. /\ more \in Seq(Samples) /\ Len(more) >= 1
        /\ h = [rows |-> RowsOf(more, CellsOf(more)), cell_count |-> CellsOf(more)]
    BY AddIs
  <2>2. /\ rows' = <<>> /\ cell_count' = 0 /\ taken' = <<>> /\ published' = {p}
    BY <1>2 DEF Publish
  <2> HIDE DEF h, more
  <2>3. /\ h.rows = RowsOf(more, CellsOf(more)) /\ h.cell_count = CellsOf(more)
    BY <2>1
  <2>4. p.of = more /\ p.rows = h.rows /\ p.message = bms_hist_encode(h.rows, h.cell_count)
    OBVIOUS
  <2> HIDE DEF p
  <2>5. Encodes(p)
    BY <2>1, <2>3, <2>4 DEF Encodes
  <2>6. \A q \in published' : Encodes(q)
    BY <2>2, <2>5
  <2>7. <<>> \in Seq(Samples) /\ Len(<<>>) = 0 /\ DOMAIN <<>> = {}
    OBVIOUS
  <2>8. CellsOf(taken') = 0
    <3>1. Filled(taken') = {}
      BY <2>2, <2>7 DEF Filled
    <3> QED BY <3>1 DEF CellsOf
  <2>9. RowsOf(taken', CellsOf(taken')) = <<>>
    BY <2>2, <2>7 DEF RowsOf
  <2> QED BY <2>2, <2>6, <2>7, <2>8, <2>9 DEF HistInv
<1>3. CASE UNCHANGED histVars
  BY <1>3 DEF histVars, HistInv
<1> QED BY <1>1, <1>2, <1>3 DEF HistNext

(* The batch holds what the snapshots taken so far say, in as many cells as *)
(* the first that has any, and what is published encodes such a batch      *)
(* (HistInv).                                                              *)
THEOREM BatchesAreKept == HistSpec => []HistInv
<1>1. HistInv /\ [HistNext]_histVars => HistInv'
  BY HistStepInv
<1> QED BY <1>1, HistInitInv, PTL DEF HistSpec

-----------------------------------------------------------------------------
(* No plain layout is shorter.                                             *)
LEMMA ShortestTaken ==
  ASSUME NEW batch, IsBatch(batch), NEW cells \in 0 .. MAX_CELLS, NEW spatial \in BOOLEAN,
         cells = 0 => spatial = FALSE
  PROVE  LET plain == Bytes(Layout(batch, cells, spatial, <<>>))
             message == bms_hist_encode(batch, cells)
         IN  /\ message = {} => plain > MAX_SIZE
             /\ \A m \in message : Bytes(m) <= MAX_SIZE /\ Bytes(m) <= plain
<1> DEFINE o == encode_layout(batch, cells, FALSE)
           s == encode_layout(batch, cells, TRUE)
           a == Bytes(Layout(batch, cells, FALSE, <<>>))
           b == Bytes(Layout(batch, cells, TRUE, <<>>))
           plain == Bytes(Layout(batch, cells, spatial, <<>>))
           both == IF cells = 0 THEN {o} ELSE {o, s}
           fits == {m \in both : Bytes(m) <= MAX_SIZE}
           message == bms_hist_encode(batch, cells)
<1>1. MAX_SIZE \in Nat
  BY HistAssumption
<1>2. Bytes(o) \in Int /\ a \in Int /\ Bytes(o) <= a /\ o.spatial = FALSE
  BY LayoutTaken
<1>3. Bytes(s) \in Int /\ b \in Int /\ Bytes(s) <= b /\ s.spatial = TRUE
  BY LayoutTaken
<1>4. message = {m \in fits : IF m.spatial THEN o \notin fits \/ Bytes(m) < Bytes(o)
                              ELSE s \notin fits \/ Bytes(m) <= Bytes(s)}
  BY DEF bms_hist_encode
<1>5. (cells = 0 => plain = a) /\ (plain = a \/ plain = b)
  BY DEF plain
<1> HIDE DEF o, s, a, b, plain, message
<1>6. o # s
  BY <1>2, <1>3
<1>7. /\ o \in fits <=> Bytes(o) <= MAX_SIZE
      /\ s \in fits <=> cells # 0 /\ Bytes(s) <= MAX_SIZE
      /\ \A m \in fits : m = o \/ m = s
  BY <1>6
<1> HIDE DEF fits
<1>8. /\ o \in message <=> o \in fits /\ (s \notin fits \/ Bytes(o) <= Bytes(s))
      /\ s \in message <=> s \in fits /\ (o \notin fits \/ Bytes(s) < Bytes(o))
      /\ \A m \in message : m \in fits
  BY <1>2, <1>3, <1>4
<1>9. ASSUME message = {} PROVE plain > MAX_SIZE
  <2>1. o \notin message /\ s \notin message
    BY <1>9
  <2>2. o \notin fits /\ s \notin fits
    BY <1>2, <1>3, <1>8, <2>1
  <2> QED BY <1>1, <1>2, <1>3, <1>5, <1>7, <2>2
<1>10. ASSUME NEW m \in message PROVE Bytes(m) <= MAX_SIZE /\ Bytes(m) <= plain
  <2>1. m \in fits /\ (m = o \/ m = s)
    BY <1>7, <1>8
  <2>2. CASE m = o
    BY <1>1, <1>2, <1>3, <1>5, <1>7, <1>8, <2>1, <2>2
  <2>3. CASE m = s
    BY <1>1, <1>2, <1>3, <1>5, <1>7, <1>8, <2>1, <2>3
  <2> QED BY <2>1, <2>2, <2>3
<1> QED BY <1>9, <1>10 DEF plain, message

(* A message is never longer than a plain layout of its batch, and a batch *)
(* is given up only if no plain layout fits (NoPlainIsShorter).            *)
THEOREM ModesPay == HistSpec => []NoPlainIsShorter
<1>1. ASSUME HistInv PROVE NoPlainIsShorter
  <2> SUFFICES ASSUME NEW p \in published
               PROVE  LET cells == CellsOf(p.of)
                      IN  \A spatial \in IF cells = 0 THEN {FALSE} ELSE BOOLEAN :
                            LET plain == Bytes(Layout(p.rows, cells, spatial, <<>>))
                            IN  /\ p.message = {} => plain > MAX_SIZE
                                /\ \A m \in p.message :
                                     Bytes(m) <= MAX_SIZE /\ Bytes(m) <= plain
    BY DEF NoPlainIsShorter, CellsOf, Filled, Leader
  <2> DEFINE cells == CellsOf(p.of)
  <2>1. Encodes(p)
    BY <1>1 DEF HistInv
  <2>2. p.message = bms_hist_encode(p.rows, cells) /\ cells \in 0 .. MAX_CELLS
    BY <2>1, CellsAre DEF Encodes
  <2>3. IsBatch(p.rows)
    BY <2>1, <2>2, BatchIs DEF Encodes
  <2> HIDE DEF cells
  <2>4. ASSUME NEW spatial \in IF cells = 0 THEN {FALSE} ELSE BOOLEAN
        PROVE  spatial \in BOOLEAN /\ (cells = 0 => spatial = FALSE)
    BY <2>4
  <2> QED BY <2>2, <2>3, <2>4, ShortestTaken DEF cells
<1> QED BY <1>1, BatchesAreKept, PTL

-----------------------------------------------------------------------------
(* The receiver's reading of a whole message.                              *)
ModeAt(m, k) == IF m.modes = <<>> THEN Delta ELSE m.modes[k]

ColumnsIs(m, g, k) ==
  IF k = 0 THEN [values |-> <<>>, next |-> 1, whole |-> TRUE]
  ELSE ReadColumn(m.data, g[k - 1].next, m.count + 1, IsSigned(k), ModeAt(m, k))

LEMMA ColumnsExist ==
  ASSUME NEW m, NEW n \in Nat
  PROVE  \E g : g = [i \in 0 .. n |-> ColumnsIs(m, g, i)]
<1> DEFINE S == {k \in 0 .. n : \E g : g = [i \in 0 .. k |-> ColumnsIs(m, g, i)]}
<1>1. n \in Nat
  OBVIOUS
<1>2. 0 \in S
  <2> DEFINE h == [i \in 0 .. 0 |-> ColumnsIs(m, 0, i)]
  <2>1. h = [i \in 0 .. 0 |-> ColumnsIs(m, h, i)]
    BY DEF ColumnsIs
  <2>2. 0 \in 0 .. n
    BY <1>1
  <2> HIDE DEF h
  <2> QED BY <2>1, <2>2
<1>3. ASSUME NEW k \in 1 .. n, k - 1 \in S PROVE k \in S
  <2>1. PICK g : g = [i \in 0 .. k - 1 |-> ColumnsIs(m, g, i)]
    BY <1>3
  <2> DEFINE h == [i \in 0 .. k |-> ColumnsIs(m, g, i)]
  <2>2. ASSUME NEW i \in 0 .. k PROVE ColumnsIs(m, h, i) = ColumnsIs(m, g, i)
    <3>1. CASE i = 0
      BY <3>1 DEF ColumnsIs
    <3>2. CASE i # 0
      <4>1. i - 1 \in 0 .. k - 1 /\ i - 1 \in 0 .. k
        BY <3>2
      <4>2. h[i - 1] = g[i - 1]
        BY <2>1, <4>1
      <4> HIDE DEF h
      <4> QED BY <3>2, <4>2 DEF ColumnsIs
    <3> QED BY <3>1, <3>2
  <2>3. h = [i \in 0 .. k |-> ColumnsIs(m, h, i)]
    BY <2>2
  <2> HIDE DEF h
  <2> QED BY <1>3, <2>3
<1> HIDE DEF S
<1>4. \A k \in 0 .. n : k \in S
  BY <1>1, <1>2, <1>3, Upwards
<1>5. n \in S
  BY <1>1, <1>4
<1> QED BY <1>5 DEF S

(* Every column of a message was read whole, as it was built, and nothing  *)
(* is left.                                                                *)
AllRead(m, batch, cells, spatial) ==
    LET read == ReadColumns(m)
    IN  /\ \A k \in 1 .. 3 + cells :
             read[k].whole = TRUE /\ read[k].values = build_column(batch, k, spatial)
        /\ read[3 + cells].next = Len(m.data) + 1

LEMMA ColumnsRead ==
  ASSUME NEW batch, IsBatch(batch), NEW cells \in 0 .. MAX_CELLS, NEW spatial \in BOOLEAN,
         NEW modes, Suits(batch, cells, spatial, modes)
  PROVE  AllRead(Layout(batch, cells, spatial, modes), batch, cells, spatial)
<1> DEFINE m == Layout(batch, cells, spatial, modes)
           upto == Upto(batch, cells, spatial, modes)
           n == 3 + cells
           col(k) == Column(batch, spatial, modes, k)
           read == ReadColumns(m)
           S == {k \in 0 .. n :
                   /\ read[k].next = 1 + Len(upto[k])
                   /\ k >= 1 => /\ read[k].whole = TRUE
                                /\ read[k].values = build_column(batch, k, spatial)}
<1>1. n \in Nat /\ n >= 1
  BY HistAssumption
<1>2. /\ upto[0] = <<>>
      /\ \A k \in 1 .. n : upto[k] = upto[k - 1] \o col(k) /\ col(k) \in Seq(Nat)
      /\ \A k \in 0 .. n : upto[k] \in Seq(Nat)
      /\ m = [count |-> Len(batch) - 1, cells |-> cells, spatial |-> spatial, modes |-> modes,
              data |-> upto[n]]
  BY UptoAre
<1>3. \A k \in 1 .. n : Occurs(upto[n], 1 + Len(upto[k - 1]), col(k))
  BY ColumnsStand
<1>4. \A k \in 1 .. n : IF modes = <<>> THEN Delta \in Modes(build_column(batch, k, spatial))
                        ELSE modes[k] \in Modes(build_column(batch, k, spatial))
  BY DEF Suits
<1> HIDE DEF m, upto
<1>5. /\ m.count = Len(batch) - 1 /\ m.cells = cells /\ m.modes = modes /\ m.data = upto[n]
      /\ m.count + 1 = Len(batch)
  <2>1. m.count = Len(batch) - 1 /\ m.cells = cells /\ m.modes = modes /\ m.data = upto[n]
    BY <1>2
  <2>2. Len(batch) \in Nat
    BY DEF IsBatch
  <2> QED BY <2>1, <2>2
<1>6. \A k \in 0 .. n : read[k] = ColumnsIs(m, read, k)
  <2> HIDE DEF S
  <2> DEFINE r == CHOOSE g : g = [k \in 0 .. n |-> ColumnsIs(m, g, k)]
  <2>1. read = r
    BY <1>5 DEF ReadColumns, ColumnsIs, ModeAt
  <2>2. \E g : g = [k \in 0 .. n |-> ColumnsIs(m, g, k)]
    BY <1>1, ColumnsExist
  <2>3. r = [k \in 0 .. n |-> ColumnsIs(m, r, k)]
    <3> HIDE DEF n
    <3> QED BY <2>2, Zenon
  <2> HIDE DEF r, n, read
  <2>4. \A k \in 0 .. n : r[k] = ColumnsIs(m, r, k)
    BY <2>3
  <2> QED BY <2>1, <2>4
<1> HIDE DEF read
<1>7. 0 \in S
  <2>1. read[0] = [values |-> <<>>, next |-> 1, whole |-> TRUE]
    BY <1>1, <1>6 DEF ColumnsIs
  <2>2. Len(upto[0]) = 0
    BY <1>2
  <2>3. read[0].next = 1
    BY <2>1
  <2> QED BY <1>1, <2>2, <2>3
<1>8. ASSUME NEW k \in 1 .. n, k - 1 \in S PROVE k \in S
  <2> DEFINE data == upto[n]
             p == 1 + Len(upto[k - 1])
             v == build_column(batch, k, spatial)
             mode == ModeAt(m, k)
             sign == IsSigned(k)
  <2>1. k \in 0 .. n /\ k - 1 \in 0 .. n /\ k # 0 /\ n \in 0 .. n /\ k \in 1 .. 3 + cells
    BY <1>1 DEF n
  <2>2. read[k - 1].next = p
    BY <1>8
  <2> HIDE DEF n
  <2>3. data \in Seq(Nat) /\ upto[k - 1] \in Seq(Nat) /\ col(k) \in Seq(Nat)
    BY <1>2, <2>1
  <2>4. p \in Nat \ {0}
    <3>1. Len(upto[k - 1]) \in Nat
      BY <2>3, LenProperties
    <3> QED BY <3>1
  <2>5. sign \in BOOLEAN /\ IsColumn(v, sign) /\ Len(v) = Len(batch)
    BY <2>1, BuildIs
  <2>6. mode \in Modes(v)
    BY <1>4, <1>5 DEF ModeAt
  <2>7. col(k) = encode_column(v, sign, mode)
    BY <1>5 DEF Column, ModeAt
  <2>8. Occurs(data, p, encode_column(v, sign, mode))
    BY <1>3, <2>7
  <2>9. read[k] = ReadColumn(data, p, Len(v), sign, mode)
    BY <1>5, <1>6, <2>1, <2>2, <2>5 DEF ColumnsIs
  <2> HIDE DEF data, p, v, mode, sign
  <2>10. read[k] = [values |-> v, next |-> p + Len(encode_column(v, sign, mode)), whole |-> TRUE]
    BY <2>3, <2>4, <2>5, <2>6, <2>8, <2>9, ColumnRead
  <2>11. Len(upto[k]) = Len(upto[k - 1]) + Len(col(k))
         /\ Len(upto[k - 1]) \in Nat /\ Len(col(k)) \in Nat
    <3>1. Concat(upto[k - 1], col(k), upto[k - 1] \o col(k))
      BY <2>3, ConcatIs
    <3>2. upto[k] = upto[k - 1] \o col(k)
      BY <1>2
    <3> HIDE DEF col
    <3>3. Concat(upto[k - 1], col(k), upto[k])
      BY <3>1, <3>2
    <3> QED BY <3>3 DEF Concat
  <2>12. p + Len(col(k)) = 1 + Len(upto[k])
    BY <2>11 DEF p
  <2>13. /\ read[k].next = 1 + Len(upto[k]) /\ read[k].whole = TRUE
         /\ read[k].values = build_column(batch, k, spatial)
    BY <2>7, <2>10, <2>12 DEF v
  <2> QED BY <2>1, <2>13
<1> HIDE DEF S, n
<1>9. \A k \in 0 .. n : k \in S
  BY <1>1, <1>7, <1>8, Upwards
<1>10. \A k \in 1 .. n : read[k].whole = TRUE /\ read[k].values = build_column(batch, k, spatial)
  <2>1. \A k \in 1 .. n : k \in 0 .. n /\ k >= 1
    BY <1>1
  <2> QED BY <1>9, <2>1 DEF S
<1>11. read[n].next = Len(m.data) + 1
  <2>1. n \in 0 .. n
    BY <1>1
  <2>2. read[n].next = 1 + Len(upto[n])
    BY <1>9, <2>1 DEF S
  <2>3. upto[n] \in Seq(Nat)
    BY <1>2, <2>1
  <2>4. Len(upto[n]) \in Nat
    BY <2>3, LenProperties
  <2> QED BY <1>5, <2>2, <2>4
<1> QED BY <1>10, <1>11 DEF m, read, n, AllRead

(* The columns that were read hold the columns that were built.            *)
ReadAs(read, batch, cells, spatial) ==
    \A k \in 1 .. 3 + cells : read[k].values = build_column(batch, k, spatial)

LEMMA CellRead ==
  ASSUME NEW batch, IsBatch(batch), NEW cells \in 0 .. MAX_CELLS, NEW m, NEW read,
         NEW spatial \in BOOLEAN, m.cells = cells, m.spatial = spatial,
         ReadAs(read, batch, cells, spatial),
         NEW i \in 1 .. Len(batch), NEW j \in 1 .. cells
  PROVE  ReadCell(m, read, i, j) = batch[i].cells[j]
<1> DEFINE row == batch[i]
           at(k) == read[3 + k].values[i]
<1>1. cells \in Nat /\ cells <= MAX_CELLS /\ MAX_CELLS \in Nat
  BY HistAssumption
<1>2. \A k \in 1 .. cells : row.cells[k] \in Nat
  BY <1>1 DEF IsBatch, IsRow
<1>3. ASSUME NEW k \in 1 .. cells
      PROVE  at(k) = IF k = 1 THEN row.cells[1]
                     ELSE row.cells[k] - row.cells[IF spatial THEN k - 1 ELSE 1]
  <2> DEFINE x == 3 + k
  <2>1. x \in 1 .. 3 + cells /\ ~(x <= 3) /\ x - 3 = k
    BY <1>1
  <2> HIDE DEF x
  <2>2. read[x].values = build_column(batch, x, spatial)
    BY <2>1 DEF ReadAs
  <2>3. build_column(batch, x, spatial)[i] = ColumnOf(row, x, spatial)
    BY <2>1, BuildIs
  <2>4. ColumnOf(row, x, spatial) =
          IF k = 1 THEN row.cells[1]
          ELSE row.cells[k] - row.cells[IF spatial THEN k - 1 ELSE 1]
    BY <2>1 DEF ColumnOf
  <2> QED BY <2>2, <2>3, <2>4 DEF x
<1>4. ReadCell(m, read, i, j) =
        IF spatial THEN Sums(at(1), [k \in 1 .. cells - 1 |-> at(k + 1)])[j]
        ELSE IF j = 1 THEN at(1) ELSE at(1) + at(j)
  BY DEF ReadCell
<1>5. 1 \in 1 .. cells
  BY <1>1
<1> HIDE DEF at, row
<1>6. CASE ~spatial
  <2>1. CASE j = 1
    BY <1>3, <1>4, <1>5, <1>6, <2>1 DEF row
  <2>2. CASE j # 1
    <3>1. at(1) = row.cells[1] /\ at(j) = row.cells[j] - row.cells[1]
      BY <1>3, <1>5, <1>6, <2>2
    <3>2. row.cells[1] \in Nat /\ row.cells[j] \in Nat
      BY <1>2, <1>5
    <3>3. ReadCell(m, read, i, j) = row.cells[j]
      BY <1>4, <1>6, <2>2, <3>1, <3>2
    <3> QED BY <3>3 DEF row
  <2> QED BY <2>1, <2>2
<1>7. CASE spatial
  <2> DEFINE n == cells - 1
             G(k) == at(k + 1)
             d == [k \in 1 .. n |-> G(k)]
             w == [k \in 1 .. cells |-> row.cells[k]]
  <2>1. n \in Nat /\ n + 1 = cells
    BY <1>1, <1>5
  <2>2. ASSUME NEW k \in 1 .. n
        PROVE  G(k) = row.cells[k + 1] - row.cells[k] /\ G(k) \in Int
    <3>1. k + 1 \in 1 .. cells /\ k \in 1 .. cells /\ k + 1 # 1 /\ (k + 1) - 1 = k
      BY <2>1
    <3>2. at(k + 1) = row.cells[k + 1] - row.cells[k]
      BY <1>3, <1>7, <3>1
    <3>3. row.cells[k + 1] \in Nat /\ row.cells[k] \in Nat
      BY <1>2, <3>1
    <3> QED BY <3>2, <3>3
  <2> HIDE DEF n, G
  <2>3. d \in Seq(Int) /\ Len(d) = n /\ \A k \in 1 .. n : d[k] = G(k)
    <3>1. d \in [1 .. n -> Int]
      BY <2>2
    <3> QED BY <2>1, <3>1
  <2>4. w \in Seq(Int) /\ Len(w) = cells /\ \A k \in 1 .. cells : w[k] = row.cells[k]
    <3>1. w \in [1 .. cells -> Int]
      BY <1>2
    <3> QED BY <1>1, <3>1
  <2> HIDE DEF d, w
  <2>5. ASSUME NEW k \in 2 .. Len(w) PROVE w[k] = w[k - 1] + d[k - 1]
    <3>1. /\ k - 1 \in 1 .. n /\ (k - 1) + 1 = k /\ k \in 1 .. cells /\ k - 1 \in 1 .. cells
      BY <2>1, <2>4
    <3>2. d[k - 1] = row.cells[k] - row.cells[k - 1]
      BY <2>2, <2>3, <3>1
    <3>3. row.cells[k] \in Nat /\ row.cells[k - 1] \in Nat
      BY <1>2, <3>1
    <3> QED BY <2>4, <3>1, <3>2, <3>3
  <2>6. Len(w) = Len(d) + 1
    BY <2>1, <2>3, <2>4
  <2>7. Sums(w[1], d) = w
    BY <2>3, <2>4, <2>5, <2>6, SumsAre
  <2>8. w[1] = at(1)
    BY <1>3, <1>5, <2>4
  <2>9. ReadCell(m, read, i, j) = Sums(at(1), d)[j]
    BY <1>4, <1>7 DEF d, G, n
  <2> QED BY <2>4, <2>7, <2>8, <2>9 DEF row
<1> QED BY <1>6, <1>7

(* What the receiver reads in a message is what the snapshots said         *)
(* (MessageIsBatch).                                                       *)
THEOREM MessagesAreRead == HistSpec => []MessageIsBatch
<1>1. ASSUME HistInv PROVE MessageIsBatch
  <2> SUFFICES ASSUME NEW p \in published, NEW m \in p.message
               PROVE  LET read == ReadColumns(m) IN
                      /\ m.count + 1 = Len(p.of)
                      /\ \A idx \in 1..(3 + m.cells) : read[idx].whole
                      /\ read[3 + m.cells].next = Len(m.data) + 1
                      /\ \A i \in DOMAIN p.of :
                           /\ read[1].values[i] = p.of[i].bat_current
                           /\ read[2].values[i] =
                                IF p.of[i].cap_remain < 0 THEN 0 ELSE p.of[i].cap_remain
                           /\ read[3].values[i] = p.of[i].time
                           /\ \A j \in 1..m.cells :
                                ReadCell(m, read, i, j) =
                                  IF j <= Len(p.of[i].cell_mv) THEN p.of[i].cell_mv[j] ELSE 0
                      /\ \A i \in DOMAIN p.of : m.cells = 0 => p.of[i].cell_mv = <<>>
    BY DEF MessageIsBatch
  <2> DEFINE cells == CellsOf(p.of)
             batch == p.rows
             snaps == p.of
             n == Len(snaps)
             read == ReadColumns(m)
  <2>1. Encodes(p)
    BY <1>1 DEF HistInv
  <2>2. /\ snaps \in Seq(Samples) /\ n >= 1 /\ n \in Nat /\ DOMAIN snaps = 1 .. n
        /\ batch = RowsOf(snaps, cells) /\ p.message = bms_hist_encode(batch, cells)
        /\ cells \in 0 .. MAX_CELLS /\ (cells = 0 <=> Filled(snaps) = {})
    BY <2>1, CellsAre, LenProperties DEF Encodes
  <2>3. /\ IsBatch(batch) /\ Len(batch) = n
        /\ \A i \in 1 .. n : batch[i] = Row(snaps[i], cells)
    BY <2>2, BatchIs
  <2> HIDE DEF cells, batch, snaps, n
  <2>4. \E spatial \in BOOLEAN : m = encode_layout(batch, cells, spatial)
    BY <2>2 DEF bms_hist_encode
  <2>5. PICK spatial \in BOOLEAN : m = encode_layout(batch, cells, spatial)
    BY <2>4
  <2>6. PICK modes : Suits(batch, cells, spatial, modes) /\ m = Layout(batch, cells, spatial, modes)
    BY <2>2, <2>3, <2>5, LayoutTaken
  <2>7. m.count = n - 1 /\ m.cells = cells /\ m.spatial = spatial /\ m.count + 1 = n
    <3>1. m = [count |-> Len(batch) - 1, cells |-> cells, spatial |-> spatial, modes |-> modes,
               data |-> Upto(batch, cells, spatial, modes)[3 + cells]]
      BY <2>2, <2>3, <2>6, UptoAre
    <3> QED BY <2>2, <2>3, <3>1
  <2>8. /\ \A k \in 1 .. 3 + cells :
             read[k].whole = TRUE /\ read[k].values = build_column(batch, k, spatial)
        /\ read[3 + cells].next = Len(m.data) + 1
    <3>1. AllRead(Layout(batch, cells, spatial, modes), batch, cells, spatial)
      BY <2>2, <2>3, <2>6, ColumnsRead
    <3>2. AllRead(m, batch, cells, spatial)
      BY <2>6, <3>1, Zenon
    <3> QED BY <3>2, Zenon DEF AllRead
  <2> HIDE DEF read
  <2>9. \A i \in 1 .. n : snaps[i] \in Samples
    BY <2>2, ElementOfSeq DEF n
  <2>10. ASSUME NEW i \in 1 .. n
         PROVE  /\ read[1].values[i] = snaps[i].bat_current
                /\ read[2].values[i] =
                     IF snaps[i].cap_remain < 0 THEN 0 ELSE snaps[i].cap_remain
                /\ read[3].values[i] = snaps[i].time
    <3>1. 1 \in 1 .. 3 + cells /\ 2 \in 1 .. 3 + cells /\ 3 \in 1 .. 3 + cells
      BY <2>2, HistAssumption
    <3>2. /\ read[1].values[i] = ColumnOf(batch[i], 1, spatial)
          /\ read[2].values[i] = ColumnOf(batch[i], 2, spatial)
          /\ read[3].values[i] = ColumnOf(batch[i], 3, spatial)
      BY <2>2, <2>3, <2>8, <3>1, BuildIs
    <3>3. /\ ColumnOf(batch[i], 1, spatial) = batch[i].fixed[1]
          /\ ColumnOf(batch[i], 2, spatial) = batch[i].fixed[2]
          /\ ColumnOf(batch[i], 3, spatial) = batch[i].fixed[3]
      BY DEF ColumnOf
    <3>4. batch[i] = Row(snaps[i], cells) /\ snaps[i] \in Samples
      BY <2>3, <2>9
    <3>5. /\ batch[i].fixed[1] = snaps[i].bat_current
          /\ batch[i].fixed[2] = IF snaps[i].cap_remain < 0 THEN 0 ELSE snaps[i].cap_remain
          /\ batch[i].fixed[3] = snaps[i].time
      BY <2>2, <3>4, RowIs
    <3> QED BY <3>2, <3>3, <3>5
  <2>11. ASSUME NEW i \in 1 .. n, NEW j \in 1 .. cells
         PROVE  ReadCell(m, read, i, j) =
                  IF j <= Len(snaps[i].cell_mv) THEN snaps[i].cell_mv[j] ELSE 0
    <3>1. ReadCell(m, read, i, j) = batch[i].cells[j]
      <4>1. ReadAs(read, batch, cells, spatial)
        BY <2>8 DEF ReadAs
      <4>2. i \in 1 .. Len(batch)
        BY <2>3
      <4>3. IsBatch(batch) /\ cells \in 0 .. MAX_CELLS /\ m.cells = cells /\ m.spatial = spatial
        BY <2>2, <2>3, <2>7
      <4> QED BY <4>1, <4>2, <4>3, CellRead
    <3>2. batch[i] = Row(snaps[i], cells) /\ snaps[i] \in Samples
      BY <2>3, <2>9
    <3> QED BY <2>2, <3>1, <3>2, RowIs
  <2>12. ASSUME NEW i \in 1 .. n, cells = 0 PROVE snaps[i].cell_mv = <<>>
    BY <2>2, <2>12 DEF Filled
  <2> QED BY <2>2, <2>7, <2>8, <2>10, <2>11, <2>12 DEF read, snaps, n
<1> QED BY <1>1, BatchesAreKept, PTL

=============================================================================
