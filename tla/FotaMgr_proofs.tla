----------------------------- MODULE FotaMgr_proofs -----------------------------
(***************************************************************************)
(* The safety of the firmware upgrade manager, for every image, block size,*)
(* number of sessions and setting of the two channels, as long as the      *)
(* master does not abort while an image is being verified (the run         *)
(* fota_abort shows what happens when it does).                            *)
(***************************************************************************)
EXTENDS FotaMgr, SequenceTheorems, TLAPS

(* The tasks of the local channel: an active session has those that will   *)
(* end it, and nothing expires while an image is verified.                 *)
GuardInv ==
  /\ SessionIsGuarded
  /\ lstage # "VERIFYING" => ~lfinalizing
  /\ idle => lstage # "VERIFYING"
  /\ local_active => CoreAvailable

(* A task that has not yet reached fota.init belongs to the newest session,*)
(* for which nothing has happened but that a task of an older one may have *)
(* called it ready.                                                        *)
StartInv ==
  \A t \in initTasks :
    t[2] = "start" => /\ t = <<session, "start">>
                      /\ lstage \in {"PREPARING", "READY"}
                      /\ ~idle /\ urlTask = "none"

UrlInv ==
  /\ urlTask # "none" <=> state = "ACTIVE"
  /\ ~(state = "ACTIVE" /\ local_active)

FlashInv ==
  /\ lstage \in {"PREPARING", "READY"} =>
       /\ lrx = 0 /\ lcrc_calc = <<>>
       /\ Quiet => flash = <<>>
  /\ lstage \in {"RECEIVING", "VERIFYING"} => flash = lcrc_calc /\ Len(flash) = lrx
  /\ lstage = "VERIFYING" => lrx = ltotal \/ coreEnd

StagedInv ==
  /\ StagedIsVerified
  /\ staged.by = "local" => CoreAvailable

FotaInv == TypeOK /\ GuardInv /\ StartInv /\ UrlInv /\ FlashInv /\ StagedInv

-----------------------------------------------------------------------------
(* No start is left when the newest session's is gone.                     *)
LEMMA OneStart ==
  ASSUME StartInv, NEW t \in initTasks, t[2] = "start"
  PROVE  \A u \in initTasks \ {t} : u[2] # "start"
BY DEF StartInv

(* A session that fails, by whichever task or request: nothing of it is    *)
(* left that could touch the flash.                                        *)
LEMMA FailLocalKeeps ==
  ASSUME FotaInv, FailLocal,
         UNCHANGED <<urlVars, ltotal, lrx, lcrc_expect, lcrc_calc, lseq, loff, llen, idle,
                     running, coreEnd, needs_restart, session>>,
         reply' \in [again : BOOLEAN, ok : BOOLEAN],
         initTasks' \subseteq initTasks, \A t \in initTasks' : t[2] # "start",
         watchTasks' \subseteq watchTasks, finTasks' = {}
  PROVE  FotaInv'
<1> USE DEF FotaInv
<1>1. lstage' = "FAILED" /\ lfinalizing' = FALSE /\ given_up' = TRUE
      /\ flash' = <<>> /\ staged' = Nothing
  BY DEF FailLocal
<1>2. /\ Nothing \in Image /\ Nothing.by # "local" /\ <<>> \in Seq(Byte)
  BY EmptySeq DEF Nothing, Image
<1>3. TypeOK'
  BY <1>1, <1>2 DEF TypeOK, Stage, urlVars
<1>4. GuardInv' /\ StartInv' /\ UrlInv'
  BY <1>1 DEF GuardInv, StartInv, UrlInv, SessionIsGuarded, local_active, Active, urlVars
<1>5. FlashInv' /\ StagedInv'
  BY <1>1, <1>2 DEF FlashInv, StagedInv, StagedIsVerified
<1> QED BY <1>3, <1>4, <1>5

-----------------------------------------------------------------------------
LEMMA LocalBeginKeeps ==
  ASSUME FotaInv, NEW total \in 1 .. MaxTotal, NEW crc \in {NoCrc} \cup Images,
         LocalBegin(total, crc)
  PROVE  FotaInv'
<1> USE DEF FotaInv
<1>1. /\ Quiet /\ lstage \notin Active /\ state # "ACTIVE" /\ session < MaxSession
      /\ UNCHANGED <<state, urlTask, flash, staged, running, coreEnd, needs_restart>>
      /\ reply' = NoReply
  BY DEF LocalBegin, local_active, urlVars, flashVars
<1>2. NoReply \in [again : BOOLEAN, ok : BOOLEAN]
  BY DEF NoReply
<1>3. CASE ~CoreAvailable
  <2>1. /\ lstage' = "FAILED"
        /\ UNCHANGED <<ltotal, lrx, lcrc_expect, lcrc_calc, lseq, loff, llen, lfinalizing,
                       idle, initTasks, watchTasks, finTasks, session, given_up>>
    BY <1>3 DEF LocalBegin, taskVars
  <2>2. TypeOK'
    BY <1>1, <1>2, <2>1 DEF TypeOK, Stage
  <2>3. GuardInv' /\ StartInv' /\ UrlInv'
    BY <1>1, <2>1 DEF GuardInv, StartInv, UrlInv, SessionIsGuarded, local_active, Active, Quiet
  <2>4. FlashInv' /\ StagedInv'
    BY <1>1, <1>3, <2>1 DEF FlashInv, StagedInv, StagedIsVerified
  <2> QED BY <2>2, <2>3, <2>4
<1>4. CASE CoreAvailable
  <2>1. /\ lstage' = "PREPARING"
        /\ ltotal' = total /\ lrx' = 0
        /\ lseq' = 0 /\ loff' = 0 /\ llen' = 0
        /\ lcrc_expect' = crc /\ lcrc_calc' = <<>>
        /\ lfinalizing' = FALSE /\ idle' = FALSE
        /\ session' = session + 1
        /\ initTasks' = initTasks \cup {<<session + 1, "start">>}
        /\ watchTasks' = watchTasks \cup {session + 1}
        /\ given_up' = FALSE /\ UNCHANGED finTasks
    BY <1>4 DEF LocalBegin
  <2>2. session + 1 \in 1 .. MaxSession
    BY <1>1, FotaAssumption DEF TypeOK
  <2>3. TypeOK'
    <3>1. /\ <<>> \in Seq(Byte) /\ ltotal' \in 0 .. MaxTotal /\ lrx' \in 0 .. ltotal'
          /\ lseq' \in 0 .. lrx' /\ loff' \in Nat /\ llen' \in 0 .. MAX_BLOCK_BYTES
      BY <2>1, EmptySeq, FotaAssumption
    <3>2. /\ initTasks' \subseteq (1 .. MaxSession) \X {"start", "poll"}
          /\ watchTasks' \subseteq 1 .. MaxSession /\ finTasks' \subseteq 1 .. MaxSession
      <4>1. <<session + 1, "start">> \in (1 .. MaxSession) \X {"start", "poll"}
        BY <2>2
      <4> QED BY <2>1, <2>2, <4>1 DEF TypeOK
    <3>3. session' \in 0 .. MaxSession
      BY <2>1, <2>2
    <3> QED BY <1>1, <1>2, <2>1, <3>1, <3>2, <3>3 DEF TypeOK, Stage, Active
  <2>4. GuardInv'
    BY <1>1, <1>4, <2>1 DEF GuardInv, SessionIsGuarded, local_active, Active
  <2>5. StartInv' /\ UrlInv'
    BY <1>1, <2>1 DEF StartInv, UrlInv, Quiet
  <2>6. ~Quiet'
    <3>1. <<session + 1, "start">> \in initTasks'
      BY <2>1
    <3> QED BY <3>1 DEF Quiet
  <2>7. FlashInv' /\ StagedInv'
    BY <1>1, <1>4, <2>1, <2>6 DEF FlashInv, StagedInv, StagedIsVerified, Active, Quiet
  <2> QED BY <2>3, <2>4, <2>5, <2>7
<1> QED BY <1>3, <1>4

-----------------------------------------------------------------------------
(* The preparing tasks.                                                    *)
LEMMA InitFailsKeeps ==
  ASSUME FotaInv, NEW t \in initTasks, InitFails(t)
  PROVE  FotaInv'
<1>1. t[2] = "start" /\ lstage \in {"PREPARING", "READY"} /\ initTasks' = initTasks \ {t}
  BY DEF InitFails, FotaInv, StartInv
<1>2. finTasks' = {}
  BY <1>1 DEF InitFails, FotaInv, GuardInv, SessionIsGuarded
<1>3. \A u \in initTasks' : u[2] # "start"
  BY <1>1, OneStart DEF FotaInv
<1> QED BY <1>1, <1>2, <1>3, FailLocalKeeps DEF InitFails, FotaInv, TypeOK

(* PREPARING becomes READY, or the stage is another one by now.            *)
LEMMA BecomeReadyIs ==
  ASSUME BecomeReady, idle \in BOOLEAN
  PROVE  /\ UNCHANGED <<ltotal, lrx, lcrc_expect, lcrc_calc, lseq, loff, llen, lfinalizing>>
         /\ \/ lstage = "PREPARING" /\ lstage' = "READY" /\ idle' = FALSE
            \/ lstage # "PREPARING" /\ lstage' = lstage /\ idle' = idle
BY DEF BecomeReady

LEMMA InitStartKeeps ==
  ASSUME FotaInv, NEW t \in initTasks, InitStart(t)
  PROVE  FotaInv'
<1> USE DEF FotaInv
<1>1. /\ t[2] = "start" /\ t = <<session, "start">>
      /\ lstage \in {"PREPARING", "READY"} /\ ~idle /\ urlTask = "none"
  BY DEF InitStart, StartInv
<1>2. /\ flash' = <<>> /\ staged' = Nothing /\ coreEnd' = FALSE
      /\ UNCHANGED <<state, urlTask, watchTasks, finTasks, running, needs_restart, session,
                     given_up, reply>>
  BY DEF InitStart, urlVars
<1>3. /\ UNCHANGED <<ltotal, lrx, lcrc_expect, lcrc_calc, lseq, loff, llen, lfinalizing, idle>>
      /\ lstage' \in {"PREPARING", "READY"}
      /\ initTasks' \in {initTasks \ {t}, (initTasks \ {t}) \cup {<<t[1], "poll">>}}
  BY <1>1, BecomeReadyIs DEF InitStart, localVars, TypeOK
<1>4. /\ \A u \in initTasks \ {t} : u[2] # "start"
      /\ t[1] \in 1 .. MaxSession
  BY <1>1, OneStart DEF TypeOK
<1>5. \A u \in initTasks' : u[2] # "start"
  BY <1>3, <1>4
<1>6. TypeOK'
  <2>1. Nothing \in Image /\ <<>> \in Seq(Byte)
    BY EmptySeq DEF Nothing, Image
  <2>2. initTasks' \subseteq (1 .. MaxSession) \X {"start", "poll"}
    BY <1>3, <1>4 DEF TypeOK
  <2>3. lstage' \in Stage
    BY <1>3 DEF Stage, Active
  <2> QED BY <1>2, <1>3, <2>1, <2>2, <2>3 DEF TypeOK
<1>7. GuardInv' /\ StartInv' /\ UrlInv'
  BY <1>1, <1>2, <1>3, <1>5 DEF GuardInv, StartInv, UrlInv, SessionIsGuarded, local_active, Active
<1>8. FlashInv' /\ StagedInv'
  BY <1>1, <1>2, <1>3 DEF FlashInv, StagedInv, StagedIsVerified, Nothing
<1> QED BY <1>6, <1>7, <1>8

LEMMA InitPollKeeps ==
  ASSUME FotaInv, NEW t \in initTasks, InitPoll(t)
  PROVE  FotaInv'
<1> USE DEF FotaInv
<1>1. /\ t[2] = "poll" /\ initTasks' = initTasks \ {t}
      /\ UNCHANGED <<state, urlTask, watchTasks, finTasks, flash, staged, running, coreEnd,
                     needs_restart, session, given_up, reply>>
      /\ UNCHANGED <<ltotal, lrx, lcrc_expect, lcrc_calc, lseq, loff, llen, lfinalizing>>
  BY BecomeReadyIs DEF InitPoll, urlVars, flashVars, TypeOK
<1>2. \/ lstage = "PREPARING" /\ lstage' = "READY" /\ idle' = FALSE
      \/ lstage' = lstage /\ idle' = idle
  BY BecomeReadyIs DEF InitPoll, TypeOK
<1>3. Quiet' <=> Quiet
  BY <1>1 DEF Quiet
<1>4. TypeOK'
  <2>1. lstage' \in Stage /\ idle' \in BOOLEAN
    BY <1>2 DEF TypeOK, Stage, Active
  <2>2. initTasks' \subseteq (1 .. MaxSession) \X {"start", "poll"}
    BY <1>1 DEF TypeOK
  <2> QED BY <1>1, <2>1, <2>2 DEF TypeOK
<1>5. GuardInv' /\ StartInv' /\ UrlInv'
  BY <1>1, <1>2 DEF GuardInv, StartInv, UrlInv, SessionIsGuarded, local_active, Active
<1>6. FlashInv' /\ StagedInv'
  BY <1>1, <1>2, <1>3 DEF FlashInv, StagedInv, StagedIsVerified
<1> QED BY <1>4, <1>5, <1>6

-----------------------------------------------------------------------------
(* Time and the watchdog.                                                  *)
LEMMA ExpireKeeps == ASSUME FotaInv, Expire PROVE FotaInv'
<1> USE DEF FotaInv
<1>1. /\ initTasks = {} /\ finTasks = {} /\ idle' = TRUE
      /\ UNCHANGED <<state, urlTask, lstage, ltotal, lrx, lcrc_expect, lcrc_calc, lseq, loff, llen,
                     lfinalizing, initTasks, watchTasks, finTasks, flash, staged, running, coreEnd,
                     needs_restart, session, given_up, reply>>
  BY DEF Expire, urlVars, taskVars, flashVars
<1>2. TypeOK'
  BY <1>1 DEF TypeOK
<1>3. GuardInv' /\ StartInv' /\ UrlInv'
  BY <1>1 DEF GuardInv, StartInv, UrlInv, SessionIsGuarded, local_active
<1>4. FlashInv' /\ StagedInv'
  BY <1>1 DEF FlashInv, StagedInv, StagedIsVerified, Quiet
<1> QED BY <1>2, <1>3, <1>4

LEMMA WatchKeeps ==
  ASSUME FotaInv, NEW s \in watchTasks, WatchCancels(s) \/ WatchEnds(s)
  PROVE  FotaInv'
<1>1. CASE WatchCancels(s)
  <2>1. finTasks' = {} /\ initTasks' = initTasks
    BY <1>1 DEF WatchCancels, FotaInv, GuardInv, SessionIsGuarded
  <2>2. \A t \in initTasks : t[2] # "start"
    BY <1>1 DEF WatchCancels, FotaInv, StartInv
  <2> QED BY <1>1, <2>1, <2>2, FailLocalKeeps DEF WatchCancels, FotaInv, TypeOK
<1>2. CASE WatchEnds(s)
  <2> USE DEF FotaInv
  <2>1. /\ ~local_active /\ watchTasks' = watchTasks \ {s}
        /\ UNCHANGED <<state, urlTask, lstage, ltotal, lrx, lcrc_expect, lcrc_calc, lseq, loff, llen,
                       lfinalizing, idle, initTasks, finTasks, flash, staged, running, coreEnd,
                       needs_restart, session, given_up, reply>>
    BY <1>2 DEF WatchEnds, urlVars, localVars, flashVars
  <2>2. TypeOK'
    BY <2>1 DEF TypeOK
  <2>3. GuardInv' /\ StartInv' /\ UrlInv'
    BY <2>1 DEF GuardInv, StartInv, UrlInv, SessionIsGuarded, local_active
  <2>4. FlashInv' /\ StagedInv'
    BY <2>1 DEF FlashInv, StagedInv, StagedIsVerified, Quiet
  <2> QED BY <2>2, <2>3, <2>4
<1> QED BY <1>1, <1>2

-----------------------------------------------------------------------------
(* Blocks.                                                                 *)
LEMMA AnswerType ==
  ASSUME NEW seq, NEW n, NEW ok \in BOOLEAN
  PROVE  Answer(seq, n, ok) \in [again : BOOLEAN, ok : BOOLEAN]
<1>1. Repeats(seq, n) \in BOOLEAN
  BY DEF Repeats
<1> QED BY <1>1 DEF Answer

(* A block that is refused, or one that was there already.                 *)
LEMMA OnlyAnswers ==
  ASSUME FotaInv, reply' \in [again : BOOLEAN, ok : BOOLEAN],
         idle' = idle \/ idle' = FALSE,
         UNCHANGED <<urlVars, lstage, ltotal, lrx, lcrc_expect, lcrc_calc, lseq, loff, llen,
                     lfinalizing, taskVars, flashVars, needs_restart, session, given_up>>
  PROVE  FotaInv'
<1> USE DEF FotaInv
<1>1. UNCHANGED <<state, urlTask, lstage, ltotal, lrx, lcrc_expect, lcrc_calc, lseq, loff, llen,
                  lfinalizing, initTasks, watchTasks, finTasks, flash, staged, running, coreEnd,
                  needs_restart, session, given_up>>
  BY DEF urlVars, taskVars, flashVars
<1>2. idle' \in BOOLEAN
  BY DEF TypeOK
<1>3. TypeOK'
  BY <1>1, <1>2 DEF TypeOK
<1>4. GuardInv' /\ StartInv' /\ UrlInv'
  BY <1>1 DEF GuardInv, StartInv, UrlInv, SessionIsGuarded, local_active
<1>5. FlashInv' /\ StagedInv'
  BY <1>1 DEF FlashInv, StagedInv, StagedIsVerified, Quiet
<1> QED BY <1>3, <1>4, <1>5

(* The next block in order is appended to what the flash and the CRC hold, *)
(* and the last one, by the declared length or the core library's word,    *)
(* brings the session to VERIFYING with its finalizing task.               *)
LEMMA AcceptBlockKeeps ==
  ASSUME FotaInv, Quiet, NEW seq \in Nat, NEW data \in Blocks, NEW last \in BOOLEAN,
         InOrder(seq, lrx, Len(data)), AcceptBlock(seq, lrx, data, last),
         reply' \in [again : BOOLEAN, ok : BOOLEAN],
         UNCHANGED <<urlVars, needs_restart, session>>
  PROVE  FotaInv'
<1> USE DEF FotaInv
<1> DEFINE n == Len(data)
           complete == last \/ lrx + n >= ltotal
<1>1. /\ lstage \in {"READY", "RECEIVING"} /\ n \in 1 .. MAX_BLOCK_BYTES
      /\ seq = lseq + 1 /\ lrx + n <= ltotal
  BY DEF InOrder
<1>2. data \in Seq(Byte) /\ lrx \in Nat /\ n \in Nat /\ ltotal \in 0 .. MaxTotal
  BY <1>1, FotaAssumption DEF TypeOK
<1>3. lfinalizing = FALSE /\ finTasks = {} /\ session \in watchTasks /\ CoreAvailable
  BY <1>1 DEF GuardInv, SessionIsGuarded, TypeOK, local_active, Active
<1>4. /\ flash' = flash \o data /\ coreEnd' = last /\ lcrc_calc' = lcrc_calc \o data
      /\ lrx' = lrx + n /\ lseq' = seq /\ loff' = lrx /\ llen' = n /\ idle' = FALSE
      /\ lstage' = IF complete THEN "VERIFYING" ELSE "RECEIVING"
      /\ lfinalizing' = complete
      /\ finTasks' = IF complete THEN {session} ELSE {}
      /\ UNCHANGED <<ltotal, lcrc_expect, initTasks, watchTasks, staged, running, given_up,
                     state, urlTask, needs_restart, session>>
  BY <1>3 DEF AcceptBlock, urlVars
<1>5. flash = lcrc_calc /\ Len(flash) = lrx /\ flash \in Seq(Byte)
  BY <1>1, EmptySeq DEF FlashInv, TypeOK
<1>6. flash' = lcrc_calc' /\ flash' \in Seq(Byte) /\ Len(flash') = lrx'
  BY <1>2, <1>4, <1>5, ConcatProperties
<1>7. complete \in BOOLEAN /\ (complete => lrx' = ltotal \/ last)
  BY <1>1, <1>2, <1>4
<1> HIDE DEF complete
<1>8. TypeOK'
  <2>1. lrx' \in 0 .. ltotal' /\ lseq' \in 0 .. lrx' /\ loff' \in Nat /\ llen' \in 0 .. MAX_BLOCK_BYTES
    BY <1>1, <1>2, <1>4, FotaAssumption DEF TypeOK
  <2>2. finTasks' \subseteq 1 .. MaxSession
    BY <1>3, <1>4 DEF TypeOK
  <2>3. lstage' \in Stage
    BY <1>4 DEF Stage, Active
  <2> HIDE DEF n
  <2> QED BY <1>4, <1>6, <1>7, <2>1, <2>2, <2>3 DEF TypeOK
<1>9. GuardInv'
  BY <1>3, <1>4, <1>7 DEF GuardInv, SessionIsGuarded, local_active
<1>10. StartInv' /\ UrlInv'
  BY <1>1, <1>4 DEF StartInv, UrlInv, local_active, Active, Quiet
<1>11. FlashInv' /\ StagedInv'
  BY <1>1, <1>4, <1>6, <1>7 DEF FlashInv, StagedInv, StagedIsVerified, Quiet
<1> QED BY <1>8, <1>9, <1>10, <1>11

LEMMA FotaChunkKeeps ==
  ASSUME FotaInv, NEW seq \in Nat, NEW data \in Blocks, FotaChunk(seq, data)
  PROVE  FotaInv'
<1> DEFINE n == Len(data)
<1>1. Quiet /\ UNCHANGED <<urlVars, needs_restart, session>>
  BY DEF FotaChunk
<1>2. CASE UNCHANGED <<localVars, taskVars, flashVars, given_up>> /\ reply' = Answer(seq, n, FALSE)
  BY <1>1, <1>2, AnswerType, OnlyAnswers DEF localVars
<1>3. CASE LocalWrite(seq, lrx, data)
  <2>1. CASE IsRetry(seq, lrx, n)
    BY <1>1, <1>3, <2>1, AnswerType, OnlyAnswers DEF LocalWrite
  <2>2. CASE ~IsRetry(seq, lrx, n) /\ ~InOrder(seq, lrx, n)
    BY <1>2, <1>3, <2>2 DEF LocalWrite
  <2>3. CASE ~IsRetry(seq, lrx, n) /\ InOrder(seq, lrx, n)
    <3>1. ASSUME NEW last \in BOOLEAN, AcceptBlock(seq, lrx, data, last),
                 reply' = Answer(seq, n, TRUE)
          PROVE  FotaInv'
      BY <1>1, <2>3, <3>1, AnswerType, AcceptBlockKeeps
    <3>2. CASE RunFails /\ reply' = Answer(seq, n, FALSE)
      <4>1. finTasks' = {} /\ watchTasks' = watchTasks /\ initTasks' = initTasks
        BY <2>3, <3>2 DEF RunFails, taskVars, InOrder, FotaInv, GuardInv, SessionIsGuarded
      <4>2. \A t \in initTasks : t[2] # "start"
        BY <1>1 DEF Quiet
      <4> QED BY <1>1, <3>2, <4>1, <4>2, AnswerType, FailLocalKeeps DEF RunFails
    <3> QED BY <1>3, <2>3, <3>1, <3>2 DEF LocalWrite
  <2> QED BY <2>1, <2>2, <2>3
<1> QED BY <1>2, <1>3 DEF FotaChunk

-----------------------------------------------------------------------------
(* The end of an upload.                                                   *)
LEMMA VerifyingIs ==
  ASSUME FotaInv, NEW s \in finTasks
  PROVE  /\ lstage = "VERIFYING" /\ finTasks = {s} /\ CoreAvailable
         /\ \A t \in initTasks : t[2] # "start"
BY DEF FotaInv, GuardInv, SessionIsGuarded, StartInv, local_active, Active

LEMMA FinalizeFailsKeeps ==
  ASSUME FotaInv, NEW s \in finTasks, FinalizeFails(s)
  PROVE  FotaInv'
<1>1. finTasks' = {} /\ initTasks' = initTasks /\ watchTasks' = watchTasks
  BY VerifyingIs DEF FinalizeFails
<1> QED BY <1>1, VerifyingIs, FailLocalKeeps DEF FinalizeFails, FotaInv, TypeOK

(* What is staged is what the flash holds, which is what the CRC covers.   *)
LEMMA FinalizeCommitsKeeps ==
  ASSUME FotaInv, NEW s \in finTasks, FinalizeCommits(s)
  PROVE  FotaInv'
<1> USE DEF FotaInv
<1>1. /\ lstage = "VERIFYING" /\ finTasks' = {} /\ CoreAvailable
      /\ \A t \in initTasks : t[2] # "start"
  BY VerifyingIs DEF FinalizeCommits
<1>2. /\ lcrc_expect = NoCrc \/ lcrc_calc = lcrc_expect
      /\ staged' = [by |-> "local", data |-> flash]
      /\ lstage' = "SUCCESS" /\ lfinalizing' = FALSE /\ needs_restart' = TRUE
      /\ UNCHANGED <<state, urlTask, ltotal, lrx, lcrc_expect, lcrc_calc, lseq, loff, llen, idle,
                     initTasks, watchTasks, flash, running, coreEnd, session, given_up, reply>>
  BY DEF FinalizeCommits, urlVars
<1>3. flash = lcrc_calc /\ Len(flash) = lrx /\ (lrx = ltotal \/ coreEnd)
  BY <1>1 DEF FlashInv
<1>4. staged' \in Image /\ staged'.by = "local" /\ staged'.data = flash
  BY <1>2 DEF TypeOK, Image
<1>5. TypeOK'
  BY <1>1, <1>2, <1>4 DEF TypeOK, Stage
<1>6. GuardInv' /\ StartInv' /\ UrlInv'
  BY <1>1, <1>2 DEF GuardInv, StartInv, UrlInv, SessionIsGuarded, local_active, Active
<1>7. FlashInv'
  BY <1>2 DEF FlashInv
<1>8. StagedInv'
  BY <1>1, <1>2, <1>3, <1>4 DEF StagedInv, StagedIsVerified
<1> QED BY <1>5, <1>6, <1>7, <1>8

LEMMA LocalAbortKeeps ==
  ASSUME FotaInv, "VERIFYING" \notin AbortStages, LocalAbort
  PROVE  FotaInv'
<1>1. /\ finTasks' = {} /\ initTasks' = initTasks /\ watchTasks' = watchTasks
      /\ \A t \in initTasks : t[2] # "start"
  BY DEF LocalAbort, taskVars, Quiet, FotaInv, GuardInv, SessionIsGuarded
<1> QED BY <1>1, FailLocalKeeps DEF LocalAbort, FotaInv, TypeOK

-----------------------------------------------------------------------------
(* The other channel touches the flash only while no session is active.    *)
LEMMA UrlKeeps ==
  ASSUME FotaInv,
         UrlStart \/ UrlNotStarted \/ UrlRequest \/ \E code \in {0, 1} : UrlDone(code)
  PROVE  FotaInv'
<1> USE DEF FotaInv
<1>1. UNCHANGED <<lstage, ltotal, lrx, lcrc_expect, lcrc_calc, lseq, loff, llen, lfinalizing, idle,
                  initTasks, watchTasks, finTasks, running, coreEnd, given_up, reply>>
  BY DEF UrlStart, UrlNotStarted, UrlRequest, UrlDone, localVars, taskVars, flashVars
<1>2. lstage \notin Active /\ finTasks = {} /\ \A t \in initTasks : t[2] # "start"
  <2>1. \/ state # "ACTIVE" /\ ~local_active /\ Quiet
        \/ urlTask # "none"
    BY DEF UrlStart, UrlNotStarted, UrlRequest, UrlDone
  <2>2. lstage \notin Active
    BY <2>1 DEF UrlInv, local_active
  <2> QED BY <2>1, <2>2 DEF Quiet, StartInv, GuardInv, SessionIsGuarded, Active
<1>3. \/ urlTask' = urlTask /\ state' = "FAILED" /\ state # "ACTIVE"
      \/ urlTask' \in {"wait_net", "request"} /\ state' = "ACTIVE"
      \/ urlTask' = "none" /\ state' \in {"SUCCESS", "FAILED"}
  BY DEF UrlStart, UrlNotStarted, UrlRequest, UrlDone, UrlInv
<1>4. /\ flash' \in {flash, <<>>}
      /\ staged' \in {staged, Nothing, Download}
      /\ needs_restart' \in {needs_restart, TRUE}
  <2>1. CASE UrlStart \/ UrlNotStarted \/ UrlRequest
    BY <2>1 DEF UrlStart, UrlNotStarted, UrlRequest, flashVars
  <2>2. ASSUME NEW code \in {0, 1}, UrlDone(code)
        PROVE  /\ flash' = flash /\ staged' \in {staged, Download}
               /\ needs_restart' \in {needs_restart, TRUE}
    BY <2>2 DEF UrlDone, TypeOK
  <2> QED BY <2>1, <2>2
<1>9. session' \in 0 .. MaxSession
  <2>1. session' = session \/ (session < MaxSession /\ session' = session + 1)
    BY DEF UrlStart, UrlNotStarted, UrlRequest, UrlDone
  <2> QED BY <2>1, FotaAssumption DEF TypeOK
<1>5. /\ Nothing \in Image /\ Download \in Image /\ Nothing.by # "local" /\ Download.by # "local"
      /\ <<>> \in Seq(Byte)
  BY EmptySeq DEF Nothing, Download, Image
<1>6. TypeOK'
  <2>1. flash' \in Seq(Byte) /\ staged' \in Image /\ needs_restart' \in BOOLEAN
    BY <1>4, <1>5 DEF TypeOK
  <2>2. state' \in {"IDLE", "ACTIVE", "SUCCESS", "FAILED"} /\ urlTask' \in {"none", "wait_net", "request"}
    BY <1>3 DEF TypeOK
  <2> QED BY <1>1, <1>9, <2>1, <2>2 DEF TypeOK
<1>7. GuardInv' /\ StartInv' /\ UrlInv'
  BY <1>1, <1>2, <1>3 DEF GuardInv, StartInv, UrlInv, SessionIsGuarded, local_active, Active
<1>8. FlashInv' /\ StagedInv'
  <2>1. FlashInv'
    BY <1>1, <1>2 DEF FlashInv, Active
  <2>2. Quiet' <=> Quiet
    BY <1>1 DEF Quiet
  <2>3. staged'.by = "local" => staged' = staged
    BY <1>4, <1>5
  <2>4. needs_restart => needs_restart'
    BY <1>4
  <2>5. ASSUME staged'.by = "local" PROVE StagedInv'
    <3>1. /\ staged' = staged /\ staged.by = "local" /\ CoreAvailable /\ needs_restart'
          /\ lstage = "SUCCESS" \/ ~Quiet
          /\ lstage = "SUCCESS" =>
               /\ lcrc_expect = NoCrc \/ staged.data = lcrc_expect
               /\ Len(staged.data) = ltotal \/ coreEnd
      BY <2>3, <2>4, <2>5 DEF StagedInv, StagedIsVerified
    <3> QED BY <1>1, <2>2, <3>1 DEF StagedInv, StagedIsVerified
  <2>6. staged'.by # "local" => StagedInv'
    BY DEF StagedInv, StagedIsVerified
  <2> QED BY <2>1, <2>5, <2>6
<1> QED BY <1>6, <1>7, <1>8

-----------------------------------------------------------------------------
LEMMA InitKeeps ==
  ASSUME Init
  PROVE  FotaInv
<1>1. Nothing \in Image /\ Nothing.by # "local" /\ <<>> \in Seq(Byte)
  BY EmptySeq DEF Nothing, Image
<1>2. NoReply \in [again : BOOLEAN, ok : BOOLEAN]
  BY DEF NoReply
<1>3. TypeOK
  <2>1. /\ ltotal \in 0 .. MaxTotal /\ lrx \in 0 .. ltotal /\ lseq \in 0 .. lrx
        /\ loff \in Nat /\ llen \in 0 .. MAX_BLOCK_BYTES /\ session \in 0 .. MaxSession
    BY FotaAssumption DEF Init
  <2>2. staged \in Image /\ running \in Image
    BY <1>1 DEF Init
  <2> QED BY <1>1, <1>2, <2>1, <2>2 DEF Init, TypeOK, Stage
<1>4. GuardInv /\ StartInv /\ UrlInv
  BY DEF Init, GuardInv, StartInv, UrlInv, SessionIsGuarded, local_active, Active
<1>5. FlashInv /\ StagedInv
  BY <1>1 DEF Init, FlashInv, StagedInv, StagedIsVerified
<1> QED BY <1>3, <1>4, <1>5 DEF FotaInv

LEMMA RebootKeeps == ASSUME FotaInv, Reboot PROVE FotaInv'
<1>1. Nothing \in Image /\ Nothing.by # "local" /\ <<>> \in Seq(Byte)
  BY EmptySeq DEF Nothing, Image
<1>2. NoReply \in [again : BOOLEAN, ok : BOOLEAN]
  BY DEF NoReply
<1>3. TypeOK'
  <2>1. /\ ltotal' \in 0 .. MaxTotal /\ lrx' \in 0 .. ltotal' /\ lseq' \in 0 .. lrx'
        /\ loff' \in Nat /\ llen' \in 0 .. MAX_BLOCK_BYTES /\ session' \in 0 .. MaxSession
    BY FotaAssumption DEF Reboot
  <2>2. staged' \in Image /\ running' \in Image
    BY <1>1 DEF Reboot, FotaInv, TypeOK
  <2> QED BY <1>1, <1>2, <2>1, <2>2 DEF Reboot, TypeOK, Stage
<1>4. GuardInv' /\ StartInv' /\ UrlInv'
  BY DEF Reboot, GuardInv, StartInv, UrlInv, SessionIsGuarded, local_active, Active
<1>5. FlashInv' /\ StagedInv'
  BY <1>1 DEF Reboot, FlashInv, StagedInv, StagedIsVerified
<1> QED BY <1>3, <1>4, <1>5 DEF FotaInv

LEMMA FotaInvariant ==
  ASSUME "VERIFYING" \notin AbortStages
  PROVE  Spec => []FotaInv
<1>1. Init => FotaInv
  BY InitKeeps
<1>2. FotaInv /\ [Next]_vars => FotaInv'
  <2> SUFFICES ASSUME FotaInv, [Next]_vars PROVE FotaInv'
    OBVIOUS
  <2>1. CASE Master
    <3>1. \A seq \in lseq .. lseq + 2 : seq \in Nat
      BY DEF FotaInv, TypeOK
    <3> QED BY <2>1, <3>1, LocalBeginKeeps, FotaChunkKeeps, LocalAbortKeeps, UrlKeeps DEF Master
  <2>2. CASE Tasks
    BY <2>2, InitFailsKeeps, InitStartKeeps, InitPollKeeps, WatchKeeps, FinalizeFailsKeeps,
       FinalizeCommitsKeeps, UrlKeeps DEF Tasks
  <2>3. CASE Expire
    BY <2>3, ExpireKeeps
  <2>4. CASE Reboot
    BY <2>4, RebootKeeps
  <2>5. CASE UNCHANGED vars
    BY <2>5, OnlyAnswers DEF vars, localVars, FotaInv, TypeOK
  <2> QED BY <2>1, <2>2, <2>3, <2>4, <2>5 DEF Next
<1> QED BY <1>1, <1>2, PTL DEF Spec

(* An image is staged for the next boot only when it is complete, has the  *)
(* declared CRC, and the master has been told: what finalize_local stages  *)
(* is what local_write appended, and every way out of a session but its    *)
(* success drops it.                                                       *)
THEOREM StagedImageIsVerified ==
  ASSUME "VERIFYING" \notin AbortStages
  PROVE  Spec => []StagedIsVerified
<1>1. FotaInv => StagedIsVerified
  BY DEF FotaInv, StagedInv
<1> QED BY <1>1, FotaInvariant, PTL

(* The flash holds the accepted blocks of the current session, in order,   *)
(* each once, whatever is sent again and whichever tasks of earlier        *)
(* sessions are still under way.                                           *)
THEOREM FlashHoldsUpload ==
  ASSUME "VERIFYING" \notin AbortStages
  PROVE  Spec => []FlashIsUpload
<1>1. FotaInv => FlashIsUpload
  BY DEF FotaInv, FlashInv, FlashIsUpload, TypeOK
<1> QED BY <1>1, FotaInvariant, PTL

(* A download and a local session exclude each other, the tasks of earlier *)
(* sessions included, which could still initialize or finish the flash     *)
(* (start and local_begin ask for each other's state).                     *)
THEOREM ChannelsAreExclusive ==
  ASSUME "VERIFYING" \notin AbortStages
  PROVE  Spec => []ChannelsExclude
<1>1. FotaInv => ChannelsExclude
  BY DEF FotaInv, UrlInv, StartInv, GuardInv, SessionIsGuarded, ChannelsExclude, Quiet,
         local_active, Active
<1> QED BY <1>1, FotaInvariant, PTL

(* An active session always has its own watchdog, and one being verified   *)
(* its finalizing task, though tasks know no session and old ones may end  *)
(* a newer session or find it ended.                                       *)
THEOREM SessionsAreGuarded ==
  ASSUME "VERIFYING" \notin AbortStages
  PROVE  Spec => []SessionIsGuarded
<1>1. FotaInv => SessionIsGuarded
  BY DEF FotaInv, GuardInv
<1> QED BY <1>1, FotaInvariant, PTL
=============================================================================
