------------------------------ MODULE FotaMgr ------------------------------
(***************************************************************************)
(* Firmware upgrade of the air780epm firmware: fota_mgr.lua and the chunk  *)
(* entry of mgmt.lua.  Two channels exclude each other: a download from a  *)
(* URL (libfota2), and a local session in which the master begins an       *)
(* upload, sends numbered blocks and may abort.                            *)
(*                                                                         *)
(* A request runs to completion.  Everything slow runs in coroutines that  *)
(* the request starts: one that prepares the flash (InitStart, InitPoll),  *)
(* one that watches for idleness (Watch), one that finalizes (Finalize...) *)
(* and one for the URL.  They carry no session of their own: `session' is  *)
(* the number of the session that started them, kept here as history.      *)
(*                                                                         *)
(* The core library `fota' and libfota2 are external: flash and staged are *)
(* what fota.init, run and finish leave behind.  The CRC32 of a content is *)
(* the content itself, so that two contents never collide.                 *)
(***************************************************************************)
EXTENDS Integers, Sequences, FiniteSets

CONSTANTS
  Byte,             (* the bytes of an image                               *)
  Blocks,           (* the blocks a master sends, too long ones included   *)
  Images,           (* the contents a master announces a CRC for           *)
  NoCrc,            (* crc32 = 0: do not check                             *)
  MAX_BLOCK_BYTES,  (* longest block                                       *)
  AbortStages,      (* the stages in which the master sends fota.abort     *)
  ENABLED_URL,      (* MGMT_FOTA_ENABLE                                    *)
  LOCAL_ENABLED,    (* MGMT_FOTA_LOCAL_ENABLE                              *)
  CoreAvailable,    (* the firmware has the core library fota              *)
  LibAvailable,     (* libfota2 can be required                            *)
  MaxTotal,         (* bound: declared length of an upload                 *)
  MaxSession        (* bound: local sessions and downloads between reboots *)

ASSUME FotaAssumption ==
  /\ Blocks \subseteq Seq(Byte) \ {<<>>}
  /\ Images \subseteq Seq(Byte)
  /\ NoCrc \notin Seq(Byte)
  /\ MAX_BLOCK_BYTES \in Nat \ {0}
  /\ MaxTotal \in Nat /\ MaxSession \in Nat
  /\ {ENABLED_URL, LOCAL_ENABLED, CoreAvailable, LibAvailable} \subseteq BOOLEAN

VARIABLES
  state,        (* URL channel: IDLE, ACTIVE, SUCCESS, FAILED              *)
  urlTask,      (* none, wait_net, request                                 *)
  lstage,       (* local stage                                             *)
  ltotal, lrx, lcrc_expect, lcrc_calc,
  lseq, loff, llen,   (* the last block written                            *)
  lfinalizing,
  idle,         (* now - llast_ms exceeds LOCAL_TIMEOUT_MS                 *)
  initTasks,    (* <<session, "start" or "poll">> of the preparing tasks   *)
  watchTasks,   (* sessions whose watchdog task lives                      *)
  finTasks,     (* sessions whose finalizing task lives                    *)
  needs_restart,(* cfg_store's flag                                        *)
  session,      (* history: sessions and downloads started since boot      *)
  flash,        (* external: bytes written since fota.init                 *)
  staged,       (* external: the image the next boot takes                 *)
  running,      (* external: the image this boot took                      *)
  coreEnd,      (* external: fota.run reported the last block              *)
  given_up,     (* history: the local session was failed or aborted        *)
  reply         (* history: whether the last block request repeated the    *)
                (* block accepted before it, and whether it was accepted   *)

urlVars == <<state, urlTask>>
localVars == <<lstage, ltotal, lrx, lcrc_expect, lcrc_calc, lseq, loff, llen, lfinalizing, idle>>
taskVars == <<initTasks, watchTasks, finTasks>>
flashVars == <<flash, staged, running, coreEnd>>
vars == <<urlVars, localVars, taskVars, flashVars, needs_restart, session, given_up, reply>>

Active == {"PREPARING", "READY", "RECEIVING", "VERIFYING"}
Stage == Active \cup {"IDLE", "SUCCESS", "FAILED"}
local_active == lstage \in Active

Nothing == [by |-> "none", data |-> <<>>]
Download == [by |-> "url", data |-> <<>>]
NoReply == [again |-> FALSE, ok |-> TRUE]

(* A task inside its first sys.wait(1) runs before the next request: the   *)
(* master has one request in flight at a time (docs/air780epm/MGMT_RPC.md, *)
(* line 62), and its answer and the next request take more than 1 ms.      *)
Quiet == \A t \in initTasks : t[2] # "start"

(* fail_local: the session is over and the core library drops what was     *)
(* written.                                                                *)
FailLocal ==
  /\ lstage' = "FAILED"
  /\ lfinalizing' = FALSE
  /\ given_up' = TRUE
  /\ flash' = <<>> /\ staged' = Nothing

-----------------------------------------------------------------------------
(* Local channel: begin and prepare                                        *)

LocalBegin(total, crc) ==
  /\ Quiet /\ LOCAL_ENABLED
  /\ ~local_active /\ state # "ACTIVE"
  /\ session < MaxSession
  /\ IF ~CoreAvailable
     THEN /\ lstage' = "FAILED"
          /\ UNCHANGED <<ltotal, lrx, lcrc_expect, lcrc_calc, lseq, loff, llen, lfinalizing,
                         idle, taskVars, session, given_up>>
     ELSE /\ lstage' = "PREPARING"
          /\ ltotal' = total /\ lrx' = 0
          /\ lseq' = 0 /\ loff' = 0 /\ llen' = 0
          /\ lcrc_expect' = crc /\ lcrc_calc' = <<>>
          /\ lfinalizing' = FALSE
          /\ idle' = FALSE
          /\ session' = session + 1
          /\ initTasks' = initTasks \cup {<<session + 1, "start">>}
          /\ watchTasks' = watchTasks \cup {session + 1}
          /\ given_up' = FALSE
          /\ UNCHANGED finTasks
  /\ reply' = NoReply
  /\ UNCHANGED <<urlVars, flashVars, needs_restart>>

(* Mutated form: the stage is not read again after the waits.              *)
BecomeReadyAlways ==
  /\ lstage' = "READY"
  /\ idle' = FALSE
  /\ UNCHANGED <<ltotal, lrx, lcrc_expect, lcrc_calc, lseq, loff, llen, lfinalizing>>

(* What the preparing task does last: PREPARING becomes READY.             *)
BecomeReady ==
  /\ lstage' = IF lstage = "PREPARING" THEN "READY" ELSE lstage
  /\ idle' = IF lstage = "PREPARING" THEN FALSE ELSE idle
  /\ UNCHANGED <<ltotal, lrx, lcrc_expect, lcrc_calc, lseq, loff, llen, lfinalizing>>

(* The preparing task after its first yield: fota.init fails, or it        *)
(* succeeds and fota.wait is polled until it says ready.                   *)
InitFails(t) ==
  /\ t[2] = "start"
  /\ initTasks' = initTasks \ {t}
  /\ FailLocal
  /\ UNCHANGED <<urlVars, ltotal, lrx, lcrc_expect, lcrc_calc, lseq, loff, llen, idle,
                 watchTasks, finTasks, running, coreEnd, needs_restart, session, reply>>

InitStart(t) ==
  /\ t[2] = "start"
  /\ flash' = <<>> /\ staged' = Nothing /\ coreEnd' = FALSE
  /\ \/ /\ lstage = "PREPARING"
        /\ initTasks' = (initTasks \ {t}) \cup {<<t[1], "poll">>}
        /\ UNCHANGED localVars
     \/ /\ initTasks' = initTasks \ {t}
        /\ BecomeReady
  /\ UNCHANGED <<urlVars, watchTasks, finTasks, running, needs_restart, session, given_up, reply>>

(* Ready, timed out, fota.wait raised, or the stage changed meanwhile.     *)
InitPoll(t) ==
  /\ t[2] = "poll"
  /\ initTasks' = initTasks \ {t}
  /\ BecomeReady
  /\ UNCHANGED <<urlVars, watchTasks, finTasks, flashVars, needs_restart, session, given_up, reply>>

-----------------------------------------------------------------------------
(* Local channel: idle watchdog                                            *)

(* LOCAL_TIMEOUT_MS (60 s) pass without a new block.  Preparing and        *)
(* finalizing take seconds (LOCAL_WAIT_MS, FINALIZE_MS) and end before.    *)
Expire ==
  /\ local_active /\ ~idle
  /\ initTasks = {} /\ finTasks = {}
  /\ idle' = TRUE
  /\ UNCHANGED <<urlVars, lstage, ltotal, lrx, lcrc_expect, lcrc_calc, lseq, loff, llen,
                 lfinalizing, taskVars, flashVars, needs_restart, session, given_up, reply>>

(* Mutated form: only a session that has blocks is cancelled.              *)
WatchCancelsReceiving(s) ==
  /\ lstage = "RECEIVING" /\ idle
  /\ watchTasks' = watchTasks \ {s}
  /\ FailLocal
  /\ UNCHANGED <<urlVars, ltotal, lrx, lcrc_expect, lcrc_calc, lseq, loff, llen, idle,
                 initTasks, finTasks, running, coreEnd, needs_restart, session, reply>>

WatchCancels(s) ==
  /\ local_active /\ idle
  /\ watchTasks' = watchTasks \ {s}
  /\ FailLocal
  /\ UNCHANGED <<urlVars, ltotal, lrx, lcrc_expect, lcrc_calc, lseq, loff, llen, idle,
                 initTasks, finTasks, running, coreEnd, needs_restart, session, reply>>

(* Mutated form: the watchdog takes a session being prepared for none.     *)
WatchEndsPreparing(s) ==
  /\ ~local_active \/ lstage = "PREPARING"
  /\ watchTasks' = watchTasks \ {s}
  /\ UNCHANGED <<urlVars, localVars, initTasks, finTasks, flashVars, needs_restart, session,
                 given_up, reply>>

WatchEnds(s) ==
  /\ ~local_active
  /\ watchTasks' = watchTasks \ {s}
  /\ UNCHANGED <<urlVars, localVars, initTasks, finTasks, flashVars, needs_restart, session,
                 given_up, reply>>

-----------------------------------------------------------------------------
(* Local channel: blocks                                                   *)

(* The block accepted last, by its number and length, sent again while     *)
(* local_write still takes retries.                                        *)
Repeats(seq, n) ==
  /\ lseq > 0 /\ seq = lseq /\ n = llen
  /\ lstage \in {"RECEIVING", "VERIFYING", "SUCCESS"}

(* What local_write accepts without writing it twice.                      *)
IsRetry(seq, offset, n) == Repeats(seq, n) /\ offset = loff

Answer(seq, n, ok) == [again |-> Repeats(seq, n), ok |-> ok]

InOrder(seq, offset, n) ==
  /\ lstage \in {"READY", "RECEIVING"}
  /\ n \in 1..MAX_BLOCK_BYTES
  /\ seq = lseq + 1
  /\ offset = lrx
  /\ lrx + n <= ltotal

(* fota.run takes the block; `last' is its second result.  The session     *)
(* goes to VERIFYING when all is there, with a task to finalize it.        *)
AcceptBlock(seq, offset, data, last) ==
  LET n == Len(data)
      complete == last \/ lrx + n >= ltotal
  IN  /\ flash' = flash \o data
      /\ coreEnd' = last
      /\ lcrc_calc' = lcrc_calc \o data
      /\ lrx' = lrx + n /\ lseq' = seq /\ loff' = offset /\ llen' = n
      /\ idle' = FALSE
      /\ lstage' = IF complete /\ ~lfinalizing THEN "VERIFYING" ELSE "RECEIVING"
      /\ lfinalizing' = (lfinalizing \/ complete)
      /\ finTasks' = IF complete /\ ~lfinalizing THEN finTasks \cup {session} ELSE finTasks
      /\ UNCHANGED <<ltotal, lcrc_expect, initTasks, watchTasks, staged, running, given_up>>

RunFails ==
  /\ FailLocal
  /\ UNCHANGED <<ltotal, lrx, lcrc_expect, lcrc_calc, lseq, loff, llen, idle,
                 taskVars, running, coreEnd>>

LocalWrite(seq, offset, data) ==
  LET n == Len(data) IN
  IF IsRetry(seq, offset, n)
  THEN /\ reply' = Answer(seq, n, TRUE)
       /\ idle' = FALSE
       /\ UNCHANGED <<lstage, ltotal, lrx, lcrc_expect, lcrc_calc, lseq, loff, llen,
                      lfinalizing, taskVars, flashVars, given_up>>
  ELSE IF ~InOrder(seq, offset, n)
  THEN /\ reply' = Answer(seq, n, FALSE)
       /\ UNCHANGED <<localVars, taskVars, flashVars, given_up>>
  ELSE \/ /\ reply' = Answer(seq, n, TRUE)
          /\ \E last \in BOOLEAN : AcceptBlock(seq, offset, data, last)
       \/ /\ reply' = Answer(seq, n, FALSE)
          /\ RunFails

(* mgmt's do_fota_chunk: the master names only the sequence number, the    *)
(* offset is what has been received so far.                                *)
FotaChunk(seq, data) ==
  /\ Quiet /\ LOCAL_ENABLED
  /\ seq >= 1
  /\ IF Len(data) > MAX_BLOCK_BYTES
     THEN /\ reply' = Answer(seq, Len(data), FALSE)
          /\ UNCHANGED <<localVars, taskVars, flashVars, given_up>>
     ELSE LocalWrite(seq, lrx, data)
  /\ UNCHANGED <<urlVars, needs_restart, session>>

-----------------------------------------------------------------------------
(* Local channel: finalize and abort                                       *)

(* fota.isDone raises, reports an error or times out, the CRC does not     *)
(* match, or fota.finish(true) fails.                                      *)
FinalizeFails(s) ==
  /\ finTasks' = finTasks \ {s}
  /\ FailLocal
  /\ UNCHANGED <<urlVars, ltotal, lrx, lcrc_expect, lcrc_calc, lseq, loff, llen, idle,
                 initTasks, watchTasks, running, coreEnd, needs_restart, session, reply>>

(* Mutated form: the declared CRC is not compared.                         *)
FinalizeUnchecked(s) ==
  /\ finTasks' = finTasks \ {s}
  /\ staged' = [by |-> "local", data |-> flash]
  /\ lstage' = "SUCCESS"
  /\ lfinalizing' = FALSE
  /\ needs_restart' = TRUE
  /\ UNCHANGED <<urlVars, ltotal, lrx, lcrc_expect, lcrc_calc, lseq, loff, llen, idle,
                 initTasks, watchTasks, flash, running, coreEnd, session, given_up, reply>>

(* fota.isDone says done and the CRC matches or is not checked.            *)
FinalizeCommits(s) ==
  /\ lcrc_expect = NoCrc \/ lcrc_calc = lcrc_expect
  /\ finTasks' = finTasks \ {s}
  /\ staged' = [by |-> "local", data |-> flash]
  /\ lstage' = "SUCCESS"
  /\ lfinalizing' = FALSE
  /\ needs_restart' = TRUE
  /\ UNCHANGED <<urlVars, ltotal, lrx, lcrc_expect, lcrc_calc, lseq, loff, llen, idle,
                 initTasks, watchTasks, flash, running, coreEnd, session, given_up, reply>>

LocalAbort ==
  /\ Quiet
  /\ local_active /\ lstage \in AbortStages
  /\ FailLocal
  /\ UNCHANGED <<urlVars, ltotal, lrx, lcrc_expect, lcrc_calc, lseq, loff, llen, idle,
                 taskVars, running, coreEnd, needs_restart, session, reply>>

-----------------------------------------------------------------------------
(* URL channel                                                             *)

(* Mutated form: a local session does not keep a download from starting.   *)
UrlStartAlways ==
  /\ Quiet /\ ENABLED_URL
  /\ state # "ACTIVE"
  /\ session < MaxSession
  /\ state' = "ACTIVE" /\ urlTask' = "wait_net" /\ session' = session + 1
  /\ UNCHANGED <<localVars, taskVars, flashVars, needs_restart, given_up, reply>>

UrlStart ==
  /\ Quiet /\ ENABLED_URL
  /\ state # "ACTIVE" /\ ~local_active
  /\ session < MaxSession
  /\ IF ~LibAvailable
     THEN state' = "FAILED" /\ UNCHANGED <<urlTask, session>>
     ELSE state' = "ACTIVE" /\ urlTask' = "wait_net" /\ session' = session + 1
  /\ UNCHANGED <<localVars, taskVars, flashVars, needs_restart, given_up, reply>>

(* Mutated form: the task gives up without saying so.                      *)
UrlNotStartedSilent ==
  /\ urlTask = "wait_net"
  /\ urlTask' = "none"
  /\ UNCHANGED <<state, localVars, taskVars, flashVars, needs_restart, session, given_up, reply>>

(* No network in time, or libfota2.request raises.                         *)
UrlNotStarted ==
  /\ urlTask = "wait_net"
  /\ state' = "FAILED" /\ urlTask' = "none"
  /\ UNCHANGED <<localVars, taskVars, flashVars, needs_restart, session, given_up, reply>>

UrlRequest ==
  /\ urlTask = "wait_net"
  /\ urlTask' = "request"
  /\ flash' = <<>> /\ staged' = Nothing
  /\ UNCHANGED <<state, localVars, taskVars, running, coreEnd, needs_restart, session,
                 given_up, reply>>

(* libfota2 calls back with its result code.                               *)
UrlDone(code) ==
  /\ urlTask = "request"
  /\ urlTask' = "none"
  /\ state' = IF code = 0 THEN "SUCCESS" ELSE "FAILED"
  /\ staged' = IF code = 0 THEN Download ELSE staged
  /\ needs_restart' = (needs_restart \/ code = 0)
  /\ UNCHANGED <<localVars, taskVars, flash, running, coreEnd, session, given_up, reply>>

-----------------------------------------------------------------------------

Init ==
  /\ state = "IDLE" /\ urlTask = "none"
  /\ lstage = "IDLE" /\ ltotal = 0 /\ lrx = 0 /\ lcrc_expect = NoCrc /\ lcrc_calc = <<>>
  /\ lseq = 0 /\ loff = 0 /\ llen = 0 /\ lfinalizing = FALSE /\ idle = FALSE
  /\ initTasks = {} /\ watchTasks = {} /\ finTasks = {}
  /\ needs_restart = FALSE /\ session = 0
  /\ flash = <<>> /\ staged = Nothing /\ coreEnd = FALSE
  /\ given_up = FALSE /\ reply = NoReply
  /\ running = Nothing

(* cmd.reboot or a power loss, at any moment: everything in RAM starts     *)
(* again, and the boot takes the staged image if there is one.             *)
Reboot ==
  /\ state' = "IDLE" /\ urlTask' = "none"
  /\ lstage' = "IDLE" /\ ltotal' = 0 /\ lrx' = 0 /\ lcrc_expect' = NoCrc /\ lcrc_calc' = <<>>
  /\ lseq' = 0 /\ loff' = 0 /\ llen' = 0 /\ lfinalizing' = FALSE /\ idle' = FALSE
  /\ initTasks' = {} /\ watchTasks' = {} /\ finTasks' = {}
  /\ needs_restart' = FALSE /\ session' = 0
  /\ flash' = <<>> /\ staged' = Nothing /\ coreEnd' = FALSE
  /\ given_up' = FALSE /\ reply' = NoReply
  /\ running' = IF staged = Nothing THEN running ELSE staged

Master ==
  \/ \E total \in 1..MaxTotal :
        \E crc \in {NoCrc} \cup {i \in Images : Len(i) = total} : LocalBegin(total, crc)
  \/ \E seq \in lseq..(lseq + 2) : \E data \in Blocks : FotaChunk(seq, data)
  \/ LocalAbort
  \/ UrlStart

Tasks ==
  \/ \E t \in initTasks : InitFails(t) \/ InitStart(t) \/ InitPoll(t)
  \/ \E s \in watchTasks : WatchCancels(s) \/ WatchEnds(s)
  \/ \E s \in finTasks : FinalizeFails(s) \/ FinalizeCommits(s)
  \/ UrlNotStarted \/ UrlRequest
  \/ \E code \in {0, 1} : UrlDone(code)

Next == Master \/ Tasks \/ Expire \/ Reboot

Spec == Init /\ [][Next]_vars

(* Tasks run when their waits end, time passes, and libfota2 calls back    *)
(* (its timeout is set to 300 s).  Nothing is assumed of the master.       *)
FairSpec ==
  /\ Spec
  /\ WF_vars(\E t \in initTasks : InitFails(t) \/ InitStart(t) \/ InitPoll(t))
  /\ WF_vars(\E s \in watchTasks : WatchCancels(s) \/ WatchEnds(s))
  /\ WF_vars(\E s \in finTasks : FinalizeFails(s) \/ FinalizeCommits(s))
  /\ WF_vars(UrlNotStarted \/ UrlRequest \/ UrlDone(0) \/ UrlDone(1))
  /\ WF_vars(Expire)

-----------------------------------------------------------------------------
(* Properties                                                              *)

Image == [by : {"none", "local", "url"}, data : Seq(Byte)]

TypeOK ==
  /\ state \in {"IDLE", "ACTIVE", "SUCCESS", "FAILED"}
  /\ urlTask \in {"none", "wait_net", "request"}
  /\ lstage \in Stage
  /\ ltotal \in 0..MaxTotal /\ lrx \in 0..ltotal /\ lseq \in 0..lrx
  /\ loff \in Nat /\ llen \in 0..MAX_BLOCK_BYTES
  /\ lcrc_expect \in Images \cup {NoCrc} /\ lcrc_calc \in Seq(Byte)
  /\ lfinalizing \in BOOLEAN /\ idle \in BOOLEAN
  /\ session \in 0..MaxSession
  /\ initTasks \subseteq (1..MaxSession) \X {"start", "poll"}
  /\ watchTasks \subseteq 1..MaxSession /\ finTasks \subseteq 1..MaxSession
  /\ needs_restart \in BOOLEAN /\ given_up \in BOOLEAN /\ coreEnd \in BOOLEAN
  /\ flash \in Seq(Byte) /\ staged \in Image /\ running \in Image
  /\ reply \in [again : BOOLEAN, ok : BOOLEAN]

(* The two channels exclude each other, and not only in the state they     *)
(* report: while libfota2 downloads, no task of a local session, however   *)
(* old, is left that could still initialize or finish the same flash       *)
(* (fota_mgr.lua:39).                                                      *)
ChannelsExclude ==
  /\ ~(state = "ACTIVE" /\ local_active)
  /\ urlTask # "none" => finTasks = {} /\ Quiet

(* The flash holds exactly the blocks of the current session, once each,   *)
(* in order and without gaps, and the running CRC covers the same bytes:   *)
(* no retry, stale task or earlier session leaves anything in between.     *)
FlashIsUpload ==
  /\ lstage = "READY" /\ Quiet => flash = <<>> /\ lrx = 0
  /\ lstage \in {"RECEIVING", "VERIFYING"} =>
       flash = lcrc_calc /\ Len(flash) = lrx /\ lrx <= ltotal

(* An uploaded image is staged for the next boot only when it is complete, *)
(* by its declared length or by the core library's word, has the declared  *)
(* CRC, and the master is told success.  It stays staged until a new       *)
(* session or download initializes the flash, never afterwards.            *)
StagedIsVerified ==
  staged.by = "local" =>
    /\ needs_restart
    /\ lstage = "SUCCESS" \/ ~Quiet
    /\ lstage = "SUCCESS" =>
         /\ lcrc_expect = NoCrc \/ staged.data = lcrc_expect
         /\ Len(staged.data) = ltotal \/ coreEnd

(* An active session is never without the task that would end it: its own  *)
(* watchdog, and in VERIFYING its finalizing task.  Tasks left over from   *)
(* earlier sessions do not take their place.                               *)
SessionIsGuarded ==
  /\ local_active => session \in watchTasks
  /\ lstage = "VERIFYING" => finTasks = {session} /\ lfinalizing
  /\ lstage # "VERIFYING" => finTasks = {}

(* Whatever the master does or stops doing, a local session ends, and so   *)
(* does a download: the channel does not stay busy forever.                *)
SessionEnds == local_active ~> ~local_active
DownloadEnds == (state = "ACTIVE") ~> (state # "ACTIVE")

(* A session that failed or was aborted leaves the old image in place      *)
(* (air780epm/README.md:584: after a failure or an abort the module still  *)
(* boots the old version).                                                 *)
GivenUpKeepsOldImage == given_up => staged.by # "local" /\ lstage # "SUCCESS"

(* The block accepted last may be sent again and is acknowledged again     *)
(* (docs/air780epm/MGMT_RPC.md:208: the same SEQ, offset and length sent   *)
(* again is an idempotent retry).                                          *)
RetryIsAcknowledged == reply.again => reply.ok
=============================================================================
