------------------------------- MODULE Miner --------------------------------
(***************************************************************************)
(* The miner's update loop (miner/miner.go), which starts and stops the     *)
(* worker, and with it the consensus engine, for the user, for a sync of the*)
(* downloader and for an empty block, and decides with canStart and         *)
(* shouldStart when sealing goes on. Beside it run the first half of the    *)
(* worker's emptyLoop (miner/worker.go), which asks for the stop when no    *)
(* block has come for too long, and newWorkLoop, which takes the starts of  *)
(* the worker and tells emptyLoop of a new block. The three wait for each   *)
(* other at startCh, resetEmptyCh and the event mux. What the worker does   *)
(* while it runs is module Sealing, the vote for an empty block module      *)
(* EmptyBlock.                                                              *)
(***************************************************************************)
EXTENDS Naturals

CONSTANT MaxBlocks   \* bound: blocks the chain may get

ASSUME MaxBlocksAssumption == MaxBlocks \in Nat

VARIABLES
  currentHeader,     \* number of the chain's current block
  headSeen,          \* the last ChainHeadEvent newWorkLoop has taken
  newWork,           \* newWorkLoop: "idle", "send" (resetEmptyCh), "head"
  startCh,           \* a token is in the worker's startCh (capacity 1)
  engine,            \* the engine: "off", "on", "stopping" (Stop holds coreMu)
  upd,               \* update: "idle", in worker.stop for a "sync", an "empty"
                     \* block or the "user", at resetEmptyCh ("reset"), or in
                     \* worker.start ("start", "startDone" for a DoneEvent)
  canStart, shouldStart,
  subscribed,        \* update receives the downloader's and emptyLoop's events
  syncing,           \* the downloader is between StartEvent and Done or Failed
  emptyBlockNumber,  \* 0 for nil
  doneEmptyTimer,    \* the timer is armed
  emptyPc,           \* emptyLoop: "idle", "interrupt" (emptyCh), "post"
                     \* (StartEmptyBlockEvent), "set"
  emptyEvent,        \* BlockNumber of that event
  workerIsEmpty, cacheHeight,
  resetEmptyCh       \* a token is in the channel (capacity 1)

chainVars == <<currentHeader, headSeen, newWork>>
updateVars == <<upd, canStart, shouldStart, subscribed, syncing, emptyBlockNumber,
                doneEmptyTimer>>
emptyVars == <<emptyPc, emptyEvent, workerIsEmpty, cacheHeight, resetEmptyCh>>
loopVars == <<chainVars, startCh, engine, updateVars, emptyVars>>

MinerInit ==
  /\ currentHeader = 0 /\ headSeen = 0 /\ newWork = "idle"
  /\ startCh = TRUE   \* newWorker submits the first work
  /\ engine = "off"
  /\ upd = "idle" /\ canStart = TRUE /\ shouldStart = FALSE
  /\ subscribed = TRUE /\ syncing = FALSE
  /\ emptyBlockNumber = 0 /\ doneEmptyTimer = TRUE
  /\ emptyPc = "idle" /\ emptyEvent = 0
  /\ workerIsEmpty = FALSE /\ cacheHeight = 0 /\ resetEmptyCh = FALSE

-----------------------------------------------------------------------------
(* worker.start and worker.stop, as update calls them. *)

\* worker.isRunning: running is set before the engine is started and cleared
\* after it stopped.
Mining == engine # "off"

\* worker.start, up to the send to startCh.
workerStart(pc) == engine' = "on" /\ upd' = pc

\* The send to startCh, and for a DoneEvent the end of the subscription.
startSent ==
  /\ upd \in {"start", "startDone"} /\ ~startCh
  /\ startCh' = TRUE
  /\ upd' = "idle"
  /\ subscribed' = (subscribed /\ upd = "start")
  /\ UNCHANGED <<chainVars, engine, canStart, shouldStart, syncing, emptyBlockNumber,
                 doneEmptyTimer, emptyVars>>

\* worker.stop: Stop takes coreMu, clears sb.core and waits for the core's
\* event loop.
workerStop(event) ==
  /\ upd' = event
  /\ engine' = IF engine = "on" THEN "stopping" ELSE engine

\* Mutant: the timer is not armed again after a stop for an empty block.
workerStoppedUnarmed ==
  /\ upd \in {"sync", "empty", "user"}
  /\ engine' = "off"
  /\ upd' = IF upd = "sync" /\ workerIsEmpty THEN "reset" ELSE "idle"
  /\ canStart' = (canStart /\ upd = "user")
  /\ shouldStart' = (shouldStart \/ (upd # "user" /\ Mining))
  /\ emptyBlockNumber' = IF upd = "empty" /\ emptyBlockNumber < emptyEvent
                         THEN emptyEvent ELSE emptyBlockNumber
  /\ UNCHANGED <<chainVars, startCh, subscribed, syncing, doneEmptyTimer, emptyVars>>

\* The event loop has ended: Stop returns, running becomes 0, and update goes
\* on with the event it was handling.
workerStopped ==
  /\ upd \in {"sync", "empty", "user"}
  /\ engine' = "off"
  /\ upd' = IF upd = "sync" /\ workerIsEmpty THEN "reset" ELSE "idle"
  /\ canStart' = (canStart /\ upd = "user")
  /\ shouldStart' = (shouldStart \/ (upd # "user" /\ Mining))
  /\ emptyBlockNumber' = IF upd = "empty" /\ emptyBlockNumber < emptyEvent
                         THEN emptyEvent ELSE emptyBlockNumber
  /\ doneEmptyTimer' = (doneEmptyTimer \/ upd = "empty")
  /\ UNCHANGED <<chainVars, startCh, subscribed, syncing, emptyVars>>

\* A StartEvent during an empty phase ends the phase.
syncReset ==
  /\ upd = "reset" /\ ~resetEmptyCh
  /\ resetEmptyCh' = TRUE
  /\ doneEmptyTimer' = FALSE
  /\ upd' = "idle"
  /\ UNCHANGED <<chainVars, startCh, engine, canStart, shouldStart, subscribed, syncing,
                 emptyBlockNumber, emptyPc, emptyEvent, workerIsEmpty, cacheHeight>>

-----------------------------------------------------------------------------
(* The events update handles. *)

\* Miner.Start: StartMining calls it, in a goroutine of its own, when it finds
\* that the miner is not mining, which it may be by now.
userStart ==
  /\ upd = "idle"
  /\ IF canStart THEN workerStart("start") ELSE UNCHANGED <<engine, upd>>
  /\ shouldStart' = TRUE
  /\ UNCHANGED <<chainVars, startCh, canStart, subscribed, syncing, emptyBlockNumber,
                 doneEmptyTimer, emptyVars>>

\* Miner.Stop
userStop ==
  /\ upd = "idle"
  /\ shouldStart' = FALSE
  /\ workerStop("user")
  /\ UNCHANGED <<chainVars, startCh, canStart, subscribed, syncing, emptyBlockNumber,
                 doneEmptyTimer, emptyVars>>

\* downloader.StartEvent
downloaderStart ==
  /\ upd = "idle" /\ subscribed /\ ~syncing
  /\ syncing' = TRUE
  /\ workerStop("sync")
  /\ UNCHANGED <<chainVars, startCh, canStart, shouldStart, subscribed, emptyBlockNumber,
                 doneEmptyTimer, emptyVars>>

\* downloader.FailedEvent
downloaderFailed ==
  /\ upd = "idle" /\ subscribed /\ syncing
  /\ syncing' = FALSE
  /\ canStart' = TRUE
  /\ IF shouldStart THEN workerStart("start") ELSE UNCHANGED <<engine, upd>>
  /\ UNCHANGED <<chainVars, startCh, shouldStart, subscribed, emptyBlockNumber,
                 doneEmptyTimer, emptyVars>>

\* downloader.DoneEvent, after which update hears no more events
downloaderDone ==
  /\ upd = "idle" /\ subscribed /\ syncing
  /\ syncing' = FALSE
  /\ canStart' = ~shouldStart
  /\ IF shouldStart
     THEN workerStart("startDone") /\ UNCHANGED subscribed
     ELSE subscribed' = FALSE /\ UNCHANGED <<engine, upd>>
  /\ UNCHANGED <<chainVars, startCh, shouldStart, emptyBlockNumber, doneEmptyTimer,
                 emptyVars>>

\* Mutant: only canStart is set, the worker is not started.
emptyDoneNoStart ==
  /\ upd = "idle" /\ doneEmptyTimer /\ emptyBlockNumber # 0
  /\ canStart' = (canStart \/ currentHeader >= emptyBlockNumber)
  /\ doneEmptyTimer' = ~(Mining \/ (shouldStart /\ currentHeader >= emptyBlockNumber))
  /\ UNCHANGED <<chainVars, startCh, engine, upd, shouldStart, subscribed, syncing,
                 emptyBlockNumber, emptyVars>>

\* doneEmptyTimer: sealing goes on once the block that was to be empty is there.
emptyDone ==
  /\ upd = "idle" /\ doneEmptyTimer /\ emptyBlockNumber # 0
  /\ IF currentHeader >= emptyBlockNumber
     THEN /\ canStart' = TRUE
          /\ IF shouldStart THEN workerStart("start") ELSE UNCHANGED <<engine, upd>>
          /\ doneEmptyTimer' = ~(shouldStart \/ Mining)
     ELSE /\ doneEmptyTimer' = ~Mining
          /\ UNCHANGED <<engine, upd, canStart>>
  /\ UNCHANGED <<chainVars, startCh, shouldStart, subscribed, syncing, emptyBlockNumber,
                 emptyVars>>

-----------------------------------------------------------------------------
(* emptyLoop up to the vote, and the new currentHeader in newWorkLoop. *)

\* emptyTimer: no block for too long.
emptyTimeout ==
  /\ emptyPc = "idle" /\ Mining /\ ~workerIsEmpty
  /\ emptyPc' = "interrupt"
  /\ UNCHANGED <<chainVars, startCh, engine, updateVars, emptyEvent, workerIsEmpty,
                 cacheHeight, resetEmptyCh>>

\* Mutant: the event names the height after the next.
interruptSealLate ==
  /\ emptyPc = "interrupt"
  /\ emptyPc' = "post"
  /\ emptyEvent' = currentHeader + 2
  /\ UNCHANGED <<chainVars, startCh, engine, updateVars, workerIsEmpty,
                 cacheHeight, resetEmptyCh>>

\* taskLoop has taken emptyCh, and the event is made.
interruptSeal ==
  /\ emptyPc = "interrupt"
  /\ emptyPc' = "post"
  /\ emptyEvent' = currentHeader + 1
  /\ UNCHANGED <<chainVars, startCh, engine, updateVars, workerIsEmpty,
                 cacheHeight, resetEmptyCh>>

\* mux.Post returns once update has taken the StartEmptyBlockEvent, which it
\* ignores when the height has gone by; at once when nobody listens.
postStartEmpty ==
  /\ emptyPc = "post"
  /\ subscribed => upd = "idle"
  /\ emptyPc' = "set"
  /\ IF subscribed /\ emptyEvent = currentHeader + 1
     THEN workerStop("empty") ELSE UNCHANGED <<engine, upd>>
  /\ UNCHANGED <<chainVars, startCh, canStart, shouldStart, subscribed, syncing,
                 emptyBlockNumber, doneEmptyTimer, emptyEvent, workerIsEmpty,
                 cacheHeight, resetEmptyCh>>

\* The height of the vote is noted; the phase begins unless targetSizeWithWeight
\* fails.
startEmpty ==
  /\ emptyPc = "set"
  /\ emptyPc' = "idle"
  /\ cacheHeight' = currentHeader + 1
  /\ workerIsEmpty' \in {TRUE, workerIsEmpty}
  /\ UNCHANGED <<chainVars, startCh, engine, updateVars, emptyEvent, resetEmptyCh>>

\* Mutant: the phase goes on until the block after the one of the vote.
resetEmptyConditionLate ==
  /\ emptyPc = "idle"
  /\ \/ resetEmptyCh /\ resetEmptyCh' = FALSE
     \/ workerIsEmpty /\ cacheHeight < currentHeader /\ UNCHANGED resetEmptyCh
  /\ workerIsEmpty' = (workerIsEmpty /\ cacheHeight >= currentHeader)
  /\ UNCHANGED <<chainVars, startCh, engine, updateVars, emptyPc, emptyEvent, cacheHeight>>

\* Mutant: the token is taken in an empty phase only.
resetEmptyConditionEmpty ==
  /\ emptyPc = "idle" /\ workerIsEmpty
  /\ \/ resetEmptyCh /\ resetEmptyCh' = FALSE
     \/ cacheHeight <= currentHeader /\ UNCHANGED resetEmptyCh
  /\ workerIsEmpty' = FALSE
  /\ UNCHANGED <<chainVars, startCh, engine, updateVars, emptyPc, emptyEvent, cacheHeight>>

\* resetEmptyCondition, for a token in resetEmptyCh or at checkTimer.
resetEmptyCondition ==
  /\ emptyPc = "idle"
  /\ \/ resetEmptyCh /\ resetEmptyCh' = FALSE
     \/ workerIsEmpty /\ cacheHeight <= currentHeader /\ UNCHANGED resetEmptyCh
  /\ workerIsEmpty' = FALSE
  /\ UNCHANGED <<chainVars, startCh, engine, updateVars, emptyPc, emptyEvent, cacheHeight>>

\* newWorkLoop takes a start of the worker and commits new work.
startWork ==
  /\ newWork = "idle" /\ startCh
  /\ startCh' = FALSE
  /\ UNCHANGED <<chainVars, engine, updateVars, emptyVars>>

\* newWorkLoop takes a ChainHeadEvent.
chainHead ==
  /\ newWork = "idle" /\ headSeen < currentHeader
  /\ headSeen' = headSeen + 1
  /\ newWork' = IF cacheHeight <= headSeen + 1 THEN "send" ELSE "head"
  /\ UNCHANGED <<currentHeader, startCh, engine, updateVars, emptyVars>>

headReset ==
  /\ newWork = "send" /\ ~resetEmptyCh
  /\ newWork' = "head"
  /\ resetEmptyCh' = TRUE
  /\ UNCHANGED <<currentHeader, headSeen, startCh, engine, updateVars, emptyPc, emptyEvent,
                 workerIsEmpty, cacheHeight>>

\* NewChainHead takes coreMu, which Stop holds while it waits.
newChainHead ==
  /\ newWork = "head" /\ engine # "stopping"
  /\ newWork' = "idle"
  /\ UNCHANGED <<currentHeader, headSeen, startCh, engine, updateVars, emptyVars>>

\* A block is inserted: sealed here, imported, or empty.
newBlock ==
  /\ currentHeader < MaxBlocks
  /\ currentHeader' = currentHeader + 1
  /\ UNCHANGED <<headSeen, newWork, startCh, engine, updateVars, emptyVars>>

-----------------------------------------------------------------------------
MinerNext ==
  \/ startSent \/ workerStopped \/ syncReset \/ userStart \/ userStop
  \/ downloaderStart \/ downloaderFailed \/ downloaderDone
  \/ emptyDone
  \/ emptyTimeout \/ interruptSeal \/ postStartEmpty \/ startEmpty
  \/ resetEmptyCondition
  \/ startWork \/ chainHead \/ headReset \/ newChainHead \/ newBlock

\* The goroutines run and the one-second timers fire.  A select takes each of
\* its ready cases now and then, and a mutex lets each of its waiters in: the
\* event of emptyLoop, the token in resetEmptyCh, which emptyLoop selects beside
\* its timers, and NewChainHead are not passed over for ever.  A Stop of
\* an engine that runs need not return, as the core's event loop may be waiting
\* at commitCh (module Sealing).  The user, the downloader, emptyTimer's condition
\* and the arrival of blocks owe nothing.
MinerFairness ==
  /\ WF_loopVars(startSent) /\ WF_loopVars(syncReset)
  /\ WF_loopVars(engine = "off" /\ workerStopped)
  /\ WF_loopVars(emptyDone)
  /\ WF_loopVars(interruptSeal) /\ SF_loopVars(postStartEmpty) /\ WF_loopVars(startEmpty)
  /\ SF_loopVars(resetEmptyCondition)
  /\ WF_loopVars(startWork) /\ WF_loopVars(chainHead) /\ WF_loopVars(headReset)
  /\ SF_loopVars(newChainHead)

MinerSpec == MinerInit /\ [][MinerNext]_loopVars /\ MinerFairness

-----------------------------------------------------------------------------
(* Properties. *)

MinerTypeOK ==
  /\ currentHeader \in 0..MaxBlocks /\ headSeen \in 0..currentHeader
  /\ engine \in {"off", "on", "stopping"}
  /\ upd \in {"idle", "sync", "empty", "user", "reset", "start", "startDone"}
  /\ newWork \in {"idle", "send", "head"}
  /\ {canStart, shouldStart, subscribed, syncing, doneEmptyTimer, workerIsEmpty,
      resetEmptyCh, startCh} \subseteq BOOLEAN
  /\ emptyPc \in {"idle", "interrupt", "post", "set"}
  /\ {emptyBlockNumber, emptyEvent, cacheHeight} \subseteq 0..MaxBlocks + 1

\* A stop by update is never forgotten, as long as update hears the downloader: a
\* worker that is to run and does not has a sync under way, whose end starts it,
\* or the armed doneEmptyTimer, which waits for the next block at most.
StopIsUndone ==
  subscribed /\ shouldStart /\ upd = "idle" /\ ~Mining =>
    \/ syncing
    \/ doneEmptyTimer /\ emptyBlockNumber \in 1 .. currentHeader + 1

\* Neither a sync nor a missing empty block keeps the worker from running.
Unhindered == ~syncing /\ emptyBlockNumber <= currentHeader /\ upd = "idle"

\* Sealing that update stopped for a sync or for an empty block goes on: as
\* long as update hears the downloader, a worker that the user wants to run
\* and that nothing hinders, runs.
MiningResumes == <>[](shouldStart /\ Unhindered /\ subscribed) => []<>Mining

\* Miner.Start brings the worker back after Miner.Stop whatever the
\* downloader has done before.
StartTakesEffect == <>[](shouldStart /\ Unhindered) => []<>Mining

\* The empty phase ends with its height: a node whose chain has got the block
\* it was to vote for does not go on refusing to seal.
EmptyPhaseEnds == (workerIsEmpty /\ cacheHeight <= currentHeader) ~> ~workerIsEmpty

\* newWorkLoop, which every block is sealed through, stays at resetEmptyCh or
\* in NewChainHead in two cases only: update waits for it at startCh, or update
\* is in a Stop of the engine that does not return.  No other circle of waits
\* lies in the three loops.
HeadsHandled ==
  <>[](newWork # "idle") => \/ <>[](upd \in {"start", "startDone"})
                            \/ <>[](engine = "stopping")

\* newWorkLoop gets through every new head.  (It does not: with startCh and
\* resetEmptyCh full, update waits for newWorkLoop, newWorkLoop for emptyLoop
\* and emptyLoop, at the event mux, for update.  Nor does it when the engine's
\* Stop, which holds coreMu, does not return.)
HeadsAlwaysHandled == []<>(newWork = "idle")
=============================================================================
