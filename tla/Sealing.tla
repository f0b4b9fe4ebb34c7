------------------------------ MODULE Sealing -------------------------------
(***************************************************************************)
(* The way of a block through one validator's node.  The worker             *)
(* (miner/worker.go) assembles a block and hands it to its task loop, the   *)
(* task loop stops the Seal in flight and calls the backend's Seal          *)
(* (consensus/istanbul/backend/engine.go), whose goroutine waits for the    *)
(* block's time, takes sealMu, announces the block in proposedBlockHash,    *)
(* posts it to the consensus core and waits on commitCh.  The core's event  *)
(* loop calls Commit (backend.go), which sends the decided block to         *)
(* commitCh if it is the announced one and to the block fetcher otherwise.  *)
(* The result loop writes what Seal returns to the chain.                   *)
(*                                                                         *)
(* The core is seen from its backend only: it decides one block a height    *)
(* (module IbftCore) and commits it at most once.  A block is the           *)
(* identifier of the worker's task, reused when nothing refers to it any    *)
(* more, or Foreign when another validator built it.                        *)
(***************************************************************************)
EXTENDS Naturals, Sequences

CONSTANTS Ids,        \* names of the blocks the worker builds
          Foreign,    \* a block another validator built
          None,
          MaxHeight   \* bound: the last height that is decided

ASSUME SealingAssumption ==
  Foreign \notin Ids /\ None \notin Ids /\ Foreign # None /\ MaxHeight \in Nat

VARIABLES
  head,               \* number of the chain's current block
  fresh,              \* the worker's blocks that stand on the head
  stopCh,             \* taskLoop: the task whose Seal it can stop
  seal,               \* seal[b]: where Seal's goroutine for b is
  stopped,            \* stopped[b]: its stop channel is closed
  proposedBlockHash,
  commitCh,           \* capacity 1
  resultCh,           \* blocks on their way to resultLoop
  toImport,           \* heights whose block Commit gave to the block fetcher
  coreState,          \* "off", "on", or "stopping": sb.core is nil, Stop waits
  sequence,           \* the core's current height
  committed,          \* the height at which this core has committed, or 0
  loop,               \* the block the core's event loop is sending to commitCh
  decided,            \* decided[n]: the block consensus decides at height n
  requested,          \* blocks the core has received as requests
  empty               \* "no", "soon": emptyLoop has interrupted the Seal, or "yes"

workerVars == <<stopCh, fresh>>
coreVars == <<coreState, sequence, committed, loop, decided, requested>>
sealVars == <<seal, stopped, proposedBlockHash, commitCh>>
nodeVars == <<head, workerVars, sealVars, resultCh, toImport, coreVars, empty>>

Heights == 1..MaxHeight

SealingInit ==
  /\ head = 0
  /\ stopCh = None /\ fresh = {}
  /\ seal = [b \in Ids |-> "none"]
  /\ stopped = [b \in Ids |-> FALSE]
  /\ proposedBlockHash = None
  /\ commitCh = << >> /\ resultCh = {} /\ toImport = {}
  /\ coreState = "off" /\ sequence = 0 /\ committed = 0 /\ loop = None
  /\ decided = [n \in Heights |-> None]
  /\ requested = {}
  /\ empty = "no"

-----------------------------------------------------------------------------
(* The worker: mainLoop, taskLoop, resultLoop, newWorkLoop. *)

\* A new block may take the name of one that has no Seal any more and that
\* neither the result loop nor the core has to do with.
Free(b) ==
  /\ seal[b] = "none"
  /\ b \notin resultCh \cup {loop}
  /\ \A n \in Heights : decided[n] = b => head >= n /\ sequence > n

\* The old block becomes a foreign one where it is still referred to: in
\* commitCh every Seal drops it, as it drops any block but its own.
Renamed(x, b) == IF x = b THEN Foreign ELSE x

\* running is set before the engine is started and cleared after it stopped.
isRunning == coreState # "off"

isEmpty == empty = "yes"

\* taskLoop's interrupt: the Seal in flight is told to stop.
Interrupted == [b \in Ids |-> stopped[b] \/ b = stopCh]

\* newWorkLoop's commit, at a start, a new head or the resubmit timer, has
\* mainLoop assemble a block on the current head, and taskLoop takes it: the
\* Seal in flight is interrupted and a new one begins, which the backend
\* refuses when the core is gone.  A task with the seal hash of the one before
\* is dropped, and is no step here: it has the same name.  The time in the
\* header makes it another block as soon as the old one's time has passed.
submitTask(b) ==
  /\ isRunning /\ ~isEmpty /\ Free(b)
  /\ fresh' = fresh \cup {b}
  /\ stopCh' = b
  /\ stopped' = [Interrupted EXCEPT ![b] = FALSE]
  /\ seal' = [seal EXCEPT ![b] = IF coreState = "on" THEN "delay" ELSE "none"]
  /\ requested' = requested \ {b}
  /\ decided' = [n \in Heights |-> Renamed(decided[n], b)]
  /\ commitCh' = [i \in DOMAIN commitCh |-> Renamed(commitCh[i], b)]
  /\ UNCHANGED <<head, proposedBlockHash, resultCh, toImport, coreState, sequence,
                 committed, loop, empty>>

\* The chain has a new head: what was built on the old one is stale.
NewHead ==
  /\ head' = head + 1
  /\ fresh' = {}
  /\ toImport' = {}
  /\ requested' = {}

\* resultLoop writes a block that the chain does not have; below the head it
\* is a side block.  Its task is still pending: newWorkLoop forgets a task
\* staleThreshold (7) heights later, which is beyond MaxHeight.
writeResult(b) ==
  /\ b \in resultCh
  /\ resultCh' = resultCh \ {b}
  /\ IF b \in fresh THEN NewHead ELSE UNCHANGED <<head, fresh, toImport, requested>>
  /\ UNCHANGED <<stopCh, sealVars, coreState, sequence, committed, loop, decided, empty>>

-----------------------------------------------------------------------------
(* Seal's goroutine. *)

\* From sealMu.Lock to the deferred Unlock: at the select ("wait"), sending the
\* block it has received there ("result"), at the deferred function ("clear").
HoldsSealMu(b) == seal[b] \in {"wait", "result", "clear"}

SealMuFree == \A c \in Ids : ~ HoldsSealMu(c)

\* The block's time has come and Seal waits for sealMu.
sealTime(b) ==
  /\ seal[b] = "delay" /\ ~SealMuFree
  /\ seal' = [seal EXCEPT ![b] = "lock"]
  /\ UNCHANGED <<head, workerVars, stopped, proposedBlockHash, commitCh, resultCh,
                 toImport, coreVars, empty>>

\* sealMu.Lock, then the block is announced and posted to the core.
sealLock(b) ==
  /\ seal[b] \in {"delay", "lock"} /\ SealMuFree
  /\ seal' = [seal EXCEPT ![b] = "wait"]
  /\ proposedBlockHash' = b
  /\ requested' = IF coreState = "on" THEN requested \cup {b} ELSE requested
  /\ UNCHANGED <<head, workerVars, stopped, commitCh, resultCh, toImport, coreState,
                 sequence, committed, loop, decided, empty>>

\* Mutant: another block than its own stays in the channel.
sealReceiveOwn(b) ==
  /\ seal[b] = "wait" /\ commitCh = <<b>>
  /\ commitCh' = << >>
  /\ seal' = [seal EXCEPT ![b] = "result"]
  /\ UNCHANGED <<head, workerVars, stopped, proposedBlockHash, resultCh, toImport,
                 coreVars, empty>>

\* A block arrives on commitCh.  Another one than its own is dropped.
sealReceive(b) ==
  /\ seal[b] = "wait" /\ commitCh # << >>
  /\ commitCh' = Tail(commitCh)
  /\ seal' = [seal EXCEPT ![b] = IF Head(commitCh) = b THEN "result" ELSE "wait"]
  /\ UNCHANGED <<head, workerVars, stopped, proposedBlockHash, resultCh, toImport,
                 coreVars, empty>>

\* The result is sent to the result loop.
sealSend(b) ==
  /\ seal[b] = "result"
  /\ resultCh' = resultCh \cup {b}
  /\ seal' = [seal EXCEPT ![b] = "clear"]
  /\ UNCHANGED <<head, workerVars, stopped, proposedBlockHash, commitCh, toImport,
                 coreVars, empty>>

\* The stop channel is closed: Seal leaves its select and sends a nil result,
\* which the result loop skips.  The hash stays announced until that send,
\* which waits while resultCh is full, has gone through.
sealStop(b) ==
  /\ stopped[b] /\ seal[b] \in {"delay", "wait"}
  /\ seal' = [seal EXCEPT ![b] = IF seal[b] = "wait" THEN "clear" ELSE "none"]
  /\ UNCHANGED <<head, workerVars, stopped, proposedBlockHash, commitCh, resultCh,
                 toImport, coreVars, empty>>

\* Mutant: the deferred function only unlocks.
sealClearUnlocks(b) ==
  /\ seal[b] = "clear"
  /\ seal' = [seal EXCEPT ![b] = "none"]
  /\ UNCHANGED <<head, workerVars, stopped, proposedBlockHash, commitCh, resultCh,
                 toImport, coreVars, empty>>

\* The deferred function clears the announced hash and unlocks sealMu.
sealClear(b) ==
  /\ seal[b] = "clear"
  /\ seal' = [seal EXCEPT ![b] = "none"]
  /\ proposedBlockHash' = None
  /\ UNCHANGED <<head, workerVars, stopped, commitCh, resultCh, toImport, coreVars,
                 empty>>

-----------------------------------------------------------------------------
(* The backend as the core and the worker drive it. *)

\* Mutant: only the announced block is passed on.
CommitOwn ==
  /\ coreState # "off" /\ loop = None
  /\ sequence \in Heights /\ committed < sequence /\ decided[sequence] # None
  /\ committed' = sequence
  /\ loop' = IF decided[sequence] = proposedBlockHash THEN decided[sequence] ELSE loop
  /\ UNCHANGED <<head, workerVars, sealVars, resultCh, toImport, coreState, sequence,
                 decided, requested, empty>>

\* Commit: the announced block goes to commitCh (sendCommit below), any other
\* one to the block fetcher.
Commit ==
  /\ coreState # "off" /\ loop = None
  /\ sequence \in Heights /\ committed < sequence /\ decided[sequence] # None
  /\ committed' = sequence
  /\ IF decided[sequence] = proposedBlockHash
     THEN loop' = decided[sequence] /\ UNCHANGED toImport
     ELSE toImport' = toImport \cup ({sequence} \ 1..head) /\ UNCHANGED loop
  /\ UNCHANGED <<head, workerVars, sealVars, resultCh, coreState, sequence,
                 decided, requested, empty>>

\* Mutant: the channel takes any number of blocks.
sendCommitUnbounded ==
  /\ loop # None
  /\ commitCh' = Append(commitCh, loop)
  /\ loop' = None
  /\ UNCHANGED <<head, workerVars, seal, stopped, proposedBlockHash,
                 resultCh, toImport, coreState, sequence, committed, decided,
                 requested, empty>>

\* The send on commitCh goes through when the channel has room.
sendCommit ==
  /\ loop # None /\ commitCh = << >>
  /\ commitCh' = <<loop>>
  /\ loop' = None
  /\ UNCHANGED <<head, workerVars, seal, stopped, proposedBlockHash,
                 resultCh, toImport, coreState, sequence, committed, decided,
                 requested, empty>>

\* FinalCommittedEvent: the core goes on with the height after the head.
coreStartNewRound ==
  /\ coreState = "on" /\ loop = None
  /\ sequence <= head
  /\ sequence' = head + 1
  /\ UNCHANGED <<head, workerVars, sealVars, resultCh, toImport, coreState,
                 committed, loop, decided, requested, empty>>

\* What Stop does first: sb.core becomes nil, and Seal refuses from now on.
Stop ==
  /\ coreState = "on"
  /\ coreState' = "stopping"
  /\ UNCHANGED <<head, workerVars, sealVars, resultCh, toImport, sequence, committed,
                 loop, decided, requested, empty>>

\* The core's event loop has ended, Stop returns and running becomes 0.
Stopped ==
  /\ coreState = "stopping" /\ loop = None
  /\ coreState' = "off"
  /\ UNCHANGED <<head, workerVars, sealVars, resultCh, toImport, sequence, committed,
                 loop, decided, requested, empty>>

\* Start clears the announced block, makes a new commitCh and starts a new
\* core at the head.
Start ==
  /\ coreState = "off"
  /\ coreState' = "on"
  /\ proposedBlockHash' = None
  /\ commitCh' = << >>
  /\ sequence' = head + 1
  /\ committed' = 0
  /\ requested' = {}
  /\ UNCHANGED <<head, workerVars, seal, stopped, resultCh, toImport, loop, decided,
                 empty>>

\* emptyLoop interrupts the Seal in flight when no block has come for too
\* long; it sets isEmpty a moment later, unless Post fails, and clears it
\* when the height has its block.
interruptForEmpty ==
  /\ isRunning /\ empty = "no"
  /\ empty' = "soon"
  /\ stopped' = Interrupted
  /\ stopCh' = None
  /\ UNCHANGED <<head, fresh, seal, proposedBlockHash, commitCh, resultCh,
                 toImport, coreVars>>

setEmpty ==
  /\ empty = "soon"
  /\ empty' \in {"yes", "no"}
  /\ UNCHANGED <<head, workerVars, sealVars, resultCh, toImport, coreVars>>

resetEmpty ==
  /\ isEmpty
  /\ empty' = "no"
  /\ UNCHANGED <<head, workerVars, sealVars, resultCh, toImport, coreVars>>

-----------------------------------------------------------------------------
(* The other validators. *)

\* Consensus decides a block at a height: one that this node's core has
\* received as a request, or another validator's.
Decide(n) ==
  /\ n = head + 1 /\ decided[n] = None
  /\ \E b \in {Foreign} \cup (requested \cap fresh) :
        decided' = [decided EXCEPT ![n] = b]
  /\ requested' = {}
  /\ UNCHANGED <<head, workerVars, sealVars, resultCh, toImport, coreState,
                 sequence, committed, loop, empty>>

\* The block fetcher or the downloader inserts the next block: a decided
\* one, or an empty block.
importBlock ==
  /\ head < MaxHeight
  /\ NewHead
  /\ UNCHANGED <<stopCh, sealVars, resultCh, coreState, sequence, committed, loop,
                 decided, empty>>

-----------------------------------------------------------------------------
SealingNext ==
  \/ \E b \in Ids : \/ submitTask(b) \/ writeResult(b)
                    \/ sealTime(b) \/ sealLock(b) \/ sealReceive(b) \/ sealStop(b)
                    \/ sealSend(b) \/ sealClear(b)
  \/ Commit \/ sendCommit \/ coreStartNewRound
  \/ Start \/ Stop \/ Stopped
  \/ interruptForEmpty \/ setEmpty \/ resetEmpty
  \/ \E n \in Heights : Decide(n)
  \/ importBlock

\* Goroutines that can run do: Go schedules them.  Some Seal gets to the end
\* of its delay and to sealMu however often the block is built anew, because
\* the time it waits for stays the same; and a select that finds both a
\* closed stop channel and a block takes the block now and then.  The result
\* loop makes room in resultCh, so that a Seal that has left its select ends.  The
\* resubmit timer brings new work while running, and emptyLoop finishes what
\* it began.  Consensus, imports, and whoever starts and stops owe nothing.
Fairness ==
  /\ SF_nodeVars(\E b \in Ids : sealLock(b))
  /\ SF_nodeVars(\E b \in Ids : sealReceive(b))
  /\ WF_nodeVars(\E b \in Ids : sealStop(b))
  /\ WF_nodeVars(\E b \in Ids : sealSend(b) \/ sealClear(b))
  /\ WF_nodeVars(\E b \in Ids : writeResult(b))
  /\ WF_nodeVars(\E b \in Ids : submitTask(b))
  /\ WF_nodeVars(sendCommit)
  /\ WF_nodeVars(setEmpty)

SealingSpec == SealingInit /\ [][SealingNext]_nodeVars /\ Fairness

-----------------------------------------------------------------------------
(* Properties. *)

SealingTypeOK ==
  /\ head \in 0..MaxHeight
  /\ fresh \subseteq Ids /\ stopCh \in Ids \cup {None}
  /\ resultCh \subseteq Ids /\ requested \subseteq Ids
  /\ seal \in [Ids -> {"none", "delay", "lock", "wait", "result", "clear"}]
  /\ stopped \in [Ids -> BOOLEAN]
  /\ proposedBlockHash \in Ids \cup {None} /\ loop \in Ids \cup {None}
  /\ commitCh \in {<< >>} \cup {<<b>> : b \in Ids \cup {Foreign}}
  /\ toImport \subseteq Heights
  /\ coreState \in {"off", "on", "stopping"} /\ empty \in {"no", "soon", "yes"}
  /\ sequence \in 0..MaxHeight + 1 /\ committed \in 0..MaxHeight
  /\ decided \in [Heights -> Ids \cup {Foreign, None}]

\* The hash that Commit compares with, without sealMu, is that of a Seal that
\* holds sealMu.  Mostly this Seal listens on commitCh.  If it has left its
\* select, it was told to stop, and what Commit sends is left to the next Seal;
\* or it has got its block, which this core does not commit again.
HashHasOwner ==
  LET b == proposedBlockHash IN
  b # None => \/ seal[b] = "wait"
              \/ seal[b] = "clear" /\ stopped[b]
              \/ /\ seal[b] \in {"result", "clear"}
                 /\ \E n \in Heights : n <= committed /\ decided[n] = b

\* A block the core has committed and that is not yet in the chain is on its
\* way there, through commitCh and resultLoop or through the block fetcher,
\* unless taskLoop told its Seal to stop: nothing else in the node loses it.
NoBlockLost ==
  committed > head =>
    LET b == decided[committed] IN
    \/ committed \in toImport
    \/ b \in {loop} \cup resultCh
    \/ /\ b \in Ids
       /\ \/ stopped[b]
          \/ commitCh = <<b>> /\ seal[b] = "wait"
          \/ seal[b] = "result"

\* The core's event loop, which handles every message, does not stay at the
\* send on commitCh: a later Seal takes what a stopped one left there.  The
\* exceptions are a Stop of the engine and the time of an empty block, when
\* no later Seal comes.
LoopGoesOn == (loop # None) ~> (loop = None \/ coreState = "stopping" \/ isEmpty)
=============================================================================
