-------------------------- MODULE CorePartsProofs --------------------------
(***************************************************************************)
(* The parts of a node around the IBFT core, each on its own.  The backlog  *)
(* loses no message, and holds one back that could be handled only where    *)
(* float32 does not keep two priorities apart.  The proposers of a          *)
(* height take turns, for every size of the validator set, every last       *)
(* proposer and both policies.  For any number of blocks and any height the *)
(* hash that the backend's Commit compares with belongs to a Seal that holds*)
(* the lock, and a committed block is lost to the chain only where taskLoop *)
(* stopped its Seal.  Every stop of the worker by the miner's update loop is*)
(* undone by an event that is still to come.                                *)
(***************************************************************************)
EXTENDS Backlog, ProposerRotation, Sealing, Miner, TLAPS

-----------------------------------------------------------------------------
(* The way of a block through a node.                                       *)

\* The core is at most one height ahead of the chain, and what it has committed
\* was decided.
Ahead ==
  /\ sequence <= head + 1 /\ committed <= sequence
  /\ committed \in Heights => decided[committed] # None

\* Of the worker's blocks, one is decided at one height only, and it stands on
\* the head exactly as long as its height is the next one.
Names ==
  /\ \A n \in Heights : /\ n > head + 1 => decided[n] = None
                        /\ n <= head => decided[n] \notin fresh
                        /\ n = head + 1 /\ decided[n] \in Ids => decided[n] \in fresh
  /\ \A n, m \in Heights : decided[n] = decided[m] /\ decided[n] \in Ids => n = m

\* What Seal returned was decided.
Results ==
  \A b \in Ids : b \in resultCh \/ seal[b] = "result" => \E n \in Heights : decided[n] = b

\* sealMu has one owner.
OneOwner == \A b, c \in Ids : HoldsSealMu(b) /\ HoldsSealMu(c) => b = c

\* A worker's block in commitCh was decided at a height this core committed.
InChannel ==
  \A b \in Ids : commitCh = <<b>> => \E n \in Heights : n <= committed /\ decided[n] = b

\* The block the event loop is sending is the one it has just committed, it is
\* not in the channel already, and its Seal listens or has been stopped.
AtSend ==
  loop # None => /\ coreState # "off" /\ committed \in Heights /\ committed = sequence
                 /\ loop = decided[committed]
                 /\ seal[loop] = "wait" \/ stopped[loop]
                 /\ commitCh # <<loop>>

Placed == Ahead /\ Names /\ Results /\ OneOwner /\ InChannel /\ AtSend

SealingInv == SealingTypeOK /\ HashHasOwner /\ Placed /\ NoBlockLost

-----------------------------------------------------------------------------
\* commitCh, a channel of capacity one, is empty or holds one block.
LEMMA Channel ==
  ASSUME SealingTypeOK
  PROVE  /\ commitCh = << >> \/ \E x \in Ids \cup {Foreign} : commitCh = <<x>>
         /\ \A x : <<x>> # << >> /\ Head(<<x>>) = x /\ Tail(<<x>>) = << >>
         /\ \A x, y : <<x>> = <<y>> => x = y
  BY DEF SealingTypeOK

\* What submitTask's renaming does to the channel.
LEMMA RenamedChannel ==
  ASSUME SealingTypeOK, NEW b \in Ids,
         NEW ch, ch = [i \in DOMAIN commitCh |-> Renamed(commitCh[i], b)]
  PROVE  /\ commitCh = << >> => ch = << >>
         /\ \A x : commitCh = <<x>> => ch = <<Renamed(x, b)>>
<1>1. ASSUME commitCh = << >> PROVE ch = << >>
  BY <1>1
<1>2. ASSUME NEW x, commitCh = <<x>> PROVE ch = <<Renamed(x, b)>>
  BY <1>2
<1>. QED BY <1>1, <1>2

LEMMA InitInv == SealingInit => SealingInv
  BY SealingAssumption DEF SealingInit, SealingInv, SealingTypeOK, HashHasOwner, Placed,
     Ahead,
     Names, Results, OneOwner, HoldsSealMu, InChannel, AtSend, NoBlockLost, Heights

\* The parts of the invariant, after a step.
LEMMA Together ==
  ASSUME SealingTypeOK', HashHasOwner', Ahead', Names', Results', OneOwner', InChannel',
         AtSend', NoBlockLost'
  PROVE  SealingInv'
  BY DEF SealingInv, Placed

\* A part of the invariant holds on while the variables it speaks of stay.
LEMMA Stays ==
  ASSUME SealingInv
  PROVE  /\ UNCHANGED <<proposedBlockHash, seal, stopped, committed, decided>> => HashHasOwner'
         /\ UNCHANGED <<head, sequence, committed, decided>> => Ahead'
         /\ UNCHANGED <<head, fresh, decided>> => Names'
         /\ UNCHANGED <<resultCh, seal, decided>> => Results'
         /\ UNCHANGED seal => OneOwner'
         /\ UNCHANGED <<commitCh, committed, decided>> => InChannel'
         /\ UNCHANGED <<loop, coreState, committed, sequence, decided, seal, stopped,
                        commitCh>> => AtSend'
         /\ UNCHANGED <<head, committed, decided, toImport, loop, resultCh, stopped,
                        commitCh, seal>> => NoBlockLost'
<1>1. UNCHANGED <<proposedBlockHash, seal, stopped, committed, decided>> => HashHasOwner'
  BY DEF SealingInv, HashHasOwner
<1>2. UNCHANGED <<head, sequence, committed, decided>> => Ahead'
  BY DEF SealingInv, Placed, Ahead
<1>3. UNCHANGED <<head, fresh, decided>> => Names'
  BY DEF SealingInv, Placed, Names
<1>4. UNCHANGED <<resultCh, seal, decided>> => Results'
  BY DEF SealingInv, Placed, Results
<1>5. UNCHANGED seal => OneOwner'
  BY DEF SealingInv, Placed, OneOwner, HoldsSealMu
<1>6. UNCHANGED <<commitCh, committed, decided>> => InChannel'
  BY DEF SealingInv, Placed, InChannel
<1>7. UNCHANGED <<loop, coreState, committed, sequence, decided, seal, stopped, commitCh>>
      => AtSend'
  BY DEF SealingInv, Placed, AtSend
<1>8. UNCHANGED <<head, committed, decided, toImport, loop, resultCh, stopped, commitCh, seal>>
      => NoBlockLost'
  BY DEF SealingInv, NoBlockLost
<1>. QED BY <1>1, <1>2, <1>3, <1>4, <1>5, <1>6, <1>7, <1>8

\* Every step keeps the invariant: what an action does not touch first, then
\* each part it can disturb.
LEMMA NextInv == SealingInv /\ [SealingNext]_nodeVars => SealingInv'
<1> SUFFICES ASSUME SealingInv, [SealingNext]_nodeVars PROVE SealingInv'
  OBVIOUS
<1>0. SealingTypeOK /\ HashHasOwner /\ Ahead /\ Names /\ Results /\ OneOwner /\ InChannel
      /\ AtSend /\ NoBlockLost
  BY DEF SealingInv, Placed
<1> USE SealingAssumption
<1>1. ASSUME NEW b \in Ids, submitTask(b) PROVE SealingInv'
  <2>1. HashHasOwner' /\ Results' /\ OneOwner'
    <3>1. HashHasOwner'
      BY <1>0, <1>1 DEF submitTask, Free, Renamed, Interrupted, HashHasOwner, SealingTypeOK
    <3>2. Results'
      BY <1>0, <1>1 DEF submitTask, Free, Renamed, Results, SealingTypeOK
    <3>3. OneOwner'
      BY <1>0, <1>1 DEF submitTask, OneOwner, HoldsSealMu, SealingTypeOK
    <3>. QED BY <3>1, <3>2, <3>3
  <2>2. SealingTypeOK'
    <3>1. commitCh' \in {<< >>} \cup {<<x>> : x \in Ids \cup {Foreign}}
      BY <1>0, <1>1, Channel, RenamedChannel DEF submitTask, Renamed
    <3>2. decided' \in [Heights -> Ids \cup {Foreign, None}]
      BY <1>0, <1>1 DEF submitTask, Renamed, SealingTypeOK
    <3>. QED BY <1>0, <1>1, <3>1, <3>2, Zenon DEF submitTask, Interrupted, SealingTypeOK,
       Heights
  <2>3. Ahead'
    BY <1>0, <1>1, Zenon DEF submitTask, Free, Renamed, Interrupted, Ahead, SealingTypeOK,
       Heights, workerVars, coreVars, sealVars
  <2>4. Names'
    BY <1>0, <1>1, Zenon DEF submitTask, Free, Renamed, Interrupted, Names, SealingTypeOK,
       Heights, workerVars, coreVars, sealVars
  <2>5. InChannel'
    <3> SUFFICES ASSUME NEW c \in Ids, commitCh' = <<c>>
                 PROVE  \E n \in Heights : n <= committed' /\ decided'[n] = c
      BY DEF InChannel
    <3>1. commitCh = <<c>> /\ c # b
      BY <1>0, <1>1, Channel, RenamedChannel DEF submitTask, Renamed
    <3>2. PICK n \in Heights : n <= committed /\ decided[n] = c
      BY <1>0, <3>1, Zenon DEF InChannel
    <3>. QED BY <1>0, <1>1, <3>1, <3>2, Zenon DEF submitTask, Renamed
  <2>6. AtSend'
    BY <1>0, <1>1, SMTT(30) DEF submitTask, Free, Renamed, Interrupted, AtSend,
       SealingTypeOK,
       Heights, workerVars, coreVars, sealVars
  <2>7. NoBlockLost'
    BY <1>0, <1>1 DEF submitTask, Free, Renamed, Interrupted, NoBlockLost,
       SealingTypeOK, Heights, workerVars, coreVars, sealVars
  <2>. QED BY <2>1, <2>2, <2>3, <2>4, <2>5, <2>6, <2>7, Together, Zenon
<1>2. ASSUME NEW b \in Ids, writeResult(b) PROVE SealingInv'
  <2>1. HashHasOwner' /\ OneOwner' /\ InChannel' /\ AtSend'
    BY <1>2, Stays DEF writeResult, workerVars, coreVars, sealVars
  <2>2. Results'
    BY <1>0, <1>2, Zenon DEF writeResult, Results, workerVars, coreVars, sealVars
  <2>3. SealingTypeOK'
    <3>1. b \in fresh => head < MaxHeight
      BY <1>0, <1>2 DEF writeResult, Results, Names, SealingTypeOK, Heights
    <3>. QED BY <1>0, <1>2, <3>1 DEF writeResult, NewHead, SealingTypeOK, workerVars,
       sealVars
  <2>4. Ahead'
    BY <1>0, <1>2 DEF writeResult, NewHead, Ahead, SealingTypeOK, Heights,
       workerVars, coreVars, sealVars
  <2>5. Names'
    BY <1>0, <1>2, SMTT(30) DEF writeResult, NewHead, Names, SealingTypeOK, Heights,
       workerVars, coreVars, sealVars
  <2>6. NoBlockLost'
    BY <1>0, <1>2, Channel DEF writeResult, NewHead, NoBlockLost, Ahead,
       Names, Results, SealingTypeOK, Heights, workerVars, coreVars, sealVars
  <2>. QED BY <2>1, <2>2, <2>3, <2>4, <2>5, <2>6, Together, Zenon
<1>3. ASSUME NEW b \in Ids, sealTime(b) PROVE SealingInv'
  <2>1. Ahead' /\ Names' /\ InChannel'
    BY <1>3, Stays DEF sealTime, workerVars, coreVars, sealVars
  <2>7. Results'
    BY <1>0, <1>3 DEF sealTime, Results, SealingTypeOK, coreVars
  <2>2. SealingTypeOK'
    BY <1>0, <1>3, Zenon DEF sealTime, SealingTypeOK, workerVars, coreVars, sealVars
  <2>3. HashHasOwner'
    BY <1>0, <1>3 DEF sealTime, HashHasOwner, SealingTypeOK, workerVars, coreVars, sealVars
  <2>4. OneOwner'
    BY <1>0, <1>3 DEF sealTime, OneOwner, HoldsSealMu, SealingTypeOK
  <2>5. AtSend'
    BY <1>0, <1>3 DEF sealTime, AtSend, SealingTypeOK, workerVars, coreVars, sealVars
  <2>6. NoBlockLost'
    BY <1>0, <1>3 DEF sealTime, NoBlockLost, SealingTypeOK, workerVars, coreVars, sealVars
  <2>. QED BY <2>1, <2>2, <2>3, <2>4, <2>5, <2>6, <2>7, Together, Zenon
<1>4. ASSUME NEW b \in Ids, sealLock(b) PROVE SealingInv'
  <2>1. Ahead' /\ Names' /\ InChannel'
    BY <1>4, Stays DEF sealLock, workerVars, coreVars, sealVars
  <2>7. Results'
    BY <1>0, <1>4 DEF sealLock, Results, SealingTypeOK
  <2>2. SealingTypeOK'
    BY <1>0, <1>4 DEF sealLock, SealingTypeOK, workerVars, coreVars, sealVars
  <2>3. OneOwner'
    BY <1>0, <1>4 DEF sealLock, OneOwner, HoldsSealMu, SealMuFree, SealingTypeOK, workerVars,
       coreVars, sealVars
  <2>4. AtSend'
    BY <1>0, <1>4 DEF sealLock, AtSend, SealingTypeOK, workerVars, coreVars, sealVars
  <2>5. NoBlockLost'
    BY <1>0, <1>4 DEF sealLock, NoBlockLost, SealingTypeOK, workerVars, coreVars, sealVars
  <2>6. HashHasOwner'
    BY <1>0, <1>4 DEF sealLock, SealMuFree, HoldsSealMu, HashHasOwner, SealingTypeOK, Heights,
       workerVars, coreVars, sealVars
  <2>. QED BY <2>1, <2>2, <2>3, <2>4, <2>5, <2>6, <2>7, Together, Zenon
<1>5. ASSUME NEW b \in Ids, sealReceive(b) PROVE SealingInv'
  <2>1. /\ commitCh' = << >>
        /\ UNCHANGED <<head, stopCh, fresh, stopped, proposedBlockHash, resultCh, toImport,
                       coreState, sequence, committed, loop, decided, requested, empty>>
    BY <1>0, <1>5, Channel, Zenon DEF sealReceive, workerVars, coreVars
  <2>2. \/ seal' = seal /\ commitCh # <<b>>
        \/ seal' = [seal EXCEPT ![b] = "result"] /\ commitCh = <<b>>
    BY <1>0, <1>5, Channel, Zenon DEF sealReceive, SealingTypeOK
  <2>3. seal[b] = "wait"
    BY <1>5 DEF sealReceive
  <2>4. seal' \in [Ids -> {"none", "delay", "lock", "wait", "result", "clear"}]
    BY <1>0, <2>2 DEF SealingTypeOK
  <2>5. Ahead' /\ Names'
    BY <2>1, Stays
  <2>6. SealingTypeOK'
    BY <1>0, <2>1, <2>4 DEF SealingTypeOK
  <2>7. HashHasOwner'
    BY <1>0, <2>1, <2>2, <2>3 DEF HashHasOwner, InChannel, SealingTypeOK
  <2>8. Results'
    BY <1>0, <2>1, <2>2 DEF Results, InChannel, SealingTypeOK
  <2>9. OneOwner'
    BY <1>0, <2>2, <2>3 DEF OneOwner, HoldsSealMu, SealingTypeOK
  <2>10. InChannel'
    BY <2>1, Channel, <1>0 DEF InChannel
  <2>11. AtSend'
    BY <1>0, <2>1, <2>2, Channel, SMTT(30) DEF AtSend, SealingTypeOK
  <2>12. NoBlockLost'
    BY <1>0, <2>1, <2>2, <2>3, Channel DEF NoBlockLost, OneOwner, HoldsSealMu, SealingTypeOK
  <2>. QED BY <2>5, <2>6, <2>7, <2>8, <2>9, <2>10, <2>11, <2>12, Together, Zenon
<1>6. ASSUME NEW b \in Ids, sealStop(b) PROVE SealingInv'
  <2>1. Ahead' /\ Names' /\ InChannel'
    BY <1>6, Stays DEF sealStop, workerVars, coreVars, sealVars
  <2>2. /\ stopped[b] /\ seal[b] \in {"delay", "wait"}
        /\ seal' = [seal EXCEPT ![b] = IF seal[b] = "wait" THEN "clear" ELSE "none"]
        /\ UNCHANGED <<head, stopped, proposedBlockHash, commitCh, resultCh, toImport,
                       coreState, sequence, committed, loop, decided>>
    BY <1>6 DEF sealStop, coreVars
  <2>3. SealingTypeOK'
    BY <1>0, <1>6 DEF sealStop, SealingTypeOK, workerVars, coreVars, sealVars
  <2>4. HashHasOwner'
    BY <1>0, <2>2 DEF HashHasOwner, SealingTypeOK
  <2>5. OneOwner'
    BY <1>0, <2>2 DEF OneOwner, HoldsSealMu, SealingTypeOK
  <2>6. AtSend'
    BY <1>0, <2>2 DEF AtSend, SealingTypeOK
  <2>7. NoBlockLost'
    BY <1>0, <2>2 DEF NoBlockLost, SealingTypeOK
  <2>8. Results'
    BY <1>0, <2>2 DEF Results, SealingTypeOK
  <2>. QED BY <2>1, <2>3, <2>4, <2>5, <2>6, <2>7, <2>8, Together, Zenon
<1>7. CASE Commit
  <2>1. Names' /\ Results' /\ OneOwner'
    BY <1>7, Stays DEF Commit, workerVars, coreVars, sealVars
  <2>7. HashHasOwner'
    <3>1. /\ committed < committed' /\ committed' \in Nat
          /\ UNCHANGED <<proposedBlockHash, seal, stopped, decided>>
      BY <1>0, <1>7 DEF Commit, sealVars, SealingTypeOK, Heights
    <3>2. \A n \in Heights : n <= committed => n <= committed'
      BY <1>0, <3>1 DEF SealingTypeOK, Heights
    <3>. QED BY <1>0, <3>1, <3>2, Zenon DEF HashHasOwner
  <2>2. SealingTypeOK'
    <3>1. committed' \in 0..MaxHeight
      BY <1>0, <1>7 DEF Commit, Heights
    <3>2. toImport' \subseteq Heights
      <4>1. toImport' = toImport \/ toImport' = toImport \cup ({sequence} \ 1..head)
        BY <1>7 DEF Commit
      <4>. QED BY <1>0, <1>7, <4>1, Zenon DEF Commit, SealingTypeOK
    <3>3. loop' \in Ids \cup {None}
      BY <1>0, <1>7, SMTT(30) DEF Commit, SealingTypeOK
    <3>. QED BY <1>0, <1>7, <3>1, <3>2, <3>3 DEF Commit, SealingTypeOK, workerVars, sealVars
  <2>3. Ahead'
    BY <1>0, <1>7, SMTT(30) DEF Commit, Ahead, SealingTypeOK, Heights, workerVars, coreVars,
       sealVars
  <2>4. InChannel'
    BY <1>0, <1>7, SMTT(30) DEF Commit, InChannel, SealingTypeOK, Heights, workerVars,
       coreVars, sealVars
  <2>5. AtSend'
    BY <1>0, <1>7, Channel, SMTT(30) DEF Commit, AtSend, HashHasOwner, InChannel, Names,
       Ahead, SealingTypeOK, Heights, workerVars, coreVars, sealVars
  <2>6. NoBlockLost'
    BY <1>0, <1>7 DEF Commit, NoBlockLost, SealingTypeOK, Heights, workerVars,
       coreVars, sealVars
  <2>. QED BY <2>1, <2>2, <2>3, <2>4, <2>5, <2>6, <2>7, Together, Zenon
<1>8. CASE sendCommit
  <2>1. HashHasOwner' /\ Ahead' /\ Names' /\ Results' /\ OneOwner'
    BY <1>8, Stays, Zenon DEF sendCommit, workerVars, coreVars, sealVars
  <2>2. SealingTypeOK'
    BY <1>0, <1>8, Zenon DEF sendCommit, SealingTypeOK, workerVars, coreVars, sealVars
  <2>3. AtSend'
    BY <1>0, <1>8, Zenon DEF sendCommit, AtSend, workerVars, coreVars, sealVars
  <2>4. InChannel'
    BY <1>0, <1>8, Channel, SMTT(30) DEF sendCommit, InChannel, AtSend, SealingTypeOK,
       Heights,
       workerVars, coreVars, sealVars
  <2>5. NoBlockLost'
    BY <1>0, <1>8, Channel DEF sendCommit, NoBlockLost, AtSend, SealingTypeOK,
       Heights, workerVars, coreVars, sealVars
  <2>. QED BY <2>1, <2>2, <2>3, <2>4, <2>5, Together, Zenon
<1>9. CASE coreStartNewRound
  <2>1. HashHasOwner' /\ Names' /\ Results' /\ OneOwner' /\ InChannel'
        /\ NoBlockLost'
    BY <1>9, Stays, Zenon DEF coreStartNewRound, workerVars, coreVars, sealVars
  <2>2. SealingTypeOK'
    <3>1. head \in 0..MaxHeight
      BY <1>0, Zenon DEF SealingTypeOK
    <3>2. sequence' \in 0..MaxHeight + 1
      BY <1>9, <3>1 DEF coreStartNewRound
    <3>. QED BY <1>0, <1>9, <3>2, Zenon DEF coreStartNewRound, SealingTypeOK, workerVars,
       coreVars,
                sealVars
  <2>3. AtSend'
    BY <1>0, <1>9, Zenon DEF coreStartNewRound, AtSend, workerVars, coreVars, sealVars
  <2>4. Ahead'
    BY <1>0, <1>9 DEF coreStartNewRound, Ahead, SealingTypeOK, Heights, workerVars,
       coreVars, sealVars
  <2>. QED BY <2>1, <2>2, <2>3, <2>4, Together, Zenon
<1>10. CASE Start
  <2>1. Names' /\ Results' /\ OneOwner'
    BY <1>10, Stays DEF Start, workerVars, coreVars, sealVars
  <2>2. SealingTypeOK'
    <3>1. head \in 0..MaxHeight
      BY <1>0, Zenon DEF SealingTypeOK
    <3>2. sequence' \in 0..MaxHeight + 1 /\ committed' \in 0..MaxHeight
      BY <1>10, <3>1 DEF Start
    <3>. QED BY <1>0, <1>10, <3>2, Zenon DEF Start, SealingTypeOK, workerVars, coreVars,
                sealVars
  <2>3. HashHasOwner'
    BY <1>0, <1>10 DEF Start, HashHasOwner, workerVars, coreVars, sealVars
  <2>4. InChannel'
    BY <1>0, <1>10 DEF Start, InChannel, workerVars, coreVars, sealVars
  <2>5. AtSend'
    BY <1>0, <1>10 DEF Start, AtSend, workerVars, coreVars, sealVars
  <2>6. Ahead'
    BY <1>0, <1>10, SMTT(30) DEF Start, Ahead, SealingTypeOK, Heights, workerVars, coreVars,
       sealVars
  <2>7. NoBlockLost'
    BY <1>0, <1>10 DEF Start, NoBlockLost, SealingTypeOK, Heights, workerVars,
       coreVars, sealVars
  <2>. QED BY <2>1, <2>2, <2>3, <2>4, <2>5, <2>6, <2>7, Together, Zenon
<1>11. CASE Stop
  <2>1. HashHasOwner' /\ Ahead' /\ Names' /\ Results' /\ OneOwner' /\ InChannel'
        /\ NoBlockLost'
    BY <1>11, Stays, Zenon DEF Stop, workerVars, coreVars, sealVars
  <2>2. SealingTypeOK'
    BY <1>0, <1>11, Zenon DEF Stop, SealingTypeOK, workerVars, coreVars, sealVars
  <2>3. AtSend'
    BY <1>0, <1>11, Zenon DEF Stop, AtSend, workerVars, coreVars, sealVars
  <2>. QED BY <2>1, <2>2, <2>3, Together, Zenon
<1>12. CASE Stopped
  <2>1. HashHasOwner' /\ Ahead' /\ Names' /\ Results' /\ OneOwner' /\ InChannel'
        /\ NoBlockLost'
    BY <1>12, Stays, Zenon DEF Stopped, workerVars, coreVars, sealVars
  <2>2. SealingTypeOK'
    BY <1>0, <1>12, Zenon DEF Stopped, SealingTypeOK, workerVars, coreVars, sealVars
  <2>3. AtSend'
    BY <1>0, <1>12, Zenon DEF Stopped, AtSend, workerVars, coreVars, sealVars
  <2>. QED BY <2>1, <2>2, <2>3, Together, Zenon
<1>13. CASE interruptForEmpty
  <2>1. Ahead' /\ Names' /\ Results' /\ OneOwner' /\ InChannel'
    BY <1>13, Stays, Zenon DEF interruptForEmpty, workerVars, coreVars, sealVars
  <2>2. SealingTypeOK'
    BY <1>0, <1>13, Zenon DEF interruptForEmpty, SealingTypeOK, Interrupted, workerVars,
       coreVars, sealVars
  <2>3. NoBlockLost'
    BY <1>0, <1>13, Zenon DEF interruptForEmpty, NoBlockLost, Interrupted, SealingTypeOK,
       workerVars, coreVars, sealVars
  <2>4. AtSend'
    BY <1>0, <1>13, SMTT(30) DEF interruptForEmpty, Interrupted, AtSend, SealingTypeOK,
       Heights, workerVars, coreVars, sealVars
  <2>5. HashHasOwner'
    BY <1>0, <1>13 DEF interruptForEmpty, Interrupted, HashHasOwner, SealingTypeOK,
       coreVars
  <2>. QED BY <2>1, <2>2, <2>3, <2>4, <2>5, Together, Zenon
<1>14. CASE setEmpty
  <2>1. HashHasOwner' /\ Ahead' /\ Names' /\ Results' /\ OneOwner' /\ InChannel'
        /\ NoBlockLost' /\ AtSend'
    BY <1>14, Stays, Zenon DEF setEmpty, workerVars, coreVars, sealVars
  <2>2. SealingTypeOK'
    BY <1>0, <1>14 DEF setEmpty, SealingTypeOK, workerVars, coreVars, sealVars
  <2>. QED BY <2>1, <2>2, Together, Zenon
<1>15. CASE resetEmpty
  <2>1. HashHasOwner' /\ Ahead' /\ Names' /\ Results' /\ OneOwner' /\ InChannel'
        /\ NoBlockLost' /\ AtSend'
    BY <1>15, Stays, Zenon DEF resetEmpty, workerVars, coreVars, sealVars
  <2>2. SealingTypeOK'
    BY <1>0, <1>15 DEF resetEmpty, SealingTypeOK, workerVars, coreVars, sealVars
  <2>. QED BY <2>1, <2>2, Together, Zenon
<1>16. ASSUME NEW n \in Heights, Decide(n) PROVE SealingInv'
  <2>1. OneOwner'
    BY <1>16, Stays, Zenon DEF Decide, workerVars, coreVars, sealVars
  <2>9. HashHasOwner'
    BY <1>0, <1>16 DEF Decide, HashHasOwner, SealingTypeOK, sealVars
  <2>2. SealingTypeOK'
    BY <1>0, <1>16, Zenon DEF Decide, SealingTypeOK, workerVars, coreVars, sealVars
  <2>3. InChannel'
    BY <1>0, <1>16 DEF Decide, InChannel, SealingTypeOK, workerVars, coreVars, sealVars
  <2>4. AtSend'
    BY <1>0, <1>16, Zenon DEF Decide, AtSend, SealingTypeOK, workerVars, coreVars, sealVars
  <2>5. Ahead'
    BY <1>0, <1>16, Zenon DEF Decide, Ahead, SealingTypeOK, Heights, workerVars, coreVars,
       sealVars
  <2>6. Names'
    BY <1>0, <1>16, SMTT(30) DEF Decide, Names, SealingTypeOK, Heights, workerVars,
       coreVars,
       sealVars
  <2>7. Results'
    BY <1>0, <1>16 DEF Decide, Results, SealingTypeOK, Heights, workerVars, coreVars,
       sealVars
  <2>8. NoBlockLost'
    <3>1. committed > head => committed = n
      BY <1>0, <1>16 DEF Decide, Ahead, SealingTypeOK, Heights
    <3>2. committed # n
      BY <1>0, <1>16 DEF Decide, Ahead
    <3>. QED BY <1>16, <3>1, <3>2, Zenon DEF Decide, NoBlockLost
  <2>. QED BY <2>1, <2>2, <2>3, <2>4, <2>5, <2>6, <2>7, <2>8, <2>9, Together, Zenon
<1>17. CASE importBlock
  <2>1. HashHasOwner' /\ Results' /\ OneOwner' /\ InChannel' /\ AtSend'
    BY <1>17, Stays, Zenon DEF importBlock, workerVars, coreVars, sealVars
  <2>2. SealingTypeOK'
    <3>1. head \in 0..MaxHeight
      BY <1>0, Zenon DEF SealingTypeOK
    <3>2. head' \in 0..MaxHeight
      BY <1>17, <3>1 DEF importBlock, NewHead
    <3>. QED BY <1>0, <1>17, <3>2, Zenon DEF importBlock, SealingTypeOK, NewHead,
       workerVars, coreVars,
                sealVars
  <2>3. Ahead'
    BY <1>0, <1>17, SMTT(30) DEF importBlock, NewHead, Ahead, SealingTypeOK, Heights,
       workerVars, coreVars, sealVars
  <2>4. Names'
    BY <1>0, <1>17, SMTT(30) DEF importBlock, NewHead, Names, SealingTypeOK, Heights,
       workerVars, coreVars, sealVars
  <2>5. NoBlockLost'
    BY <1>0, <1>17, Channel DEF importBlock, NewHead, NoBlockLost, Ahead,
       SealingTypeOK, Heights, workerVars, coreVars, sealVars
  <2>. QED BY <2>1, <2>2, <2>3, <2>4, <2>5, Together, Zenon
<1>18. CASE UNCHANGED nodeVars
  <2>1. HashHasOwner' /\ Ahead' /\ Names' /\ Results' /\ OneOwner' /\ InChannel'
        /\ NoBlockLost' /\ AtSend'
    BY <1>18, Stays, Zenon DEF nodeVars, workerVars, coreVars, sealVars
  <2>2. SealingTypeOK'
    BY <1>0, <1>18 DEF SealingTypeOK, nodeVars, workerVars, coreVars, sealVars
  <2>. QED BY <2>1, <2>2, Together, Zenon
<1>19. ASSUME NEW b \in Ids, sealSend(b) PROVE SealingInv'
  <2>1. Ahead' /\ Names' /\ InChannel'
    BY <1>19, Stays DEF sealSend, workerVars, coreVars, sealVars
  <2>2. /\ seal[b] = "result" /\ resultCh' = resultCh \cup {b}
        /\ seal' = [seal EXCEPT ![b] = "clear"]
        /\ UNCHANGED <<head, stopped, proposedBlockHash, commitCh, toImport,
                       coreState, sequence, committed, loop, decided>>
    BY <1>19 DEF sealSend, coreVars
  <2>3. SealingTypeOK'
    BY <1>0, <1>19, SMTT(30) DEF sealSend, SealingTypeOK, workerVars, coreVars, sealVars
  <2>4. HashHasOwner'
    BY <1>0, <2>2, SMTT(30) DEF HashHasOwner, SealingTypeOK
  <2>5. OneOwner'
    BY <1>0, <2>2, SMTT(30) DEF OneOwner, HoldsSealMu, SealingTypeOK
  <2>6. AtSend'
    BY <1>0, <2>2, SMTT(30) DEF AtSend, SealingTypeOK
  <2>7. NoBlockLost'
    BY <1>0, <2>2, SMTT(30) DEF NoBlockLost, SealingTypeOK
  <2>8. Results'
    BY <1>0, <2>2 DEF Results, SealingTypeOK
  <2>. QED BY <2>1, <2>3, <2>4, <2>5, <2>6, <2>7, <2>8, Together, Zenon
<1>20. ASSUME NEW b \in Ids, sealClear(b) PROVE SealingInv'
  <2>1. Ahead' /\ Names' /\ InChannel'
    BY <1>20, Stays DEF sealClear, workerVars, coreVars, sealVars
  <2>2. /\ seal[b] = "clear" /\ seal' = [seal EXCEPT ![b] = "none"]
        /\ proposedBlockHash' = None
        /\ UNCHANGED <<head, stopped, commitCh, resultCh, toImport,
                       coreState, sequence, committed, loop, decided>>
    BY <1>20, SMTT(30) DEF sealClear, coreVars
  <2>3. SealingTypeOK'
    BY <1>0, <1>20, Zenon DEF sealClear, SealingTypeOK, workerVars, coreVars, sealVars
  <2>4. HashHasOwner'
    BY <2>2, Zenon DEF HashHasOwner
  <2>5. OneOwner'
    BY <1>0, <2>2, Zenon DEF OneOwner, HoldsSealMu, SealingTypeOK
  <2>6. AtSend'
    BY <1>0, <2>2, SMTT(30) DEF AtSend, SealingTypeOK
  <2>7. NoBlockLost'
    BY <1>0, <2>2, SMTT(30) DEF NoBlockLost, SealingTypeOK
  <2>8. Results'
    BY <1>0, <2>2 DEF Results, SealingTypeOK
  <2>. QED BY <2>1, <2>3, <2>4, <2>5, <2>6, <2>7, <2>8, Together, Zenon
<1>. QED
  BY <1>1, <1>2, <1>3, <1>4, <1>5, <1>6, <1>7, <1>8, <1>9, <1>10, <1>11,
     <1>12, <1>13, <1>14, <1>15, <1>16, <1>17, <1>18, <1>19, <1>20 DEF SealingNext

LEMMA InvHolds == SealingSpec => []SealingInv
<1>. QED BY InitInv, NextInv, PTL DEF SealingSpec

-----------------------------------------------------------------------------
\* The worker, its Seals and the core keep their variables in range; the core
\* is never more than one height ahead of the last one (sequence, committed).
THEOREM SealingTypes == SealingSpec => []SealingTypeOK
<1>1. SealingInv => SealingTypeOK
  BY DEF SealingInv
<1>. QED BY <1>1, InvHolds, PTL

\* However blocks are built anew, stopped, committed and imported, and whenever
\* the engine is stopped and started, the hash that Commit compares with is that
\* of a Seal that holds sealMu; it listens on commitCh unless it was told to stop
\* or has got its block already.
THEOREM HashIsOwned == SealingSpec => []HashHasOwner
<1>1. SealingInv => HashHasOwner
  BY DEF SealingInv
<1>. QED BY <1>1, InvHolds, PTL

\* A block the core has committed reaches the chain or is on its way there
\* unless taskLoop stopped its Seal, for any number of blocks and heights.
THEOREM NothingIsLost == SealingSpec => []NoBlockLost
<1>1. SealingInv => NoBlockLost
  BY DEF SealingInv
<1>. QED BY <1>1, InvHolds, PTL

-----------------------------------------------------------------------------
(* The miner's update loop.                                                 *)

\* Where update is in a call, the event it handles has left its mark.
InCall ==
  /\ upd \in {"sync", "reset"} => syncing = TRUE
  /\ upd = "reset" => engine = "off"
  /\ upd = "user" => shouldStart = FALSE
  /\ upd = "start" => engine = "on" /\ canStart = TRUE
  /\ upd = "empty" \/ emptyPc = "post" => emptyEvent # 0

\* The end of a sync or doneEmptyTimer will set canStart again.
StartComes == syncing = TRUE \/ (doneEmptyTimer = TRUE /\ emptyBlockNumber # 0)

\* While update is subscribed and may not start the worker, the worker is off and
\* something will lift this.  A stop by the user leaves it so.
Waits ==
  /\ subscribed = TRUE /\ canStart = FALSE /\ upd \in {"idle", "user"} => StartComes
  /\ subscribed = TRUE /\ canStart = FALSE /\ upd = "idle" => engine = "off"
  /\ subscribed = TRUE /\ shouldStart = TRUE /\ upd = "idle" /\ engine = "off" => StartComes

Near == emptyEvent <= currentHeader + 1 /\ emptyBlockNumber <= currentHeader + 1

\* MinerTypeOK, one variable at a time.
Ranges ==
  /\ currentHeader \in Nat /\ currentHeader <= MaxBlocks
  /\ headSeen \in Nat /\ headSeen <= currentHeader
  /\ emptyBlockNumber \in Nat /\ emptyEvent \in Nat
  /\ cacheHeight \in Nat /\ cacheHeight <= MaxBlocks + 1
Booleans ==
  /\ canStart \in BOOLEAN /\ shouldStart \in BOOLEAN /\ subscribed \in BOOLEAN
  /\ syncing \in BOOLEAN /\ doneEmptyTimer \in BOOLEAN /\ workerIsEmpty \in BOOLEAN
  /\ resetEmptyCh \in BOOLEAN /\ startCh \in BOOLEAN
Places ==
  /\ engine \in {"off", "on", "stopping"}
  /\ upd \in {"idle", "sync", "empty", "user", "reset", "start", "startDone"}
  /\ newWork \in {"idle", "send", "head"}
  /\ emptyPc \in {"idle", "interrupt", "post", "set"}

MinerInv == Ranges /\ Booleans /\ Places /\ Near /\ InCall /\ Waits

LEMMA InitMiner == MinerInit => MinerInv
<1> SUFFICES ASSUME MinerInit PROVE MinerInv
  OBVIOUS
<1> USE DEF MinerInit
<1>1. Ranges /\ Near
  BY MaxBlocksAssumption DEF Ranges, Near
<1>2. Booleans
  BY Zenon DEF Booleans
<1>3. Places
  BY Zenon DEF Places
<1>4. InCall
  BY DEF InCall
<1>5. Waits
  BY DEF Waits
<1> QED BY <1>1, <1>2, <1>3, <1>4, <1>5 DEF MinerInv

LEMMA NextMiner == MinerInv /\ [MinerNext]_loopVars => MinerInv'
<1> SUFFICES ASSUME MinerInv, [MinerNext]_loopVars PROVE MinerInv'
  OBVIOUS
<1> USE DEF chainVars, updateVars, emptyVars, Mining,
            workerStart, workerStop
<1>1. CASE startSent
  <2>1. Ranges' /\ Near'
    BY <1>1, MaxBlocksAssumption DEF startSent, MinerInv, Ranges, Near, Places
  <2>2. Booleans'
    BY <1>1, Zenon DEF startSent, MinerInv, Booleans
  <2>3. Places'
    BY <1>1, Zenon DEF startSent, MinerInv, Places
  <2>4. InCall'
    BY <1>1, Zenon DEF startSent, MinerInv, InCall, Ranges, Booleans, Places
  <2>5. Waits'
    BY <1>1 DEF startSent, MinerInv, InCall, Waits, StartComes, Ranges, Booleans, Places
  <2> QED BY <2>1, <2>2, <2>3, <2>4, <2>5 DEF MinerInv
<1>2. CASE workerStopped
  <2>1. Ranges' /\ Near'
    BY <1>2, MaxBlocksAssumption DEF workerStopped, MinerInv, Ranges, Near, Places
  <2>2. Booleans'
    BY <1>2, Zenon DEF workerStopped, MinerInv, Booleans
  <2>3. Places'
    BY <1>2, Zenon DEF workerStopped, MinerInv, Places
  <2>4. InCall'
    BY <1>2, Zenon DEF workerStopped, MinerInv, InCall, Ranges, Booleans, Places
  <2>5. Waits'
    BY <1>2 DEF workerStopped, MinerInv, InCall, Waits, StartComes, Ranges, Booleans, Places
  <2> QED BY <2>1, <2>2, <2>3, <2>4, <2>5 DEF MinerInv
<1>3. CASE syncReset
  <2>1. Ranges' /\ Near'
    BY <1>3, MaxBlocksAssumption DEF syncReset, MinerInv, Ranges, Near, Places
  <2>2. Booleans'
    BY <1>3, Zenon DEF syncReset, MinerInv, Booleans
  <2>3. Places'
    BY <1>3, Zenon DEF syncReset, MinerInv, Places
  <2>4. InCall'
    BY <1>3, Zenon DEF syncReset, MinerInv, InCall, Ranges, Booleans, Places
  <2>5. Waits'
    BY <1>3 DEF syncReset, MinerInv, InCall, Waits, StartComes, Ranges, Booleans, Places
  <2> QED BY <2>1, <2>2, <2>3, <2>4, <2>5 DEF MinerInv
<1>4. CASE userStart
  <2>1. Ranges' /\ Near'
    BY <1>4, MaxBlocksAssumption DEF userStart, MinerInv, Ranges, Near, Places
  <2>2. Booleans'
    BY <1>4, Zenon DEF userStart, MinerInv, Booleans
  <2>3. Places'
    BY <1>4, Zenon DEF userStart, MinerInv, Places
  <2>4. InCall'
    BY <1>4, Zenon DEF userStart, MinerInv, InCall, Ranges, Booleans, Places
  <2>5. Waits'
    BY <1>4 DEF userStart, MinerInv, InCall, Waits, StartComes, Ranges, Booleans, Places
  <2> QED BY <2>1, <2>2, <2>3, <2>4, <2>5, Zenon DEF MinerInv
<1>5. CASE userStop
  <2>1. Ranges' /\ Near'
    BY <1>5, MaxBlocksAssumption DEF userStop, MinerInv, Ranges, Near, Places
  <2>2. Booleans'
    BY <1>5, Zenon DEF userStop, MinerInv, Booleans
  <2>3. Places'
    BY <1>5, Zenon DEF userStop, MinerInv, Places
  <2>4. InCall'
    BY <1>5, SMTT(30) DEF userStop, MinerInv, InCall, Ranges, Booleans, Places
  <2>5. Waits'
    BY <1>5 DEF userStop, MinerInv, InCall, Waits, StartComes, Ranges, Booleans, Places
  <2> QED BY <2>1, <2>2, <2>3, <2>4, <2>5, SMTT(30) DEF MinerInv
<1>6. CASE downloaderStart
  <2>1. Ranges' /\ Near'
    BY <1>6, MaxBlocksAssumption DEF downloaderStart, MinerInv, Ranges, Near, Places
  <2>2. Booleans'
    BY <1>6, Zenon DEF downloaderStart, MinerInv, Booleans
  <2>3. Places'
    BY <1>6, Zenon DEF downloaderStart, MinerInv, Places
  <2>4. InCall'
    BY <1>6, SMTT(30) DEF downloaderStart, MinerInv, InCall, Ranges, Booleans, Places
  <2>5. Waits'
    BY <1>6 DEF downloaderStart, MinerInv, InCall, Waits, StartComes, Ranges, Booleans,
       Places
  <2> QED BY <2>1, <2>2, <2>3, <2>4, <2>5 DEF MinerInv
<1>7. CASE downloaderFailed
  <2>1. Ranges' /\ Near'
    BY <1>7, MaxBlocksAssumption DEF downloaderFailed, MinerInv, Ranges, Near, Places
  <2>2. Booleans'
    BY <1>7, Zenon DEF downloaderFailed, MinerInv, Booleans
  <2>3. Places'
    BY <1>7, Zenon DEF downloaderFailed, MinerInv, Places
  <2>4. InCall'
    BY <1>7, Zenon DEF downloaderFailed, MinerInv, InCall, Ranges, Booleans, Places
  <2>5. Waits'
    BY <1>7 DEF downloaderFailed, MinerInv, InCall, Waits, StartComes, Ranges, Booleans,
       Places
  <2> QED BY <2>1, <2>2, <2>3, <2>4, <2>5 DEF MinerInv
<1>8. CASE downloaderDone
  <2>1. Ranges' /\ Near'
    BY <1>8, MaxBlocksAssumption DEF downloaderDone, MinerInv, Ranges, Near, Places
  <2>2. Booleans'
    BY <1>8, Zenon DEF downloaderDone, MinerInv, Booleans
  <2>3. Places'
    BY <1>8, Zenon DEF downloaderDone, MinerInv, Places
  <2>4. InCall'
    BY <1>8, Zenon DEF downloaderDone, MinerInv, InCall, Ranges, Booleans, Places
  <2>5. Waits'
    BY <1>8, Zenon DEF downloaderDone, MinerInv, InCall, Waits, StartComes, Ranges,
       Booleans, Places
  <2> QED BY <2>1, <2>2, <2>3, <2>4, <2>5 DEF MinerInv
<1>9. CASE emptyDone
  <2>1. Ranges' /\ Near'
    BY <1>9, MaxBlocksAssumption DEF emptyDone, MinerInv, Ranges, Near, Places
  <2>2. Booleans'
    BY <1>9, Zenon DEF emptyDone, MinerInv, Booleans
  <2>3. Places'
    BY <1>9, Zenon DEF emptyDone, MinerInv, Places
  <2>4. InCall'
    BY <1>9, Zenon DEF emptyDone, MinerInv, InCall, Ranges, Booleans, Places
  <2>5. Waits'
    BY <1>9 DEF emptyDone, MinerInv, InCall, Waits, StartComes, Ranges, Booleans, Places
  <2> QED BY <2>1, <2>2, <2>3, <2>4, <2>5, Zenon DEF MinerInv
<1>10. CASE interruptSeal
  <2>1. Ranges' /\ Near'
    BY <1>10, MaxBlocksAssumption DEF interruptSeal, MinerInv, Ranges, Near, Places
  <2>2. Booleans'
    BY <1>10, Zenon DEF interruptSeal, MinerInv, Booleans
  <2>3. Places'
    BY <1>10, Zenon DEF interruptSeal, MinerInv, Places
  <2>4. InCall'
    BY <1>10, SMTT(30) DEF interruptSeal, MinerInv, InCall, Ranges, Booleans, Places
  <2>5. Waits'
    BY <1>10 DEF interruptSeal, MinerInv, InCall, Waits, StartComes, Ranges, Booleans,
       Places
  <2> QED BY <2>1, <2>2, <2>3, <2>4, <2>5, SMTT(30) DEF MinerInv
<1>11. CASE postStartEmpty
  <2>1. Ranges' /\ Near'
    BY <1>11, MaxBlocksAssumption DEF postStartEmpty, MinerInv, Ranges, Near, Places
  <2>2. Booleans'
    BY <1>11, Zenon DEF postStartEmpty, MinerInv, Booleans
  <2>3. Places'
    BY <1>11, Zenon DEF postStartEmpty, MinerInv, Places
  <2>4. InCall'
    BY <1>11, SMTT(30) DEF postStartEmpty, MinerInv, InCall, Ranges, Booleans, Places
  <2>5. Waits'
    BY <1>11 DEF postStartEmpty, MinerInv, InCall, Waits, StartComes, Ranges, Booleans,
       Places
  <2> QED BY <2>1, <2>2, <2>3, <2>4, <2>5, Zenon DEF MinerInv
<1>12. CASE newBlock
  <2>1. Ranges' /\ Near'
    BY <1>12, MaxBlocksAssumption DEF newBlock, MinerInv, Ranges, Near, Places
  <2>2. Booleans'
    BY <1>12, Zenon DEF newBlock, MinerInv, Booleans
  <2>3. Places'
    BY <1>12, Zenon DEF newBlock, MinerInv, Places
  <2>4. InCall'
    BY <1>12, Zenon DEF newBlock, MinerInv, InCall, Ranges, Booleans, Places
  <2>5. Waits'
    BY <1>12 DEF newBlock, MinerInv, InCall, Waits, StartComes, Ranges, Booleans, Places
  <2> QED BY <2>1, <2>2, <2>3, <2>4, <2>5 DEF MinerInv
<1>13. CASE emptyTimeout
  <2>1. Ranges' /\ Near'
    BY <1>13, MaxBlocksAssumption DEF emptyTimeout, MinerInv, Ranges, Near, Places
  <2>2. Booleans'
    BY <1>13, Zenon DEF emptyTimeout, MinerInv, Booleans
  <2>3. Places'
    BY <1>13, Zenon DEF emptyTimeout, MinerInv, Places
  <2>4. InCall'
    BY <1>13, Zenon DEF emptyTimeout, MinerInv, InCall, Ranges, Booleans, Places
  <2>5. Waits'
    BY <1>13 DEF emptyTimeout, MinerInv, InCall, Waits, StartComes, Ranges, Booleans, Places
  <2> QED BY <2>1, <2>2, <2>3, <2>4, <2>5, Zenon DEF MinerInv
<1>14. CASE startEmpty
  <2>1. Ranges' /\ Near'
    BY <1>14, MaxBlocksAssumption DEF startEmpty, MinerInv, Ranges, Near, Places
  <2>2. Booleans'
    BY <1>14, Zenon DEF startEmpty, MinerInv, Booleans
  <2>3. Places'
    BY <1>14, Zenon DEF startEmpty, MinerInv, Places
  <2>4. InCall'
    BY <1>14, Zenon DEF startEmpty, MinerInv, InCall, Ranges, Booleans, Places
  <2>5. Waits'
    BY <1>14 DEF startEmpty, MinerInv, InCall, Waits, StartComes, Ranges, Booleans, Places
  <2> QED BY <2>1, <2>2, <2>3, <2>4, <2>5, Zenon DEF MinerInv
<1>15. CASE resetEmptyCondition
  <2>1. Ranges' /\ Near'
    BY <1>15, MaxBlocksAssumption DEF resetEmptyCondition, MinerInv, Ranges, Near, Places
  <2>2. Booleans'
    BY <1>15, Zenon DEF resetEmptyCondition, MinerInv, Booleans
  <2>3. Places'
    BY <1>15, Zenon DEF resetEmptyCondition, MinerInv, Places
  <2>4. InCall'
    BY <1>15, Zenon DEF resetEmptyCondition, MinerInv, InCall, Ranges, Booleans, Places
  <2>5. Waits'
    BY <1>15 DEF resetEmptyCondition, MinerInv, InCall, Waits, StartComes, Ranges,
       Booleans, Places
  <2> QED BY <2>1, <2>2, <2>3, <2>4, <2>5, Zenon DEF MinerInv
<1>16. CASE startWork
  <2>1. Ranges' /\ Near'
    BY <1>16, MaxBlocksAssumption DEF startWork, MinerInv, Ranges, Near, Places
  <2>2. Booleans'
    BY <1>16, Zenon DEF startWork, MinerInv, Booleans
  <2>3. Places'
    BY <1>16, Zenon DEF startWork, MinerInv, Places
  <2>4. InCall'
    BY <1>16, Zenon DEF startWork, MinerInv, InCall, Ranges, Booleans, Places
  <2>5. Waits'
    BY <1>16 DEF startWork, MinerInv, InCall, Waits, StartComes, Ranges, Booleans, Places
  <2> QED BY <2>1, <2>2, <2>3, <2>4, <2>5, Zenon DEF MinerInv
<1>17. CASE chainHead
  <2>1. Ranges' /\ Near'
    BY <1>17, MaxBlocksAssumption DEF chainHead, MinerInv, Ranges, Near, Places
  <2>2. Booleans'
    BY <1>17, Zenon DEF chainHead, MinerInv, Booleans
  <2>3. Places'
    BY <1>17, Zenon DEF chainHead, MinerInv, Places
  <2>4. InCall'
    BY <1>17, SMTT(30) DEF chainHead, MinerInv, InCall, Ranges, Booleans, Places
  <2>5. Waits'
    BY <1>17 DEF chainHead, MinerInv, InCall, Waits, StartComes, Ranges, Booleans, Places
  <2> QED BY <2>1, <2>2, <2>3, <2>4, <2>5 DEF MinerInv
<1>18. CASE headReset
  <2>1. Ranges' /\ Near'
    BY <1>18, MaxBlocksAssumption DEF headReset, MinerInv, Ranges, Near, Places
  <2>2. Booleans'
    BY <1>18, Zenon DEF headReset, MinerInv, Booleans
  <2>3. Places'
    BY <1>18, Zenon DEF headReset, MinerInv, Places
  <2>4. InCall'
    BY <1>18, Zenon DEF headReset, MinerInv, InCall, Ranges, Booleans, Places
  <2>5. Waits'
    BY <1>18 DEF headReset, MinerInv, InCall, Waits, StartComes, Ranges, Booleans, Places
  <2> QED BY <2>1, <2>2, <2>3, <2>4, <2>5 DEF MinerInv
<1>19. CASE newChainHead
  <2>1. Ranges' /\ Near'
    BY <1>19, MaxBlocksAssumption DEF newChainHead, MinerInv, Ranges, Near, Places
  <2>2. Booleans'
    BY <1>19, Zenon DEF newChainHead, MinerInv, Booleans
  <2>3. Places'
    BY <1>19, Zenon DEF newChainHead, MinerInv, Places
  <2>4. InCall'
    BY <1>19, Zenon DEF newChainHead, MinerInv, InCall, Ranges, Booleans, Places
  <2>5. Waits'
    BY <1>19 DEF newChainHead, MinerInv, InCall, Waits, StartComes, Ranges, Booleans, Places
  <2> QED BY <2>1, <2>2, <2>3, <2>4, <2>5, Zenon DEF MinerInv
<1>20. CASE UNCHANGED loopVars
  <2>1. Ranges' /\ Near' /\ Booleans' /\ Places'
    BY <1>20, SMTT(30) DEF loopVars, MinerInv, Ranges, Near, Booleans, Places
  <2>2. InCall' /\ Waits'
    BY <1>20 DEF loopVars, MinerInv, InCall, Waits, StartComes
  <2> QED BY <2>1, <2>2, Zenon DEF MinerInv
<1> QED
  BY <1>1, <1>2, <1>3, <1>4, <1>5, <1>6, <1>7, <1>8, <1>9, <1>10, <1>11, <1>12, <1>13,
     <1>14, <1>15, <1>16, <1>17, <1>18, <1>19, <1>20 DEF MinerNext

LEMMA MinerInvHolds == MinerSpec => []MinerInv
<1> QED BY InitMiner, NextMiner, PTL DEF MinerSpec

\* The loops of the miner keep their variables in range: no head is told of before
\* it is there, and no event names a block beyond the next (head, emptyEvent).
THEOREM MinerTypes == MinerSpec => []MinerTypeOK
<1>1. MinerInv => MinerTypeOK
  BY MaxBlocksAssumption DEF MinerInv, Ranges, Near, Booleans, Places, MinerTypeOK
<1> QED BY <1>1, MinerInvHolds, PTL

\* Whatever the user, the downloader, the timers and the chain do and in whatever
\* order, a stop of the worker by update (miner.go) is undone: the end of the sync
\* or doneEmptyTimer is still to come, and the timer waits for the next block at
\* most.
THEOREM StopsAreUndone == MinerSpec => []StopIsUndone
<1>1. MinerInv => StopIsUndone
  BY DEF MinerInv, Ranges, Near, Booleans, Places, Waits, StartComes, StopIsUndone,
         Mining
<1> QED BY <1>1, MinerInvHolds, PTL

-----------------------------------------------------------------------------
(* The rotation of proposers. *)

\* Numbers less than N apart have different remainders.
LEMMA RemaindersDiffer ==
  ASSUME NEW N \in Nat \ {0}, NEW x \in Nat, NEW y \in Nat, x < y, y < x + N
  PROVE  x % N # y % N
<1>1. SUFFICES ASSUME x % N = y % N PROVE FALSE
  OBVIOUS
<1>2. /\ x = N * (x \div N) + (x % N) /\ y = N * (y \div N) + (y % N)
      /\ x \div N \in Int /\ y \div N \in Int /\ x % N \in Int /\ y % N \in Int
  BY SMT
<1> DEFINE k == (y \div N) - (x \div N)
<1>3. k \in Int
  BY <1>2
<1>4. N * k = y - x
  BY <1>1, <1>2, SMT
<1>5. CASE k <= 0
  <2>1. N * k <= 0
    BY <1>3, <1>5, SMT
  <2>. QED BY <1>4, <2>1
<1>6. CASE k >= 1
  <2>1. N * k >= N
    BY <1>3, <1>6, SMT
  <2>. QED BY <1>4, <2>1
<1>. QED BY <1>3, <1>5, <1>6

LEMMA RemainderRange ==
  ASSUME NEW N \in Nat \ {0}, NEW x \in Nat
  PROVE  x % N \in 0 .. N - 1
BY SMT

LEMMA ValSetType ==
  ASSUME NEW vs \in ValSets
  PROVE  /\ vs \in Seq(Validators) /\ Len(vs) \in Nat \ {0} /\ DOMAIN vs = 1 .. Len(vs)
         /\ \A i, j \in 1 .. Len(vs) : vs[i] = vs[j] => i = j
BY RotationAssumption

\* Both selectors step through the set from a place that the last proposer
\* alone determines.
LEMMA ProposerBySeed ==
  ASSUME NEW pol, NEW vs \in ValSets, NEW last
  PROVE  \E s \in Nat : \A r \in Nat :
           CalcProposer(pol, vs, last, r) = vs[((s + r) % Len(vs)) + 1]
<1> DEFINE member == \E i \in DOMAIN vs : vs[i] = last
           offset == IF member THEN GetByAddress(vs, last) ELSE 0
<1>1. offset \in Nat
  <2>1. CASE member
    <3>1. PICK i \in DOMAIN vs : vs[i] = last
      BY <2>1
    <3>2. i - 1 \in 0 .. Len(vs) - 1 /\ vs[(i - 1) + 1] = last
      BY <3>1, ValSetType
    <3>3. GetByAddress(vs, last) \in 0 .. Len(vs) - 1
      BY <3>2 DEF GetByAddress
    <3>. QED BY <2>1, <3>3, ValSetType
  <2>. QED BY <2>1
<1>2. \A r \in Nat : calcSeed(vs, last, r) = offset + r
  BY DEF calcSeed
<1> HIDE DEF offset
<1>3. CASE last = NoAddress
  <2>1. \A r \in Nat : CalcProposer(pol, vs, last, r) = vs[((0 + r) % Len(vs)) + 1]
    BY <1>3 DEF CalcProposer, stickyProposer, roundRobinProposer
  <2>. QED BY <2>1, Zenon
<1>4. CASE last # NoAddress /\ pol = "Sticky"
  <2>1. \A r \in Nat : CalcProposer(pol, vs, last, r) = vs[((offset + r) % Len(vs)) + 1]
    BY <1>2, <1>4 DEF CalcProposer, stickyProposer
  <2>. QED BY <1>1, <2>1, Zenon
<1>5. CASE last # NoAddress /\ pol # "Sticky"
  <2>1. \A r \in Nat : CalcProposer(pol, vs, last, r) = vs[((offset + r + 1) % Len(vs)) + 1]
    BY <1>2, <1>5 DEF CalcProposer, roundRobinProposer
  <2>2. \A r \in Nat : offset + r + 1 = (offset + 1) + r
    BY <1>1
  <2>3. \A r \in Nat : CalcProposer(pol, vs, last, r) = vs[(((offset + 1) + r) % Len(vs)) + 1]
    BY <2>1, <2>2
  <2>4. offset + 1 \in Nat
    BY <1>1
  <2>. QED BY <2>3, <2>4, Zenon
<1>. QED BY <1>3, <1>4, <1>5

LEMMA ProposerIsValidator ==
  ASSUME NEW pol, NEW vs \in ValSets, NEW last, NEW r \in Nat
  PROVE  CalcProposer(pol, vs, last, r) \in Validators
<1>1. PICK s \in Nat : CalcProposer(pol, vs, last, r) = vs[((s + r) % Len(vs)) + 1]
  BY ProposerBySeed, Zenon
<1>2. ((s + r) % Len(vs)) + 1 \in 1 .. Len(vs)
  BY ValSetType, SMT
<1>. QED BY <1>1, <1>2, ValSetType

-----------------------------------------------------------------------------
\* The turns are what CalcProposer gives for the rounds so far.
RInv ==
  /\ valSet \in ValSets
  /\ turns \in Seq(Validators) /\ turns # << >>
  /\ policy \in {"RoundRobin", "Sticky"}
  /\ \A i \in 1 .. Len(turns) : turns[i] = CalcProposer(policy, valSet, lastProposer, i - 1)

LEMMA TurnsKnown == RotationSpec => []RInv
<1>1. RotationInit => RInv
  <2>1. SUFFICES ASSUME RotationInit PROVE RInv
    OBVIOUS
  <2>2. CalcProposer(policy, valSet, NoAddress, 0) \in Validators
    BY <2>1, ProposerIsValidator DEF RotationInit
  <2>3. Len(turns) = 1 /\ turns[1] = CalcProposer(policy, valSet, NoAddress, 0)
    BY <2>1 DEF RotationInit
  <2>. QED BY <2>1, <2>2, <2>3 DEF RotationInit, RInv
<1>2. RInv /\ [RotationNext]_rotationVars => RInv'
  <2>1. SUFFICES ASSUME RInv, [RotationNext]_rotationVars PROVE RInv'
    OBVIOUS
  <2>2. ASSUME NEW last, newHeight(last) PROVE RInv'
    <3>1. CalcProposer(policy, valSet', last, 0) \in Validators
      BY <2>2, ProposerIsValidator DEF newHeight
    <3>2. turns' = <<CalcProposer(policy, valSet', last, 0)>> /\ lastProposer' = last /\ valSet' \in ValSets
          /\ policy' = policy
      BY <2>2 DEF newHeight
    <3>3. Len(turns') = 1 /\ turns'[1] = CalcProposer(policy, valSet', last, 0) /\ turns' \in Seq(Validators)
      BY <3>1, <3>2
    <3>4. \A i \in 1 .. Len(turns') : turns'[i] = CalcProposer(policy', valSet', lastProposer', i - 1)
      BY <3>2, <3>3
    <3>5. policy' \in {"RoundRobin", "Sticky"} /\ turns' # << >>
      BY <2>1, <3>2 DEF RInv
    <3>. QED BY <3>2, <3>3, <3>4, <3>5, Zenon DEF RInv, CalcProposer, stickyProposer,
       roundRobinProposer, calcSeed, GetByAddress
  <2>3. CASE nextRound
    <3> DEFINE p == CalcProposer(policy, valSet, lastProposer, Len(turns))
    <3>1. /\ turns' = Append(turns, p) /\ policy' = policy /\ valSet' = valSet /\ lastProposer' = lastProposer
      BY <2>3 DEF nextRound
    <3>2. p \in Validators
      BY <2>1, ProposerIsValidator DEF RInv
    <3>3. /\ turns' \in Seq(Validators) /\ Len(turns') = Len(turns) + 1
          /\ turns'[Len(turns) + 1] = p
          /\ \A i \in 1 .. Len(turns) : turns'[i] = turns[i]
      BY <2>1, <3>1, <3>2 DEF RInv
    <3>4. \A i \in 1 .. Len(turns') : turns'[i] = CalcProposer(policy, valSet, lastProposer, i - 1)
      <4>1. SUFFICES ASSUME NEW i \in 1 .. Len(turns')
                     PROVE  turns'[i] = CalcProposer(policy, valSet, lastProposer, i - 1)
        OBVIOUS
      <4>2. CASE i \in 1 .. Len(turns)
        BY <2>1, <3>3, <4>2 DEF RInv
      <4>3. CASE i = Len(turns) + 1
        <5>1. i - 1 = Len(turns)
          BY <2>1, <4>3 DEF RInv
        <5>. QED BY <3>3, <4>3, <5>1
      <4>4. Len(turns) \in Nat
        BY <2>1 DEF RInv
      <4>. QED BY <3>3, <4>2, <4>3, <4>4
    <3>5. valSet' \in ValSets
      BY <2>1, <3>1 DEF RInv
    <3>6. \A i \in 1 .. Len(turns') : turns'[i] = CalcProposer(policy', valSet', lastProposer', i - 1)
      BY <3>1, <3>4
    <3>7. policy' \in {"RoundRobin", "Sticky"} /\ turns' # << >>
      BY <2>1, <3>1, <3>3 DEF RInv
    <3>. QED BY <3>3, <3>5, <3>6, <3>7, Zenon DEF RInv, CalcProposer, stickyProposer,
       roundRobinProposer, calcSeed, GetByAddress
  <2>4. CASE UNCHANGED rotationVars
    BY <2>1, <2>4, Zenon DEF rotationVars, RInv, CalcProposer, stickyProposer,
       roundRobinProposer, calcSeed, GetByAddress
  <2>. QED BY <2>1, <2>2, <2>3, <2>4 DEF RotationNext, commitBlock, emptyBlock
<1>. QED BY <1>1, <1>2, PTL DEF RotationSpec

\* In every height, as many consecutive rounds as there are validators have
\* different proposers (CalcProposer under both policies), for every validator
\* set and every last proposer.
THEOREM TurnsDiffer == RotationSpec => []EveryoneGetsATurn
<1>1. RInv => EveryoneGetsATurn
  <2>1. SUFFICES ASSUME RInv, NEW i \in DOMAIN turns, NEW j \in DOMAIN turns,
                        i < j, j < i + Len(valSet), turns[i] = turns[j]
                 PROVE  FALSE
    BY DEF EveryoneGetsATurn
  <2>2. /\ i \in 1 .. Len(turns) /\ j \in 1 .. Len(turns) /\ Len(turns) \in Nat
        /\ Len(valSet) \in Nat \ {0}
    BY <2>1, ValSetType DEF RInv
  <2>3. PICK s \in Nat : \A r \in Nat :
           CalcProposer(policy, valSet, lastProposer, r) = valSet[((s + r) % Len(valSet)) + 1]
    <3>1. valSet \in ValSets
      BY <2>1 DEF RInv
    <3> QED BY <3>1, ProposerBySeed
  <2> DEFINE x == s + (i - 1)
             y == s + (j - 1)
  <2>4. i - 1 \in Nat /\ j - 1 \in Nat /\ x \in Nat /\ y \in Nat /\ x < y /\ y < x + Len(valSet)
    BY <2>1, <2>2
  <2>5. turns[i] = valSet[(x % Len(valSet)) + 1] /\ turns[j] = valSet[(y % Len(valSet)) + 1]
    BY <2>1, <2>2, <2>3, <2>4, Zenon DEF RInv
  <2>6. x % Len(valSet) # y % Len(valSet)
    BY <2>2, <2>4, RemaindersDiffer, Zenon
  <2>7. /\ (x % Len(valSet)) + 1 \in 1 .. Len(valSet) /\ (y % Len(valSet)) + 1 \in 1 .. Len(valSet)
        /\ x % Len(valSet) \in Int /\ y % Len(valSet) \in Int
    <3>1. x % Len(valSet) \in 0 .. Len(valSet) - 1
      BY <2>2, <2>4, RemainderRange, Zenon
    <3>2. y % Len(valSet) \in 0 .. Len(valSet) - 1
      BY <2>2, <2>4, RemainderRange, Zenon
    <3>. HIDE DEF x, y
    <3>. QED BY <2>2, <3>1, <3>2
  <2>8. (x % Len(valSet)) + 1 = (y % Len(valSet)) + 1
    BY <2>1, <2>5, <2>7, ValSetType, Zenon DEF RInv
  <2>. QED BY <2>6, <2>7, <2>8
<1>. QED BY <1>1, TurnsKnown, PTL

\* The place of a member is the one where it stands.
LEMMA PlaceOf ==
  ASSUME NEW vs \in ValSets, NEW i \in DOMAIN vs
  PROVE  GetByAddress(vs, vs[i]) = i - 1
<1>1. /\ i \in 1 .. Len(vs) /\ Len(vs) \in Nat
      /\ \A k, j \in 1 .. Len(vs) : vs[k] = vs[j] => k = j
  BY ValSetType
<1>2. i - 1 \in 0 .. Len(vs) - 1 /\ vs[(i - 1) + 1] = vs[i]
  BY <1>1
<1>3. \A k \in 0 .. Len(vs) - 1 : vs[k + 1] = vs[i] => k = i - 1
  BY <1>1
<1>. QED BY <1>2, <1>3 DEF GetByAddress

\* The author of a block that stays a validator opens the next height under
\* Sticky and never under round robin (calcSeed and the two selectors), in every
\* set of at least two validators.
THEOREM AuthorsMoveOn == RotationSpec => []AuthorMovesOn
<1>1. RInv => AuthorMovesOn
  <2>1. SUFFICES ASSUME RInv, NEW i \in DOMAIN valSet, valSet[i] = lastProposer, Len(valSet) > 1
                 PROVE  turns[1] = lastProposer <=> policy = "Sticky"
    BY DEF AuthorMovesOn
  <2> DEFINE N == Len(valSet)
  <2>2. /\ valSet \in ValSets /\ N \in Nat \ {0} /\ DOMAIN valSet = 1 .. N /\ i \in 1 .. N
        /\ \A k, j \in 1 .. N : valSet[k] = valSet[j] => k = j
    BY <2>1, ValSetType DEF RInv
  <2>3. lastProposer # NoAddress
    <3>1. valSet[i] \in Validators
      BY <2>2, ValSetType
    <3>. QED BY <2>1, <3>1, RotationAssumption
  <2>4. calcSeed(valSet, lastProposer, 0) = i - 1
    <3>1. GetByAddress(valSet, lastProposer) = i - 1
      BY <2>1, <2>2, PlaceOf
    <3>2. \E k \in DOMAIN valSet : valSet[k] = lastProposer
      BY <2>1
    <3>. QED BY <2>2, <3>1, <3>2 DEF calcSeed
  <2>5. turns[1] = CalcProposer(policy, valSet, lastProposer, 0)
    <3>1. 1 \in 1 .. Len(turns) /\ 1 - 1 = 0
      BY <2>1 DEF RInv
    <3>. QED BY <2>1, <3>1 DEF RInv
  <2>6. CASE policy = "Sticky"
    <3>1. turns[1] = valSet[((i - 1) % N) + 1]
      BY <2>3, <2>4, <2>5, <2>6 DEF CalcProposer, stickyProposer
    <3>2. (i - 1) % N = i - 1
      BY <2>2, SMT
    <3>. QED BY <2>1, <2>2, <2>6, <3>1, <3>2
  <2>7. CASE policy # "Sticky"
    <3>1. turns[1] = valSet[((i - 1 + 1) % N) + 1]
      BY <2>3, <2>4, <2>5, <2>7 DEF CalcProposer, roundRobinProposer
    <3>2. i - 1 + 1 = i
      BY <2>2
    <3>3. (i % N) + 1 \in 1 .. N /\ (i % N) + 1 # i
      <4>1. CASE i < N
        <5>1. i % N = i
          BY <2>2, <4>1, SMT
        <5>. QED BY <2>2, <4>1, <5>1
      <4>2. CASE i = N
        <5>1. N % N = 0
          BY <2>2, SMT
        <5>2. i % N = 0 /\ N > 1
          BY <2>1, <4>2, <5>1
        <5>. HIDE DEF N
        <5>. QED BY <2>2, <4>2, <5>2
      <4>. QED BY <2>2, <4>1, <4>2
    <3>. QED BY <2>1, <2>2, <2>7, <3>1, <3>2, <3>3
  <2>. QED BY <2>6, <2>7
<1>. QED BY <1>1, TurnsKnown, PTL

-----------------------------------------------------------------------------
(* The backlog.                                                             *)

\* The fields of messages and of the core are natural numbers.
LEMMA SequencesAreNat == Sequences \subseteq Nat /\ \A s \in Sequences : s <= LastSequence
BY BoundsAssumption DEF Sequences

LEMMA MessageFields ==
  ASSUME NEW m \in Messages
  PROVE  /\ m.type \in Types /\ m.seq \in Sequences /\ m.round \in Rounds
         /\ m.seq \in Nat /\ m.round \in Nat
<1>1. m \in [type : Types, seq : Sequences, round : Rounds]
  BY MessagesAssumption
<1>2. m.type \in Types /\ m.seq \in Sequences /\ m.round \in Rounds
  BY <1>1
<1>. QED BY <1>2, SequencesAreNat, BoundsAssumption, Zenon

LEMMA CoreFields ==
  ASSUME NEW c \in Core
  PROVE  c.sequence \in Nat /\ c.round \in Nat
<1>1. c.sequence \in Sequences /\ c.round \in Rounds
  BY DEF Core
<1>. QED BY <1>1, SequencesAreNat, BoundsAssumption, Zenon

\* Names for the numbers that the provers must not expand.
HalfMantissa == 8388608
LargestPower == 1073741824

\* Two different powers of two are a factor of two apart.
LEMMA PowersApart == \A a, b \in Powers : a < b => 2 * a <= b
BY SMT DEF Powers

LEMMA PowersPositive == \A g \in Powers : g \in Nat /\ g > 0
BY SMT DEF Powers

LEMMA UlpOf ==
  ASSUME NEW x \in Nat, x \div Mantissa < LargestPower
  PROVE  /\ ulp(x) \in Powers
         /\ x < Mantissa * ulp(x)
         /\ ulp(x) = 1 \/ 2 * x >= Mantissa * ulp(x)
<1> DEFINE h == x \div Mantissa
<1>1. h \in Nat /\ h < LargestPower /\ Mantissa * h <= x /\ x < Mantissa * (h + 1)
  BY SMT DEF Mantissa
<1> HIDE DEF h
<1>2. \E g \in Powers : h < g /\ (g = 1 \/ 2 * h >= g)
  BY <1>1, SMTT(30) DEF Powers, LargestPower
<1>3. ulp(x) \in Powers /\ h < ulp(x) /\ (ulp(x) = 1 \/ 2 * h >= ulp(x))
  BY <1>2, Zenon DEF ulp, h
<1>4. ulp(x) \in Nat
  BY <1>3, PowersPositive
<1>. QED BY <1>1, <1>3, <1>4, SMT DEF Mantissa

LEMMA Divided ==
  ASSUME NEW x \in Nat, NEW g \in Nat, g > 0
  PROVE  x \div g \in Nat /\ x % g \in 0 .. g - 1 /\ x = g * (x \div g) + (x % g)
BY SMT

LEMMA TimesMonotone ==
  ASSUME NEW g \in Nat, NEW a \in Nat, NEW b \in Nat, a <= b
  PROVE  g * a <= g * b
BY SMT

LEMMA QuotientBelow ==
  ASSUME NEW g \in Nat, NEW a \in Nat, NEW b \in Nat, NEW r \in Nat, r < g, g * a <= g * b + r
  PROVE  a <= b
<1>1. SUFFICES ASSUME b + 1 <= a PROVE FALSE
  BY SMT
<1>2. g * (b + 1) <= g * a
  BY <1>1, TimesMonotone
<1>. QED BY <1>2, SMT

\* The conversion to float32 keeps the order.
LEMMA Float32Monotone ==
  ASSUME NEW x \in Nat, NEW y \in Nat, x <= y, y \div Mantissa < LargestPower
  PROVE  float32(x) \in Nat /\ float32(x) <= float32(y)
<1> DEFINE G == ulp(x)   H == ulp(y)
           p == x \div G  s == x % G  q == y \div H  t == y % H
           up == 2 * s > G \/ (2 * s = G /\ p % 2 = 1)
           uq == 2 * t > H \/ (2 * t = H /\ q % 2 = 1)
           a == IF up THEN p + 1 ELSE p
           b == IF uq THEN q + 1 ELSE q
<1>1. x \div Mantissa < LargestPower
  BY SMT DEF Mantissa, LargestPower
<1>2. /\ G \in Powers /\ x < Mantissa * G /\ (G = 1 \/ 2 * x >= Mantissa * G)
      /\ H \in Powers /\ y < Mantissa * H /\ (H = 1 \/ 2 * y >= Mantissa * H)
  BY <1>1, UlpOf
<1>3. G \in Nat /\ G > 0 /\ H \in Nat /\ H > 0
  BY <1>2, PowersPositive
<1>4. float32(x) = G * a /\ float32(y) = H * b
  BY DEF float32
<1> HIDE DEF G, H
<1>5. /\ p \in Nat /\ s \in 0 .. G - 1 /\ x = G * p + s
      /\ q \in Nat /\ t \in 0 .. H - 1 /\ y = H * q + t
  BY <1>3, Divided
<1> HIDE DEF p, q, s, t
<1>6. a \in Nat /\ b \in Nat /\ p <= a /\ a <= p + 1 /\ q <= b
  BY <1>5
<1>7. CASE G = H
  <2>1. p <= q
    BY <1>3, <1>5, <1>7, QuotientBelow
  <2>2. a <= b
    <3>1. CASE p = q
      <4>1. s <= t
        BY <3>1, <1>5, <1>7, <1>3, SMT
      <4>. QED BY <3>1, <4>1, <1>5, <1>7, <1>3, SMT
    <3>2. CASE p < q
      BY <3>2, <1>5, <1>6, SMT
    <3>. QED BY <2>1, <3>1, <3>2, <1>5, SMT
  <2>3. G * a <= G * b /\ G * a \in Nat
    BY <2>2, <1>3, <1>6, TimesMonotone
  <2>. QED BY <2>3, <1>4, <1>7
<1>8. CASE G < H
  <2>1. 2 * G <= H
    BY <1>8, <1>2, PowersApart
  <2>2. p <= Mantissa - 1
    <3>1. SUFFICES ASSUME Mantissa <= p PROVE FALSE
      BY <1>5, SMT DEF Mantissa
    <3>2. G * Mantissa <= G * p
      BY <3>1, <1>3, <1>5, TimesMonotone, SMT DEF Mantissa
    <3>. QED BY <3>2, <1>2, <1>3, <1>5, SMT DEF Mantissa
  <2>3. G * a <= G * Mantissa
    BY <2>2, <1>3, <1>5, <1>6, TimesMonotone, SMT DEF Mantissa
  <2>4. HalfMantissa <= q
    <3>1. 2 * y >= Mantissa * H
      BY <2>1, <1>2, <1>3, SMT
    <3>2. H * HalfMantissa <= H * q + t
      BY <3>1, <1>3, <1>5, SMT DEF Mantissa, HalfMantissa
    <3>. QED BY <3>2, <1>3, <1>5, QuotientBelow, SMT DEF HalfMantissa
  <2>5. H * HalfMantissa <= H * b
    BY <2>4, <1>3, <1>5, <1>6, TimesMonotone, SMT DEF HalfMantissa
  <2>6. G * a \in Nat /\ H * b \in Nat
    BY <1>3, <1>6, SMT
  <2>. QED BY <2>1, <2>3, <2>5, <2>6, <1>3, <1>4, SMT DEF Mantissa, HalfMantissa
<1>9. CASE H < G
  <2>1. 2 * H <= G
    BY <1>9, <1>2, PowersApart
  <2>2. 2 * x >= Mantissa * G
    BY <2>1, <1>2, <1>3, SMT
  <2>. QED BY <2>1, <2>2, <1>2, <1>3, SMT DEF Mantissa
<1>. QED BY <1>3, <1>7, <1>8, <1>9, SMT

\* Below 2^24 float32 does not round.
LEMMA Float32Exact == ASSUME NEW x \in Nat, x < Mantissa PROVE float32(x) = x
<1>1. x \div Mantissa < LargestPower
  BY SMT DEF Mantissa, LargestPower
<1>2. ulp(x) \in Powers /\ (ulp(x) = 1 \/ 2 * x >= Mantissa * ulp(x))
  BY <1>1, UlpOf
<1>3. ulp(x) = 1
  <2>1. ulp(x) \in Nat /\ ulp(x) > 0
    BY <1>2, PowersPositive
  <2>2. ulp(x) < 2
    BY <1>2, <2>1, SMT DEF Mantissa
  <2>. QED BY <2>1, <2>2, SMT
<1>4. x \div 1 = x /\ x % 1 = 0
  BY SMT
<1>. QED BY <1>3, <1>4, SMT DEF float32

\* The sum that toPriority converts is a natural number.
LEMMA WeightIsNat == ASSUME NEW m \in Messages PROVE weight(m) \in Nat
<1>1. m.type \in Types /\ m.seq \in Nat /\ m.round \in Nat
  BY MessageFields
<1>2. m.type # "RoundChange" => msgPriority(m.type) \in 1 .. 3
  BY <1>1 DEF Types, msgPriority
<1>. QED BY <1>1, <1>2, SMT DEF weight

\* The messages whose round leaves the thousands of toPriority to the height.
Fits(m) == m.type = "RoundChange" \/ m.round <= 99

\* In every view and state of the core, a message that can be handled weighs
\* less than one that is future (toPriority against checkMessage).
LEMMA CurrentBeforeFuture ==
  ASSUME NEW c \in Core, NEW m \in Messages, NEW f \in Messages,
         isCurrent(m, c), Fits(m), isFuture(f, c)
  PROVE  weight(m) < weight(f)
<1>1. /\ c.sequence \in Nat /\ c.round \in Nat
      /\ m.type \in Types /\ m.seq \in Nat /\ m.round \in Nat
      /\ m.type # "RoundChange" => m.round <= 99
      /\ f.type \in Types /\ f.seq \in Nat /\ f.round \in Nat
  BY MessageFields, CoreFields DEF Fits
<1>2. m.type # "RoundChange" => msgPriority(m.type) \in 1 .. 3
  BY <1>1 DEF Types, msgPriority
<1>3. f.type # "RoundChange" => msgPriority(f.type) \in 1 .. 3
  BY <1>1 DEF Types, msgPriority
<1>4. m.seq = c.sequence
  BY <1>1 DEF isCurrent, isFuture, isOld, earlierView, laterView
<1>5. m.type # "RoundChange" => m.round = c.round
  BY <1>1, <1>4 DEF isCurrent, isFuture, isOld, earlierView, laterView
<1>6. CASE f.seq > c.sequence
  BY <1>6, <1>1, <1>2, <1>3, <1>4, SMT DEF weight
<1>7. CASE f.seq <= c.sequence
  <2>1. f.type # "RoundChange" /\ f.seq = c.sequence /\ f.round >= c.round
    BY <1>7, <1>1 DEF isFuture, laterView, earlierView
  <2>2. CASE m.type = "RoundChange"
    BY <2>1, <2>2, <1>1, <1>3, <1>4, SMT DEF weight
  <2>3. CASE m.type # "RoundChange" /\ f.round > c.round
    BY <2>1, <2>3, <1>1, <1>2, <1>3, <1>4, <1>5, SMT DEF weight
  <2>4. CASE m.type # "RoundChange" /\ f.round = c.round
    <3>1. ~ c.waitingForRoundChange
      BY <2>4, <1>1, <1>4, <1>5 DEF isCurrent, isFuture, isOld, laterView
    <3>2. c.state = "AcceptRequest" /\ f.type # "Preprepare"
      BY <2>1, <2>4, <3>1, <1>1, SMTT(30) DEF isFuture, laterView, earlierView
    <3>3. m.type = "Preprepare"
      BY <2>4, <3>2, Zenon DEF isCurrent, isFuture, isOld
    <3>4. msgPriority(m.type) = 1 /\ msgPriority(f.type) \in {2, 3}
      BY <1>1, <2>1, <3>2, <3>3 DEF Types, msgPriority
    <3>. QED BY <2>1, <2>4, <3>4, <1>1, <1>4, <1>5, SMT DEF weight
  <2>. QED BY <2>1, <2>2, <2>3, <2>4, <1>1
<1>. QED BY <1>6, <1>7, <1>1

\* The order of the queue does not contradict that of the weights.
LEMMA PriorityOrder ==
  ASSUME NEW m \in Messages, NEW f \in Messages, weight(m) <= weight(f),
         weight(f) \div Mantissa < LargestPower
  PROVE  toPriority(m) \in Int /\ toPriority(f) \in Int /\ toPriority(m) >= toPriority(f)
<1>1. weight(m) \in Nat /\ weight(f) \in Nat
  BY WeightIsNat
<1>2. float32(weight(m)) \in Nat /\ float32(weight(m)) <= float32(weight(f))
  BY <1>1, Float32Monotone, Zenon
<1>3. float32(weight(f)) \in Nat
  BY <1>1, Float32Monotone, SMT
<1>. QED BY <1>2, <1>3, SMT DEF toPriority

-----------------------------------------------------------------------------
\* The view of the core never goes back in a step of the core.
NotBefore(d, c) ==
  d.sequence > c.sequence \/ (d.sequence = c.sequence /\ d.round >= c.round)

LEMMA OldStaysOld ==
  ASSUME NEW c \in Core, NEW d \in Core, NotBefore(d, c),
         NEW m \in Messages, isOld(m, c)
  PROVE  isOld(m, d)
BY MessageFields, CoreFields DEF NotBefore, isOld, earlierView

\* The heights and rounds whose float32 the model computes.
InRange == \A m \in Messages : weight(m) \div Mantissa < LargestPower

\* f, which cannot be handled, keeps m in the queue.
KeepsBack(f, m, c) ==
  ~ isCurrent(f, c) /\ weight(m) < weight(f) /\ toPriority(m) = toPriority(f)

IInv == TypeOK /\ NothingLost /\ (InRange => NoCurrentWaits)

\* What setState leaves behind, wherever it is called (post, owe: the message
\* that is being handled is in neither).
LEMMA SetStateKeeps ==
  ASSUME IInv, NEW c \in Core, NotBefore(c, core), NEW member \in BOOLEAN,
         NEW post, NEW owe, post \subseteq posted, owe \subseteq owed,
         \A m \in owe : m \in backlog \/ m \in post \/ isOld(m, core),
         setState(c, member, post, owe)
  PROVE  IInv'
<1>1. core' = c /\ validator' = member /\ core \in Core
  BY DEF setState, IInv, TypeOK
<1>2. backlog \subseteq Messages /\ post \subseteq Messages /\ owe \subseteq Messages
  BY DEF IInv, TypeOK
<1>3. CASE member
  <2>1. PICK p \in popped(backlog, c) :
           /\ backlog' = backlog \ p
           /\ posted' = post \cup {m \in p : isCurrent(m, c)}
           /\ owed' = owe
    BY <1>3 DEF setState
  <2>2. p \subseteq backlog /\ \A m \in p : ~ isFuture(m, c)
    BY <2>1 DEF popped
  <2>3. TypeOK'
    BY <1>1, <1>2, <2>1, <2>2 DEF TypeOK
  <2>4. NothingLost'
    <3>1. SUFFICES ASSUME NEW m \in owe
                   PROVE  m \in backlog \ p \/ m \in post \cup {k \in p : isCurrent(k, c)} \/ isOld(m, c)
      BY <1>1, <2>1 DEF NothingLost, isOld, earlierView
    <3>2. CASE m \in p
      BY <3>2, <2>2 DEF isCurrent
    <3>3. CASE m \notin p
      BY <3>1, <3>3, <1>1, <1>2, OldStaysOld
    <3>. QED BY <3>2, <3>3
  <2>5. ASSUME InRange PROVE NoCurrentWaits'
    <3>1. SUFFICES ASSUME NEW m \in backlog \ p, isCurrent(m, c), Fits(m)
                   PROVE  \E f \in backlog \ p : KeepsBack(f, m, c)
      BY <1>1, <2>1 DEF NoCurrentWaits, Fits, KeepsBack, isCurrent, isFuture, isOld,
                        laterView, earlierView
    <3>2. PICK f \in backlog : isFuture(f, c) /\ (toPriority(m) > toPriority(f) => m \in p)
      BY <2>1 DEF popped
    <3>3. weight(m) < weight(f)
      BY <3>1, <3>2, <1>2, CurrentBeforeFuture
    <3>4. /\ toPriority(m) \in Int /\ toPriority(f) \in Int
          /\ toPriority(m) >= toPriority(f)
      <4>1. weight(m) <= weight(f)
        BY <3>3, <1>2, WeightIsNat
      <4>. QED BY <4>1, <1>2, <2>5, PriorityOrder DEF InRange
    <3>5. toPriority(m) = toPriority(f)
      BY <3>1, <3>2, <3>4
    <3>6. f \in backlog \ p /\ ~ isCurrent(f, c)
      BY <3>2, <2>2 DEF isCurrent
    <3>. QED BY <3>3, <3>5, <3>6 DEF KeepsBack
  <2>. QED BY <2>3, <2>4, <2>5 DEF IInv
<1>4. CASE ~ member
  <2>1. backlog' = {} /\ posted' = post /\ owed' = owe \ backlog
    BY <1>4 DEF setState
  <2>2. TypeOK'
    BY <1>1, <1>2, <2>1 DEF TypeOK
  <2>3. NothingLost'
    <3>1. SUFFICES ASSUME NEW m \in owe \ backlog PROVE m \in post \/ isOld(m, c)
      BY <1>1, <2>1 DEF NothingLost, isOld, earlierView
    <3>. QED BY <3>1, <1>1, <1>2, OldStaysOld
  <2>4. NoCurrentWaits'
    BY <2>1 DEF NoCurrentWaits
  <2>. QED BY <2>2, <2>3, <2>4 DEF IInv
<1>. QED BY <1>3, <1>4

LEMMA CoreStepKeeps ==
  ASSUME IInv, NEW post, NEW owe, post \subseteq posted, owe \subseteq owed,
         \A m \in owe : m \in backlog \/ m \in post \/ isOld(m, core),
         coreStep(post, owe)
  PROVE  IInv'
<1>1. /\ core \in Core /\ validator \in BOOLEAN /\ core.sequence \in Nat /\ core.round \in Nat
      /\ backlog \subseteq Messages /\ post \subseteq Messages /\ owe \subseteq Messages
  BY CoreFields, SMTT(30) DEF IInv, TypeOK
<1>2. CASE startNewRound(post, owe)
  <2>1. ASSUME NEW s \in Sequences, NEW member \in BOOLEAN, s > core.sequence,
               setState([sequence |-> s, round |-> 0, waitingForRoundChange |-> FALSE,
                         state |-> "AcceptRequest"], member, post, owe)
        PROVE  IInv'
    <3> DEFINE c == [sequence |-> s, round |-> 0, waitingForRoundChange |-> FALSE,
                     state |-> "AcceptRequest"]
    <3>1. c \in Core
      BY BoundsAssumption DEF Core, States
    <3>2. NotBefore(c, core)
      BY <2>1 DEF NotBefore
    <3>. QED BY <3>1, <3>2, <2>1, SetStateKeeps
  <2>2. ASSUME NEW r \in Rounds,
               r > core.round \/ (r = core.round /\ r # 0 /\ core.waitingForRoundChange),
               setState([core EXCEPT !.round = r, !.waitingForRoundChange = FALSE,
                                     !.state = "AcceptRequest"], validator, post, owe)
        PROVE  IInv'
    <3> DEFINE c == [core EXCEPT !.round = r, !.waitingForRoundChange = FALSE,
                                 !.state = "AcceptRequest"]
    <3>1. c \in Core
      BY <1>1, Zenon DEF Core, States
    <3>2. NotBefore(c, core)
      BY <1>1, <2>2, BoundsAssumption DEF NotBefore, Core
    <3>. QED BY <3>1, <3>2, <2>2, <1>1, SetStateKeeps
  <2>. QED BY <1>2, <2>1, <2>2, Zenon DEF startNewRound
<1>3. CASE catchUpRound(post, owe)
  <2>1. PICK r \in Rounds :
           r > core.round /\ core' = [core EXCEPT !.round = r, !.waitingForRoundChange = TRUE]
    BY <1>3, Zenon DEF catchUpRound
  <2>2. posted' = post /\ owed' = owe /\ validator' = validator /\ backlog' = backlog
    BY <1>3 DEF catchUpRound
  <2>3. /\ core' \in Core /\ core'.sequence = core.sequence /\ core'.round = r
        /\ core'.waitingForRoundChange = TRUE /\ core'.state = core.state
    BY <1>1, <2>1, Zenon DEF Core
  <2>4. NotBefore(core', core)
    BY <1>1, <2>1, <2>3, BoundsAssumption DEF NotBefore
  <2>5. TypeOK'
    BY <1>1, <2>2, <2>3 DEF TypeOK
  <2>6. NothingLost'
    <3>1. SUFFICES ASSUME NEW m \in owe
                   PROVE  m \in backlog \/ m \in post \/ isOld(m, core')
      BY <2>2 DEF NothingLost, isOld, earlierView
    <3>. QED BY <3>1, <1>1, <2>3, <2>4, OldStaysOld
  <2>7. ASSUME InRange PROVE NoCurrentWaits'
    <3>1. SUFFICES ASSUME NEW m \in backlog, isCurrent(m, core')
                   PROVE  \E f \in backlog : KeepsBack(f, m, core')
      BY <2>2 DEF NoCurrentWaits, KeepsBack, isCurrent, isFuture, isOld, laterView,
                  earlierView
    <3>2. m.seq \in Nat /\ m.round \in Nat
      BY <1>1, MessageFields
    <3>3. m.type = "RoundChange" /\ m.seq = core.sequence /\ m.round >= r
      BY <1>1, <2>1, <2>3, <3>1, <3>2, BoundsAssumption
         DEF isCurrent, isFuture, isOld, laterView, earlierView
    <3>4. isCurrent(m, core)
      BY <1>1, <2>1, <3>2, <3>3, BoundsAssumption, SMTT(30) DEF isCurrent, isFuture, isOld,
         earlierView
    <3>5. PICK f \in backlog : KeepsBack(f, m, core)
      BY <3>3, <3>4, <2>7, Zenon DEF IInv, NoCurrentWaits, KeepsBack
    <3>6. ~ isCurrent(f, core')
      <4>1. f.seq \in Nat /\ f.round \in Nat /\ ~ isCurrent(f, core)
        BY <1>1, <3>5, MessageFields DEF KeepsBack
      <4>. QED BY <4>1, <1>1, <2>1, <2>3, BoundsAssumption
                  DEF isCurrent, isFuture, isOld, laterView, earlierView
    <3>. QED BY <3>5, <3>6 DEF KeepsBack
  <2>. QED BY <2>5, <2>6, <2>7 DEF IInv
<1>4. CASE changeState(post, owe)
  <2>1. PICK s \in nextStates(core.state) :
           setState([core EXCEPT !.state = s], validator, post, owe)
    BY <1>4 DEF changeState
  <2>2. s \in States
    BY <1>1, <2>1 DEF nextStates, States, Core
  <2>3. [core EXCEPT !.state = s] \in Core
    BY <1>1, <2>2 DEF Core
  <2>4. NotBefore([core EXCEPT !.state = s], core)
    BY <1>1, <2>3 DEF NotBefore, Core
  <2>. QED BY <1>1, <2>1, <2>3, <2>4, SetStateKeeps
<1>. QED BY <1>2, <1>3, <1>4 DEF coreStep

LEMMA HandleCheckedMsgKeeps ==
  ASSUME IInv, NEW m \in Messages, NEW post, post \subseteq posted,
         posted \subseteq post \cup {m}, handleCheckedMsg(m, post)
  PROVE  IInv'
<1>1. \A k \in owed : k \in backlog \/ k \in posted \/ isOld(k, core)
  BY DEF IInv, NothingLost
<1>2. CASE /\ isFuture(m, core) /\ backlog' = backlog \cup {m} /\ posted' = post
           /\ owed' = owed \cup {m} /\ UNCHANGED <<core, validator>>
  <2>1. TypeOK'
    BY <1>2 DEF IInv, TypeOK
  <2>2. NothingLost'
    BY <1>1, <1>2, SMTT(30) DEF NothingLost, isOld, earlierView
  <2>3. InRange => NoCurrentWaits'
    BY <1>2, ZenonT(30) DEF IInv, NoCurrentWaits, isCurrent, isFuture, isOld, laterView, earlierView
  <2>. QED BY <2>1, <2>2, <2>3 DEF IInv
<1>3. CASE /\ isOld(m, core) /\ posted' = post
           /\ UNCHANGED <<core, validator, backlog, owed>>
  <2>1. TypeOK'
    BY <1>3 DEF IInv, TypeOK
  <2>2. NothingLost'
    BY <1>1, <1>3 DEF NothingLost, isOld, earlierView
  <2>3. InRange => NoCurrentWaits'
    BY <1>3 DEF IInv, NoCurrentWaits, isCurrent, isFuture, isOld, laterView, earlierView
  <2>. QED BY <2>1, <2>2, <2>3 DEF IInv
<1>4. CASE /\ posted' = post /\ owed' = owed \ {m}
           /\ UNCHANGED <<core, validator, backlog>>
  <2>1. TypeOK'
    BY <1>4 DEF IInv, TypeOK
  <2>2. NothingLost'
    BY <1>1, <1>4, SMTT(30) DEF NothingLost, isOld, earlierView
  <2>3. InRange => NoCurrentWaits'
    BY <1>4 DEF IInv, NoCurrentWaits, isCurrent, isFuture, isOld, laterView, earlierView
  <2>. QED BY <2>1, <2>2, <2>3 DEF IInv
<1>5. CASE coreStep(post, owed \ {m})
  <2>1. \A k \in owed \ {m} : k \in backlog \/ k \in post \/ isOld(k, core)
    BY <1>1
  <2>. QED BY <1>5, <2>1, CoreStepKeeps
<1>. QED BY <1>2, <1>3, <1>4, <1>5 DEF handleCheckedMsg, storeBacklog

LEMMA BacklogHolds == Spec => []IInv
<1>1. Init => IInv
  BY BoundsAssumption
     DEF Init, IInv, TypeOK, NothingLost, NoCurrentWaits, Core, Sequences, States
<1>2. IInv /\ [Next]_vars => IInv'
  <2>1. SUFFICES ASSUME IInv, [Next]_vars PROVE IInv'
    OBVIOUS
  <2>2. CASE UNCHANGED vars
    BY <2>1, <2>2 DEF vars, IInv, TypeOK, NothingLost, NoCurrentWaits, isCurrent, isFuture,
                      isOld, laterView, earlierView
  <2>3. ASSUME NEW m \in Messages, handleMsg(m) PROVE IInv'
    BY <2>1, <2>3, HandleCheckedMsgKeeps DEF handleMsg
  <2>4. ASSUME NEW m \in posted, handleBacklogEvent(m) PROVE IInv'
    <3>1. m \in Messages
      BY <2>1 DEF IInv, TypeOK
    <3>. QED BY <2>1, <2>4, <3>1, HandleCheckedMsgKeeps DEF handleBacklogEvent
  <2>5. CASE otherEvent
    BY <2>1, <2>5, CoreStepKeeps DEF otherEvent, IInv, NothingLost
  <2>. QED BY <2>1, <2>2, <2>3, <2>4, <2>5 DEF Next
<1>. QED BY <1>1, <1>2, PTL DEF Spec

\* A stored message is in the queue, on its way to the event loop or old until
\* it is handled (storeBacklog, processBacklog).
THEOREM BacklogLosesNothing == Spec => []NothingLost
<1>1. IInv => NothingLost
  BY DEF IInv
<1>. QED BY <1>1, BacklogHolds, PTL

\* At every height below 2^54 / 1000, a message of a round up to 99 that could be
\* handled stays in the queue of storeBacklog only behind one that float32
\* (toPriority) failed to put after it.
THEOREM CurrentGoesFirst ==
  ASSUME InRange
  PROVE  Spec => []NoCurrentWaits
<1>1. IInv => NoCurrentWaits
  BY DEF IInv
<1>. QED BY <1>1, BacklogHolds, PTL

\* The heights and rounds whose priorities float32 represents exactly and that
\* toPriority keeps apart.
ExactPriorities == LastSequence <= 16776 /\ \A r \in Rounds : r <= 99

\* Up to height 16776 float32 rounds nothing and no message that could be handled
\* waits in the queue.
THEOREM NoneWaitsWhileExact ==
  ASSUME ExactPriorities
  PROVE  Spec => [](\A m \in backlog : ~ isCurrent(m, core))
<1>1. \A m \in Messages : weight(m) \in Nat /\ weight(m) < Mantissa
  <2>1. SUFFICES ASSUME NEW m \in Messages PROVE weight(m) \in Nat /\ weight(m) < Mantissa
    OBVIOUS
  <2>2. /\ m.type \in Types /\ m.seq \in Nat /\ m.seq <= 16776
        /\ m.round \in Nat /\ m.round <= 99
    BY MessageFields, SequencesAreNat, BoundsAssumption, SMT DEF ExactPriorities
  <2>3. m.type # "RoundChange" => msgPriority(m.type) \in 1 .. 3
    BY <2>2 DEF Types, msgPriority
  <2>. QED BY <2>2, <2>3, WeightIsNat, SMT DEF weight, Mantissa
<1>2. InRange
  BY <1>1, SMT DEF InRange, Mantissa, LargestPower
<1>3. IInv => \A m \in backlog : ~ isCurrent(m, core)
  <2>1. SUFFICES ASSUME IInv, NEW m \in backlog, isCurrent(m, core) PROVE FALSE
    OBVIOUS
  <2>2. backlog \subseteq Messages /\ m.round <= 99
    BY <2>1, MessageFields DEF IInv, TypeOK, ExactPriorities
  <2>3. PICK f \in backlog : KeepsBack(f, m, core)
    BY <2>1, <2>2, <1>2 DEF IInv, NoCurrentWaits, KeepsBack
  <2>4. float32(weight(m)) = weight(m) /\ float32(weight(f)) = weight(f)
    BY <2>2, <1>1, Float32Exact
  <2>5. weight(m) \in Nat /\ weight(f) \in Nat
    BY <2>2, <1>1
  <2>. QED BY <2>3, <2>4, <2>5, SMT DEF KeepsBack, toPriority
<1>. QED BY <1>3, BacklogHolds, PTL
=============================================================================
