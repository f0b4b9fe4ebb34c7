--------------------------- MODULE QbftStepProofs ---------------------------
(***************************************************************************)
(* What the steps of QbftCore do: the types they keep, for any number of    *)
(* sequences, and within one sequence the few kinds of step that the        *)
(* handlers come to (module QbftProofs argues about these kinds only).      *)
(***************************************************************************)
EXTENDS QbftCore, TLAPS

\* One sequence, whose quorums overlap.  (With a second one agreement is lost:
\* ROUND-CHANGE messages of the first count in it.)
OneSequence == MaxSequence = 1 /\ 2 * quorumSize(1) > Len(valSet)

Prepared == {None} \cup [round : Rounds, block : Proposals]

VoteMsg == [type : {"Prepare", "Commit"}, src : Started, seq : {1}, round : Rounds,
            digest : Proposals]

RoundChangeMsg == [type : {"RoundChange"}, src : Started, seq : {1}, round : Rounds,
                   prepared : Prepared, justification : Prepared]

PreprepareMsg == [type : {"Preprepare"}, src : Started, seq : {1}, round : Rounds,
                  digest : Proposals, rcs : SUBSET RoundChangeMsg, prepares : Prepared]

RoundState == [sequence : Nat \ {0}, round : Rounds, preprepare : Proposals \cup {None},
               prepared : Prepared, pendingRequest : Proposals \cup {None},
               preprepareSent : Nat]

\* Types, with what they rest on: a core whose chain is empty is in the first
\* sequence, and one that has accepted a PRE-PREPARE has its block.
Types ==
  /\ state \in [Started -> {"AcceptRequest", "Preprepared", "Prepared", "Committed",
                            "Panic"}]
  /\ current \in [Started -> RoundState]
  /\ preparedPrepares \in [Started -> Prepared]
  /\ roundChangeSet \in [Started -> SUBSET RoundChangeMsg]
  /\ highestPrepared \in [Started -> [Rounds -> Prepared]]
  /\ chain \in [Started -> Seq(Proposals)]
  /\ enqueued \in [Started -> SUBSET Proposals]
  /\ msgs \subseteq VoteMsg \cup RoundChangeMsg \cup PreprepareMsg
  /\ \A n \in Started :
       /\ chain[n] = << >> => current[n].sequence = 1
       /\ state[n] \in {"Preprepared", "Prepared", "Committed"}
            => current[n].preprepare \in Proposals
       /\ roundChangeSet[n] \subseteq msgs

-----------------------------------------------------------------------------
(* Types, for any number of sequences.                                       *)

\* What is known of a message, whatever its sequence.
IsMessage(m) ==
  /\ m.type = "RoundChange" => m.round \in Rounds /\ m.prepared \in Prepared
  /\ m.type = "Preprepare" => m.digest \in Proposals

\* One core's variables: a PRE-PREPARE it has sent is not of a later round, and
\* a core that has accepted one has its block.
CoreTyped(st, cur, prepares, rcs, tops, M) ==
  /\ cur \in RoundState /\ cur.preprepareSent <= cur.round
  /\ st \in {"Preprepared", "Prepared", "Committed"} => cur.preprepare \in Proposals
  /\ prepares \in Prepared
  /\ \A m \in rcs : m.type = "RoundChange" /\ m \in M
  /\ tops \in [Rounds -> Prepared]

Shapes ==
  /\ state \in [Started -> {"AcceptRequest", "Preprepared", "Prepared", "Committed", "Panic"}]
  /\ DOMAIN current = Started /\ DOMAIN preparedPrepares = Started
  /\ DOMAIN roundChangeSet = Started /\ DOMAIN highestPrepared = Started
  /\ enqueued \in [Started -> SUBSET Proposals]
  /\ chain \in [Started -> Seq(Proposals)]

WellTyped ==
  /\ Shapes
  /\ \A m \in msgs : IsMessage(m)
  /\ \A n \in Started : CoreTyped(state[n], current[n], preparedPrepares[n],
                                  roundChangeSet[n], highestPrepared[n], msgs)

LEMMA WellTypedTypes == ASSUME WellTyped PROVE TypeOK
<1>1. state \in [Started -> {"AcceptRequest", "Preprepared", "Prepared", "Committed", "Panic"}]
  BY DEF WellTyped, CoreTyped, Shapes
<1>2. ASSUME NEW n \in Started
      PROVE  /\ current[n].round \in Rounds /\ current[n].preprepareSent \in 0 .. current[n].round
             /\ {current[n].preprepare, current[n].pendingRequest} \subseteq Proposals \cup {None}
             /\ {preparedPrepares[n], current[n].prepared} \subseteq
                  {None} \cup [round : Rounds, block : Proposals]
             /\ \A m \in roundChangeSet[n] : m.type = "RoundChange" /\ m \in msgs
             /\ highestPrepared[n] \in [Rounds -> {None} \cup [round : Rounds, block : Proposals]]
             /\ \A b \in enqueued[n] : b \in Proposals
  <2>1. CoreTyped(state[n], current[n], preparedPrepares[n], roundChangeSet[n],
                  highestPrepared[n], msgs) /\ enqueued[n] \subseteq Proposals
    BY DEF WellTyped, Shapes
  <2>2. /\ current[n].round \in Rounds /\ current[n].preprepareSent \in Nat
        /\ current[n].preprepareSent <= current[n].round
        /\ current[n].preprepare \in Proposals \cup {None}
        /\ current[n].pendingRequest \in Proposals \cup {None}
        /\ current[n].prepared \in Prepared
    BY <2>1 DEF CoreTyped, RoundState
  <2>3. current[n].preprepareSent \in 0 .. current[n].round
    BY <2>2, BoundsAssumption DEF Rounds
  <2>. QED BY <2>1, <2>2, <2>3 DEF CoreTyped, Prepared
<1>. QED BY <1>1, <1>2 DEF TypeOK

\* A step of one core.
OthersKept(n) ==
  \A q \in Started \ {n} :
    /\ state'[q] = state[q] /\ current'[q] = current[q]
    /\ preparedPrepares'[q] = preparedPrepares[q]
    /\ roundChangeSet'[q] = roundChangeSet[q] /\ highestPrepared'[q] = highestPrepared[q]

LEMMA OneCoreTyped ==
  ASSUME WellTyped, NEW n \in Started, Shapes', OthersKept(n), msgs \subseteq msgs',
         \A m \in msgs' \ msgs : IsMessage(m),
         CoreTyped(state'[n], current'[n], preparedPrepares'[n], roundChangeSet'[n],
                   highestPrepared'[n], msgs')
  PROVE  WellTyped'
<1>1. ASSUME NEW q \in Started
      PROVE  CoreTyped(state'[q], current'[q], preparedPrepares'[q], roundChangeSet'[q],
                       highestPrepared'[q], msgs')
  <2>1. CASE q = n
    BY <2>1
  <2>2. CASE q # n
    <3>1. CoreTyped(state[q], current[q], preparedPrepares[q], roundChangeSet[q],
                    highestPrepared[q], msgs)
      BY DEF WellTyped
    <3>. QED BY <2>2, <3>1 DEF OthersKept, CoreTyped
  <2>. QED BY <2>1, <2>2
<1>2. \A m \in msgs' : IsMessage(m)
  BY DEF WellTyped
<1>. QED BY <1>1, <1>2 DEF WellTyped

LEMMA CoreIs ==
  ASSUME WellTyped, NEW n \in Started
  PROVE  /\ Shapes
         /\ CoreTyped(state[n], current[n], preparedPrepares[n], roundChangeSet[n],
                      highestPrepared[n], msgs)
         /\ current[n] \in RoundState /\ current[n].round \in Rounds /\ current[n].round \in Nat
         /\ current[n].sequence \in Nat \ {0} /\ current[n].preprepareSent \in Nat
         /\ current[n].preprepareSent <= current[n].round
         /\ Len(chain[n]) \in Nat
<1>1. Shapes /\ CoreTyped(state[n], current[n], preparedPrepares[n], roundChangeSet[n],
                          highestPrepared[n], msgs)
  BY DEF WellTyped
<1>2. current[n] \in RoundState /\ current[n].preprepareSent <= current[n].round
  BY <1>1 DEF CoreTyped
<1>3. Len(chain[n]) \in Nat
  BY <1>1 DEF Shapes
<1>. QED BY <1>1, <1>2, <1>3, BoundsAssumption DEF RoundState, Rounds

\* startNewRound keeps the types, whether it stays in the sequence or not.
LEMMA NewRoundTyped ==
  ASSUME WellTyped, NEW n \in Started, NEW r \in Rounds, NEW tops \in [Rounds -> Prepared],
         NEW rcs, \A m \in rcs : m.type = "RoundChange" /\ m \in msgs,
         newRound(n, r, rcs, tops), msgs \subseteq msgs'
  PROVE  /\ Shapes' /\ OthersKept(n) /\ current'[n].prepared \in Prepared
         /\ CoreTyped(state'[n], current'[n], preparedPrepares'[n], roundChangeSet'[n],
                      highestPrepared'[n], msgs')
<1> DEFINE old == current[n]
           new == IF Len(chain[n]) >= old.sequence
                  THEN newRoundState(Len(chain[n]) + 1, 0, None, None, None)
                  ELSE newRoundState(old.sequence, r, old.preprepare, old.prepared,
                                     old.pendingRequest)
           prs == IF r = 0 THEN None ELSE preparedPrepares[n]
           left == IF r = 0 THEN {} ELSE {m \in rcs : m.round >= r}
           high == [k \in Rounds |-> IF r = 0 \/ k < r THEN None ELSE tops[k]]
<1>1. Shapes /\ preparedPrepares[n] \in Prepared /\ old \in RoundState
  BY CoreIs DEF CoreTyped
<1>2. /\ state' = [state EXCEPT ![n] = "AcceptRequest"]
      /\ current' = [current EXCEPT ![n] = new]
      /\ preparedPrepares' = [preparedPrepares EXCEPT ![n] = prs]
      /\ roundChangeSet' = [roundChangeSet EXCEPT ![n] = left]
      /\ highestPrepared' = [highestPrepared EXCEPT ![n] = high]
      /\ UNCHANGED <<chain, enqueued>>
  BY <1>1 DEF newRound, Shapes
<1>3. 0 \in Rounds /\ None \in Prepared
  BY BoundsAssumption DEF Rounds, Prepared
<1>4. new \in RoundState /\ new.preprepareSent = 0 /\ new.round \in Nat /\ new.prepared \in Prepared
  <2>1. CASE Len(chain[n]) >= old.sequence
    <3>1. new = newRoundState(Len(chain[n]) + 1, 0, None, None, None)
      BY <2>1
    <3>2. Len(chain[n]) + 1 \in Nat \ {0}
      BY CoreIs
    <3>. QED BY <1>3, <3>1, <3>2 DEF newRoundState, RoundState
  <2>2. CASE ~(Len(chain[n]) >= old.sequence)
    <3>1. new = newRoundState(old.sequence, r, old.preprepare, old.prepared, old.pendingRequest)
      BY <2>2
    <3>2. r \in Nat
      BY BoundsAssumption DEF Rounds
    <3>. QED BY <1>1, <3>1, <3>2 DEF newRoundState, RoundState
  <2>. QED BY <2>1, <2>2
<1>5. prs \in Prepared
  BY <1>1, <1>3
<1>6. high \in [Rounds -> Prepared]
  BY <1>3
<1>7. \A m \in left : m.type = "RoundChange" /\ m \in msgs'
  OBVIOUS
<1> HIDE DEF new, prs, left, high
<1>8. /\ state'[n] = "AcceptRequest" /\ current'[n] = new /\ preparedPrepares'[n] = prs
      /\ roundChangeSet'[n] = left /\ highestPrepared'[n] = high
  BY <1>1, <1>2 DEF Shapes
<1>9. new.preprepareSent <= new.round
  BY <1>4
<1>10. CoreTyped("AcceptRequest", new, prs, left, high, msgs')
  BY <1>4, <1>5, <1>6, <1>7, <1>9 DEF CoreTyped
<1>11. OthersKept(n)
  BY <1>1, <1>2 DEF OthersKept, Shapes
<1>12. Shapes'
  BY <1>1, <1>2 DEF Shapes
<1>. QED BY <1>4, <1>8, <1>10, <1>11, <1>12

LEMMA ChangeRoundTyped ==
  ASSUME WellTyped, NEW n \in Started, NEW r \in Rounds, NEW tops \in [Rounds -> Prepared],
         NEW rcs, \A m \in rcs : m.type = "RoundChange" /\ m \in msgs,
         changeRound(n, r, rcs, tops)
  PROVE  WellTyped'
<1> DEFINE rc == [type |-> "RoundChange", src |-> n, seq |-> current'[n].sequence, round |-> r,
                  prepared |-> current'[n].prepared, justification |-> preparedPrepares'[n]]
<1>1. newRound(n, r, rcs, tops) /\ msgs' = msgs \cup {rc}
  BY DEF changeRound
<1>2. /\ Shapes' /\ OthersKept(n) /\ current'[n].prepared \in Prepared
      /\ CoreTyped(state'[n], current'[n], preparedPrepares'[n], roundChangeSet'[n],
                   highestPrepared'[n], msgs')
  <2>1. newRound(n, r, rcs, tops) /\ msgs \subseteq msgs'
    BY <1>1
  <2>. QED BY <2>1, NewRoundTyped
<1>3. IsMessage(rc)
  BY <1>2 DEF IsMessage
<1> HIDE DEF rc
<1>4. msgs \subseteq msgs' /\ \A m \in msgs' \ msgs : IsMessage(m)
  BY <1>1, <1>3
<1>. QED BY <1>2, <1>4, OneCoreTyped

\* Updates of a round state.
LEMMA RoundStateUpdates ==
  ASSUME NEW c \in RoundState, NEW b \in Proposals \cup {None}, NEW p \in Prepared,
         NEW s \in Nat
  PROVE  /\ [c EXCEPT !.preprepareSent = s] \in RoundState
         /\ [c EXCEPT !.pendingRequest = b, !.preprepareSent = s] \in RoundState
         /\ [c EXCEPT !.preprepare = b] \in RoundState
         /\ [c EXCEPT !.prepared = p] \in RoundState
<1>1. [c EXCEPT !.preprepareSent = s] \in RoundState
  BY DEF RoundState
<1>2. [c EXCEPT !.pendingRequest = b, !.preprepareSent = s] \in RoundState
  BY Zenon DEF RoundState
<1>3. [c EXCEPT !.preprepare = b] \in RoundState
  BY DEF RoundState
<1>4. [c EXCEPT !.prepared = p] \in RoundState
  BY DEF RoundState
<1> QED
  BY <1>1, <1>2, <1>3, <1>4

\* The worker's block.
LEMMA RequestTyped ==
  ASSUME WellTyped, NEW n \in Started, NEW b \in Proposals, handleRequest(n, b)
  PROVE  WellTyped'
<1> DEFINE pp == preprepareMsg(n, b, {}, None)
<1>1. /\ Shapes
      /\ CoreTyped(state[n], current[n], preparedPrepares[n], roundChangeSet[n],
                   highestPrepared[n], msgs)
  BY CoreIs
<1>2. PICK s \in Nat : /\ s <= current[n].round
                       /\ current' = [current EXCEPT ![n] =
                            [@ EXCEPT !.pendingRequest = b, !.preprepareSent = s]]
  <2> DEFINE s == IF state[n] = "AcceptRequest" /\ IsProposer(n)
                  THEN current[n].round ELSE current[n].preprepareSent
  <2>1. /\ current[n].round \in Nat /\ current[n].preprepareSent \in Nat
        /\ current[n].preprepareSent <= current[n].round
    BY CoreIs
  <2>2. s \in Nat /\ s <= current[n].round
    BY <2>1
  <2>3. current' = [current EXCEPT ![n] =
          [@ EXCEPT !.pendingRequest = b, !.preprepareSent = s]]
    BY <1>1, Zenon DEF handleRequest, Shapes, RoundState
  <2>. QED BY <2>2, <2>3, Zenon
<1> DEFINE c == [current[n] EXCEPT !.pendingRequest = b, !.preprepareSent = s]
<1>3. current' = [current EXCEPT ![n] = c]
  BY <1>2
<1>4. UNCHANGED <<state, preparedPrepares, roundChangeSet, highestPrepared, chain, enqueued>>
  BY DEF handleRequest
<1>5. msgs' = msgs \/ msgs' = msgs \cup {pp}
  BY DEF handleRequest, sendPreprepareMsg
<1>6. IsMessage(pp)
  BY DEF IsMessage, preprepareMsg
<1> HIDE DEF pp
<1>7. /\ c \in RoundState /\ c.preprepareSent <= c.round
      /\ c.preprepare = current[n].preprepare
  <2>1. current[n] \in RoundState
    BY CoreIs
  <2>2. c \in RoundState
    BY <2>1, RoundStateUpdates, Zenon DEF Prepared
  <2>3. c.preprepareSent = s /\ c.round = current[n].round /\ c.preprepare = current[n].preprepare
    BY <2>1 DEF RoundState
  <2>. QED BY <1>2, <2>2, <2>3
<1> HIDE DEF c
<1>8. Shapes' /\ OthersKept(n) /\ current'[n] = c
  BY <1>1, <1>3, <1>4 DEF Shapes, OthersKept
<1>9. msgs \subseteq msgs' /\ \A m \in msgs' \ msgs : IsMessage(m)
  BY <1>5, <1>6
<1>10. CoreTyped(state'[n], current'[n], preparedPrepares'[n], roundChangeSet'[n],
                 highestPrepared'[n], msgs')
  BY <1>1, <1>4, <1>7, <1>8, <1>9 DEF CoreTyped
<1>. QED BY <1>8, <1>9, <1>10, OneCoreTyped

\* The PRE-PREPARE, PREPARE and COMMIT messages.
LEMMA VotesTyped ==
  ASSUME WellTyped, NEW n \in Started,
         \/ \E m \in msgs : handlePreprepareMsg(n, m)
         \/ handlePrepare(n)
         \/ handleCommitMsg(n)
  PROVE  WellTyped'
<1>1. /\ Shapes
      /\ CoreTyped(state[n], current[n], preparedPrepares[n], roundChangeSet[n],
                   highestPrepared[n], msgs)
      /\ current[n] \in RoundState /\ current[n].round \in Rounds
      /\ current[n].preprepareSent <= current[n].round
  BY CoreIs
<1>2. ASSUME NEW m \in msgs, handlePreprepareMsg(n, m) PROVE WellTyped'
  <2> DEFINE c == [current[n] EXCEPT !.preprepare = m.digest]
             v == vote("Prepare", n, m.digest)
  <2>1. m.digest \in Proposals
    BY <1>2 DEF WellTyped, IsMessage, handlePreprepareMsg
  <2>2. /\ current' = [current EXCEPT ![n] = c]
        /\ state' = [state EXCEPT ![n] = "Preprepared"]
        /\ msgs' = msgs \cup {v}
        /\ UNCHANGED <<preparedPrepares, roundChangeSet, highestPrepared, chain, enqueued>>
    BY <1>2 DEF handlePreprepareMsg
  <2>3. IsMessage(v)
    BY DEF IsMessage, vote
  <2> HIDE DEF v
  <2>4. c \in RoundState /\ c.preprepareSent <= c.round /\ c.preprepare \in Proposals
    BY <1>1, <2>1 DEF RoundState
  <2> HIDE DEF c
  <2>5. Shapes' /\ OthersKept(n) /\ current'[n] = c
    BY <1>1, <2>2 DEF Shapes, OthersKept
  <2>6. msgs \subseteq msgs' /\ \A x \in msgs' \ msgs : IsMessage(x)
    BY <2>2, <2>3
  <2>7. CoreTyped(state'[n], current'[n], preparedPrepares'[n], roundChangeSet'[n],
                  highestPrepared'[n], msgs')
    BY <1>1, <2>2, <2>4, <2>5, <2>6 DEF CoreTyped
  <2>. QED BY <2>5, <2>6, <2>7, OneCoreTyped
<1>3. ASSUME handlePrepare(n) PROVE WellTyped'
  <2> DEFINE p == [round |-> current[n].round, block |-> current[n].preprepare]
             c == [current[n] EXCEPT !.prepared = p]
             v == vote("Commit", n, current[n].preprepare)
  <2>1. current[n].preprepare \in Proposals
    BY <1>1, <1>3 DEF CoreTyped, handlePrepare
  <2>2. /\ current' = [current EXCEPT ![n] = c]
        /\ state' = [state EXCEPT ![n] = "Prepared"]
        /\ preparedPrepares' = [preparedPrepares EXCEPT ![n] = p]
        /\ msgs' = msgs \cup {v}
        /\ UNCHANGED <<roundChangeSet, highestPrepared, chain, enqueued>>
    BY <1>3 DEF handlePrepare
  <2>3. IsMessage(v)
    BY DEF IsMessage, vote
  <2>4. p \in Prepared
    BY <1>1, <2>1 DEF Prepared
  <2> HIDE DEF v, p
  <2>5. c \in RoundState /\ c.preprepareSent <= c.round /\ c.preprepare \in Proposals
    BY <1>1, <2>1, <2>4 DEF RoundState
  <2> HIDE DEF c
  <2>6. Shapes' /\ OthersKept(n) /\ current'[n] = c /\ preparedPrepares'[n] = p
    BY <1>1, <2>2 DEF Shapes, OthersKept
  <2>7. msgs \subseteq msgs' /\ \A x \in msgs' \ msgs : IsMessage(x)
    BY <2>2, <2>3
  <2>8. CoreTyped(state'[n], current'[n], preparedPrepares'[n], roundChangeSet'[n],
                  highestPrepared'[n], msgs')
    BY <1>1, <2>2, <2>4, <2>5, <2>6, <2>7 DEF CoreTyped
  <2>. QED BY <2>6, <2>7, <2>8, OneCoreTyped
<1>4. ASSUME handleCommitMsg(n) PROVE WellTyped'
  <2>1. current[n].preprepare \in Proposals
    BY <1>1, <1>4 DEF CoreTyped, handleCommitMsg
  <2>2. /\ state' = [state EXCEPT ![n] = "Committed"]
        /\ enqueued' = [enqueued EXCEPT ![n] = @ \cup {current[n].preprepare}]
        /\ UNCHANGED <<current, preparedPrepares, roundChangeSet, highestPrepared, chain, msgs>>
    BY <1>4 DEF handleCommitMsg
  <2>3. Shapes' /\ OthersKept(n)
    BY <1>1, <2>1, <2>2 DEF Shapes, OthersKept
  <2>4. CoreTyped(state'[n], current'[n], preparedPrepares'[n], roundChangeSet'[n],
                  highestPrepared'[n], msgs')
    BY <1>1, <2>1, <2>2 DEF CoreTyped
  <2>. QED BY <2>2, <2>3, <2>4, OneCoreTyped
<1>. QED BY <1>2, <1>3, <1>4

\* A ROUND-CHANGE message is counted, starts a round or lets n propose.
LEMMA RoundChangeTyped ==
  ASSUME WellTyped, NEW n \in Started, NEW m \in msgs, handleRoundChange(n, m)
  PROVE  WellTyped'
<1> DEFINE round == current[n].round
           rcs == added(n, m)
           tops == highest(n, m)
           higher == {x \in rcs : x.round > round}
           now == {x \in rcs : x.round = round}
<1>1. /\ Shapes
      /\ CoreTyped(state[n], current[n], preparedPrepares[n], roundChangeSet[n],
                   highestPrepared[n], msgs)
      /\ current[n] \in RoundState /\ round \in Rounds
  BY CoreIs
<1>2. m.type = "RoundChange" /\ m.round \in Rounds /\ m.prepared \in Prepared
  BY DEF handleRoundChange, WellTyped, IsMessage
<1>3. \A x \in rcs : x.type = "RoundChange" /\ x \in msgs /\ x.round \in Rounds
  BY <1>1, <1>2 DEF added, CoreTyped, WellTyped, IsMessage
<1>4. tops \in [Rounds -> Prepared]
  BY <1>1, <1>2 DEF highest, CoreTyped
<1>5. CASE Cardinality({x.src : x \in higher}) = F(valSet) + 1
  <2>1. PICK r \in keysAbove(n, rcs, round) : changeRound(n, r, rcs, tops)
    BY <1>5 DEF handleRoundChange
  <2>2. r \in Rounds
    BY DEF keysAbove
  <2> HIDE DEF rcs, tops
  <2>. QED BY <1>3, <1>4, <2>1, <2>2, ChangeRoundTyped
<1>6. CASE Cardinality({x.src : x \in higher}) # F(valSet) + 1
  <2>1. /\ roundChangeSet' = [roundChangeSet EXCEPT ![n] = rcs]
        /\ highestPrepared' = [highestPrepared EXCEPT ![n] = tops]
        /\ UNCHANGED <<preparedPrepares, chain, enqueued>>
        /\ proposeAgain(n, now, tops[round]) \/ UNCHANGED <<state, current, msgs>>
    BY <1>6 DEF handleRoundChange
  <2> DEFINE top == tops[round]
             block == IF top # None THEN top.block ELSE current[n].pendingRequest
             pp == preprepareMsg(n, block, now, top)
             c == [current[n] EXCEPT !.preprepareSent = current[n].round]
  <2>2. /\ state' = state \/ state' = [state EXCEPT ![n] = "Panic"]
        /\ current' = current \/ current' = [current EXCEPT ![n] = c]
        /\ msgs' = msgs \/ (msgs' = msgs \cup {pp} /\ block # None)
    BY <2>1 DEF proposeAgain
  <2>3. block # None => block \in Proposals
    <3>1. top \in Prepared
      BY <1>1, <1>4
    <3>. QED BY <1>1, <3>1 DEF Prepared, RoundState
  <2>4. block # None => IsMessage(pp)
    BY <2>3 DEF IsMessage, preprepareMsg
  <2>5. /\ c \in RoundState /\ c.preprepareSent <= c.round
        /\ c.preprepare = current[n].preprepare
    <3>1. current[n].round \in Nat
      BY CoreIs
    <3>. QED BY <1>1, <3>1 DEF RoundState
  <2> HIDE DEF rcs, tops, c, pp, block
  <2>6. msgs \subseteq msgs' /\ \A x \in msgs' \ msgs : IsMessage(x)
    BY <2>2, <2>4
  <2>7. Shapes'
    BY <1>1, <2>1, <2>2, Zenon DEF Shapes
  <2>8. OthersKept(n)
    BY <1>1, <2>1, <2>2 DEF Shapes, OthersKept
  <2>9. /\ roundChangeSet'[n] = rcs /\ highestPrepared'[n] = tops
        /\ preparedPrepares'[n] = preparedPrepares[n]
        /\ current'[n] \in {current[n], c} /\ state'[n] \in {state[n], "Panic"}
    BY <1>1, <2>1, <2>2 DEF Shapes
  <2>10. CoreTyped(state'[n], current'[n], preparedPrepares'[n], roundChangeSet'[n],
                   highestPrepared'[n], msgs')
    BY <1>1, <1>3, <1>4, <2>5, <2>6, <2>9 DEF CoreTyped
  <2>. QED BY <2>6, <2>7, <2>8, <2>10, OneCoreTyped
<1>. QED BY <1>5, <1>6

LEMMA TypesKept ==
  ASSUME WellTyped, [Next]_vars
  PROVE  WellTyped'
<1>1. CASE UNCHANGED vars
  BY <1>1 DEF vars, coreVars, WellTyped, Shapes, CoreTyped
<1>2. ASSUME NEW n \in Started, handleFinalCommitted(n) PROVE WellTyped'
  <2>1. newRound(n, 0, {}, Nothing) /\ msgs' = msgs
    BY <1>2 DEF handleFinalCommitted
  <2>2. 0 \in Rounds /\ Nothing \in [Rounds -> Prepared]
    BY BoundsAssumption DEF Rounds, Nothing, Prepared
  <2>3. /\ Shapes' /\ OthersKept(n)
        /\ CoreTyped(state'[n], current'[n], preparedPrepares'[n], roundChangeSet'[n],
                     highestPrepared'[n], msgs')
    BY <2>1, <2>2, NewRoundTyped
  <2>. QED BY <2>1, <2>3, OneCoreTyped
<1>3. ASSUME NEW n \in Started, handleTimeoutMsg(n) PROVE WellTyped'
  <2>1. current[n].round + 1 \in Rounds
    BY <1>3, CoreIs, BoundsAssumption DEF handleTimeoutMsg, Rounds
  <2>2. /\ highestPrepared[n] \in [Rounds -> Prepared]
        /\ \A m \in roundChangeSet[n] : m.type = "RoundChange" /\ m \in msgs
    BY CoreIs DEF CoreTyped
  <2>3. changeRound(n, current[n].round + 1, roundChangeSet[n], highestPrepared[n])
    BY <1>3 DEF handleTimeoutMsg
  <2>. QED BY <2>1, <2>2, <2>3, ChangeRoundTyped
<1>4. ASSUME NEW n \in Started, NEW b \in Proposals, insertBlock(n, b) PROVE WellTyped'
  <2>1. /\ chain' = [chain EXCEPT ![n] = Append(chain[n], b)]
        /\ UNCHANGED <<state, current, preparedPrepares, roundChangeSet, highestPrepared,
                       enqueued, msgs>>
    BY <1>4 DEF insertBlock, coreVars
  <2>2. chain' \in [Started -> Seq(Proposals)]
    BY <2>1 DEF WellTyped, Shapes
  <2>. QED BY <2>1, <2>2 DEF WellTyped, Shapes
<1>. QED BY <1>1, <1>2, <1>3, <1>4, RequestTyped, VotesTyped, RoundChangeTyped DEF Next

\* In any number of sequences, whatever the order of messages, timeouts and
\* insertions: no core counts a PRE-PREPARE of a later round as sent, which
\* would keep it from proposing when its turn comes (preprepareSent); what it
\* has prepared is a round and a block; and what roundChangeSet holds was sent.
THEOREM QbftTypes == Spec => []TypeOK
<1>1. Init => WellTyped
  <2>1. SUFFICES ASSUME Init PROVE WellTyped
    OBVIOUS
  <2> DEFINE c == newRoundState(1, 0, None, None, None)
  <2>2. 0 \in Rounds /\ None \in Prepared /\ Nothing \in [Rounds -> Prepared]
    BY BoundsAssumption DEF Rounds, Nothing, Prepared
  <2>3. c \in RoundState /\ c.preprepareSent <= c.round
    BY <2>2 DEF newRoundState, RoundState
  <2>4. << >> \in Seq(Proposals)
    OBVIOUS
  <2> HIDE DEF c
  <2>5. Shapes
    BY <2>1, <2>4 DEF Init, Shapes
  <2>6. ASSUME NEW n \in Started
        PROVE  CoreTyped(state[n], current[n], preparedPrepares[n], roundChangeSet[n],
                         highestPrepared[n], msgs)
    <3>1. /\ state[n] = "AcceptRequest" /\ current[n] = c /\ preparedPrepares[n] = None
          /\ roundChangeSet[n] = {} /\ highestPrepared[n] = Nothing
      BY <2>1 DEF Init, c
    <3>. QED BY <2>2, <2>3, <3>1 DEF CoreTyped
  <2>. QED BY <2>1, <2>5, <2>6 DEF WellTyped, Init
<1>2. WellTyped /\ [Next]_vars => WellTyped'
  BY TypesKept
<1>3. WellTyped => TypeOK
  BY WellTypedTypes
<1>. QED BY <1>1, <1>2, <1>3, PTL DEF Spec

-----------------------------------------------------------------------------
(* Steps, with what they do to the types.                                   *)

LEMMA Parts ==
  ASSUME Types, NEW n \in Started
  PROVE  /\ current[n] \in RoundState
         /\ current[n].round \in Rounds /\ current[n].round \in Nat
         /\ current[n].sequence \in Nat \ {0}
         /\ current[n].prepared \in Prepared
         /\ current[n].preprepare \in Proposals \cup {None}
         /\ current[n].pendingRequest \in Proposals \cup {None}
         /\ current[n].preprepareSent \in Nat
<1>1. current[n] \in RoundState
  BY DEF Types
<1> QED
  BY <1>1, BoundsAssumption DEF RoundState, Rounds

LEMMA RoundsAreNumbers ==
  /\ Rounds \subseteq Nat /\ 0 \in Rounds
  /\ \A p \in Prepared : p # None => p.round \in Nat
<1>1. Rounds \subseteq Nat /\ 0 \in Rounds
  BY BoundsAssumption DEF Rounds
<1> QED
  BY <1>1, Zenon DEF Prepared

\* One core's round state is replaced.
LEMMA OneReplaced ==
  ASSUME Types, NEW n \in Started, NEW c \in RoundState,
         current' = [current EXCEPT ![n] = c]
  PROVE  /\ current' \in [Started -> RoundState] /\ current'[n] = c
         /\ \A q \in Started \ {n} : current'[q] = current[q]
<1>1. current \in [Started -> RoundState]
  BY DEF Types
<1> QED
  BY <1>1

\* A message by its type.
LEMMA MessageParts ==
  ASSUME Types, NEW m \in msgs
  PROVE  /\ m.src \in Started /\ m.seq = 1 /\ m.round \in Rounds /\ m.round \in Nat
         /\ m.type \in {"Prepare", "Commit"} => m \in VoteMsg /\ m.digest \in Proposals
         /\ m.type = "RoundChange" => m \in RoundChangeMsg /\ m.prepared \in Prepared
         /\ m.type = "Preprepare" => /\ m \in PreprepareMsg /\ m.digest \in Proposals
                                     /\ m.rcs \subseteq RoundChangeMsg
<1>1. m \in VoteMsg \/ m \in RoundChangeMsg \/ m \in PreprepareMsg
  BY DEF Types
<1>2. Rounds \subseteq Nat
  BY BoundsAssumption DEF Rounds
<1>3. CASE m \in VoteMsg
  BY <1>2, <1>3, Zenon DEF VoteMsg
<1>4. CASE m \in RoundChangeMsg
  BY <1>2, <1>4, Zenon DEF RoundChangeMsg
<1>5. CASE m \in PreprepareMsg
  BY <1>2, <1>5 DEF PreprepareMsg
<1> QED
  BY <1>1, <1>3, <1>4, <1>5

\* With one sequence a core is active as long as its chain is empty.
LEMMA ActiveInFirst ==
  ASSUME OneSequence, Types, NEW n \in Started, Active(n)
  PROVE  chain[n] = << >> /\ current[n].sequence = 1
<1>1. chain[n] \in Seq(Proposals) /\ Len(chain[n]) < 1
  BY DEF Types, Active, OneSequence
<1>2. chain[n] = << >>
  BY <1>1
<1> QED
  BY <1>2 DEF Types

\* A step in which nobody votes or changes its round, for the cores whose chain
\* is empty: only PRE-PREPAREs are sent.
Proposes(P) ==
  /\ msgs' = msgs \cup P
  /\ \A m \in P : \A x \in m.rcs : x \in msgs /\ x.round = m.round

Quiet ==
  /\ \E P \in SUBSET PreprepareMsg : Proposes(P)
  /\ enqueued' = enqueued
  /\ \A q \in Started : chain'[q] = << >> =>
       /\ chain[q] = << >>
       /\ current'[q].round = current[q].round
       /\ current'[q].prepared = current[q].prepared
       /\ state'[q] \in {state[q], "Panic"}

LEMMA NothingSent ==
  ASSUME msgs' = msgs
  PROVE  \E P \in SUBSET PreprepareMsg : Proposes(P)
<1>1. {} \in SUBSET PreprepareMsg /\ Proposes({})
  BY DEF Proposes
<1> QED
  BY <1>1

LEMMA OneSent ==
  ASSUME NEW p \in PreprepareMsg, msgs' = msgs \cup {p},
         \A x \in p.rcs : x \in msgs /\ x.round = p.round
  PROVE  \E P \in SUBSET PreprepareMsg : Proposes(P)
<1>1. {p} \in SUBSET PreprepareMsg /\ Proposes({p})
  BY DEF Proposes
<1> QED
  BY <1>1

\* The change of n to round r.
Rounded(n, r) ==
  /\ chain[n] = << >> /\ current[n].round < r
  /\ state' = [state EXCEPT ![n] = "AcceptRequest"]
  /\ current' = [current EXCEPT ![n] =
       newRoundState(1, r, current[n].preprepare, current[n].prepared,
                     current[n].pendingRequest)]
  /\ msgs' = msgs \cup {[type |-> "RoundChange", src |-> n, seq |-> 1, round |-> r,
                         prepared |-> current[n].prepared,
                         justification |-> preparedPrepares[n]]}
  /\ UNCHANGED <<chain, enqueued>>

LEMMA ChangeRoundStep ==
  ASSUME Types, NEW n \in Started, chain[n] = << >>, NEW r \in Rounds,
         current[n].round < r, NEW rcs \in SUBSET RoundChangeMsg, rcs \subseteq msgs,
         NEW tops \in [Rounds -> Prepared], changeRound(n, r, rcs, tops)
  PROVE  Rounded(n, r) /\ Types'
<1> DEFINE new == newRoundState(1, r, current[n].preprepare, current[n].prepared,
                                current[n].pendingRequest)
           rc == [type |-> "RoundChange", src |-> n, seq |-> 1, round |-> r,
                  prepared |-> current[n].prepared,
                  justification |-> preparedPrepares[n]]
<1>1. r # 0 /\ current[n].sequence = 1 /\ Len(chain[n]) = 0
  BY Parts DEF Types
<1>2. /\ state' = [state EXCEPT ![n] = "AcceptRequest"]
      /\ current' = [current EXCEPT ![n] = new]
      /\ preparedPrepares' = [preparedPrepares EXCEPT ![n] = preparedPrepares[n]]
      /\ roundChangeSet' = [roundChangeSet EXCEPT ![n] = {m \in rcs : m.round >= r}]
      /\ highestPrepared' = [highestPrepared EXCEPT ![n] =
           [k \in Rounds |-> IF k < r THEN None ELSE tops[k]]]
      /\ UNCHANGED <<chain, enqueued>>
  <2>1. current' = [current EXCEPT ![n] = new]
    BY <1>1 DEF changeRound, newRound, Types
  <2>2. preparedPrepares' = [preparedPrepares EXCEPT ![n] = preparedPrepares[n]]
    BY <1>1 DEF changeRound, newRound, Types
  <2>3. roundChangeSet' = [roundChangeSet EXCEPT ![n] = {m \in rcs : m.round >= r}]
    BY <1>1 DEF changeRound, newRound
  <2>4. [k \in Rounds |-> IF r = 0 \/ k < r THEN None ELSE tops[k]]
          = [k \in Rounds |-> IF k < r THEN None ELSE tops[k]]
    BY <1>1
  <2>5. highestPrepared' = [highestPrepared EXCEPT ![n] =
          [k \in Rounds |-> IF r = 0 \/ k < r THEN None ELSE tops[k]]]
    BY DEF changeRound, newRound
  <2>6. /\ state' = [state EXCEPT ![n] = "AcceptRequest"]
        /\ UNCHANGED <<chain, enqueued>>
    BY DEF changeRound, newRound
  <2> QED
    BY <2>1, <2>2, <2>3, <2>4, <2>5, <2>6, Zenon
<1>3. new \in RoundState /\ new.sequence = 1 /\ new.prepared = current[n].prepared
  BY Parts DEF newRoundState, RoundState
<1>4. current'[n] = new /\ preparedPrepares'[n] = preparedPrepares[n]
  BY <1>2 DEF Types
<1>5. msgs' = msgs \cup {rc}
  BY <1>3, <1>4 DEF changeRound
<1>6. rc \in RoundChangeMsg
  BY Parts DEF RoundChangeMsg, Types
<1>7. Rounded(n, r)
  BY <1>2, <1>5 DEF Rounded
<1>8. /\ state' \in [Started -> {"AcceptRequest", "Preprepared", "Prepared", "Committed",
                                 "Panic"}]
      /\ current' \in [Started -> RoundState]
      /\ preparedPrepares' \in [Started -> Prepared]
      /\ roundChangeSet' \in [Started -> SUBSET RoundChangeMsg]
      /\ chain' \in [Started -> Seq(Proposals)]
      /\ enqueued' \in [Started -> SUBSET Proposals]
      /\ msgs' \subseteq VoteMsg \cup RoundChangeMsg \cup PreprepareMsg
  BY <1>2, <1>3, <1>5, <1>6 DEF Types
<1>9. highestPrepared' \in [Started -> [Rounds -> Prepared]]
  <2>1. [k \in Rounds |-> IF k < r THEN None ELSE tops[k]] \in [Rounds -> Prepared]
    BY DEF Prepared
  <2> QED
    BY <1>2, <2>1 DEF Types
<1>10. ASSUME NEW q \in Started
       PROVE  /\ chain'[q] = << >> => current'[q].sequence = 1
              /\ state'[q] \in {"Preprepared", "Prepared", "Committed"}
                   => current'[q].preprepare \in Proposals
              /\ roundChangeSet'[q] \subseteq msgs'
  <2>1. CASE q = n
    BY <2>1, <1>2, <1>3, <1>4, <1>5 DEF Types
  <2>2. CASE q # n
    BY <2>2, <1>2, <1>5 DEF Types
  <2> QED
    BY <2>1, <2>2
<1> QED
  BY <1>7, <1>8, <1>9, <1>10 DEF Types

\* A ROUND-CHANGE message is counted, makes n change its round, or lets it
\* propose.
LEMMA HandleRoundChangeStep ==
  ASSUME OneSequence, Types, NEW n \in Started, NEW m \in msgs, handleRoundChange(n, m)
  PROVE  Types' /\ (Quiet \/ \E r \in Rounds : Rounded(n, r))
<1> DEFINE round == current[n].round
           rcs == added(n, m)
           tops == highest(n, m)
           higher == {x \in rcs : x.round > round}
           now == {x \in rcs : x.round = round}
<1>1. chain[n] = << >> /\ current[n].sequence = 1
  BY ActiveInFirst, Zenon DEF handleRoundChange
<1>2. m \in RoundChangeMsg /\ m.round \in Rounds /\ m.prepared \in Prepared
  BY MessageParts DEF handleRoundChange
<1>3. rcs \in SUBSET RoundChangeMsg /\ rcs \subseteq msgs
  BY <1>2 DEF added, Types
<1>4. tops \in [Rounds -> Prepared]
  BY <1>2 DEF highest, Types
<1>5. CASE Cardinality({x.src : x \in higher}) = F(valSet) + 1
  <2>1. PICK r \in keysAbove(n, rcs, round) : changeRound(n, r, rcs, tops)
    BY <1>5 DEF handleRoundChange
  <2>2. r \in Rounds /\ current[n].round < r
    BY BoundsAssumption, Parts DEF keysAbove, Rounds
  <2>3. Rounded(n, r) /\ Types'
    BY <1>1, <1>3, <1>4, <2>1, <2>2, ChangeRoundStep
  <2> QED
    BY <2>2, <2>3, Zenon
<1>6. CASE Cardinality({x.src : x \in higher}) # F(valSet) + 1
  <2>1. /\ roundChangeSet' = [roundChangeSet EXCEPT ![n] = rcs]
        /\ highestPrepared' = [highestPrepared EXCEPT ![n] = tops]
        /\ UNCHANGED <<preparedPrepares, chain, enqueued>>
        /\ proposeAgain(n, now, tops[round]) \/ UNCHANGED <<state, current, msgs>>
    BY <1>6, Zenon DEF handleRoundChange
  <2>2. /\ roundChangeSet' \in [Started -> SUBSET RoundChangeMsg]
        /\ highestPrepared' \in [Started -> [Rounds -> Prepared]]
        /\ \A q \in Started : roundChangeSet'[q] \subseteq msgs
    BY <1>3, <1>4, <2>1 DEF Types
  <2>3. CASE UNCHANGED <<state, current, msgs>>
    <3>1. Types'
      BY <2>1, <2>2, <2>3 DEF Types
    <3>2. Quiet
      <4>1. \E P \in SUBSET PreprepareMsg : Proposes(P)
        BY <2>3, NothingSent
      <4> QED
        BY <2>1, <2>3, <4>1 DEF Quiet
    <3> QED
      BY <3>1, <3>2, Zenon
  <2>4. CASE proposeAgain(n, now, tops[round])
    <3> DEFINE top == tops[round]
               block == IF top # None THEN top.block ELSE current[n].pendingRequest
               pp == preprepareMsg(n, block, now, top)
    <3>1. top \in Prepared
      BY <1>4, Parts
    <3>2. CASE block = None
      <4>1. state' = [state EXCEPT ![n] = "Panic"] /\ UNCHANGED <<current, msgs>>
        BY <2>4, <3>2 DEF proposeAgain
      <4>2. Types'
        BY <2>1, <2>2, <4>1 DEF Types
      <4>3. \E P \in SUBSET PreprepareMsg : Proposes(P)
        BY <4>1, NothingSent
      <4>4. Quiet
        BY <2>1, <4>1, <4>3 DEF Quiet, Types
      <4> QED
        BY <4>2, <4>4
    <3>3. CASE block # None
      <4>1. block \in Proposals
        BY <3>1, <3>3, Parts DEF Prepared
      <4>2. /\ state' = state
            /\ \/ UNCHANGED <<current, msgs>>
               \/ /\ msgs' = msgs \cup {pp}
                  /\ current' = [current EXCEPT ![n].preprepareSent = current[n].round]
        BY <2>4, <3>3 DEF proposeAgain
      <4>3. /\ pp \in PreprepareMsg
            /\ \A x \in pp.rcs : x \in msgs /\ x.round = pp.round
        <5>1. now \in SUBSET RoundChangeMsg /\ now \subseteq msgs
          BY <1>3
        <5> HIDE DEF now, top, block
        <5>2. pp \in PreprepareMsg
          BY <1>1, <3>1, <4>1, <5>1, Parts DEF preprepareMsg, PreprepareMsg
        <5>3. pp.rcs = now /\ pp.round = current[n].round
          BY DEF preprepareMsg
        <5> QED
          BY <5>1, <5>2, <5>3, Zenon DEF now
      <4>4. /\ current' \in [Started -> RoundState]
            /\ \A q \in Started : /\ current'[q].sequence = current[q].sequence
                                  /\ current'[q].round = current[q].round
                                  /\ current'[q].prepared = current[q].prepared
                                  /\ current'[q].preprepare = current[q].preprepare
        <5>1. CASE UNCHANGED current
          BY <5>1 DEF Types
        <5>2. CASE current' = [current EXCEPT ![n].preprepareSent = current[n].round]
          <6> DEFINE c == [current[n] EXCEPT !.preprepareSent = current[n].round]
          <6>1. current[n] \in RoundState /\ current[n].round \in Nat
            BY Parts
          <6>2. c \in RoundState
            BY <6>1, RoundStateUpdates, RoundsAreNumbers, Zenon DEF Prepared
          <6>3. /\ c.sequence = current[n].sequence /\ c.round = current[n].round
                /\ c.prepared = current[n].prepared /\ c.preprepare = current[n].preprepare
            BY <6>1 DEF RoundState
          <6>4. current' = [current EXCEPT ![n] = c]
            BY <5>2
          <6> HIDE DEF c
          <6> QED
            BY <6>2, <6>3, <6>4, OneReplaced, Zenon
        <5> QED
          BY <4>2, <5>1, <5>2
      <4>5. msgs' = msgs \/ msgs' = msgs \cup {pp}
        BY <4>2
      <4> HIDE DEF pp
      <4>6. msgs \subseteq msgs' /\ msgs' \subseteq VoteMsg \cup RoundChangeMsg \cup PreprepareMsg
        BY <4>3, <4>5 DEF Types
      <4>7. Types'
        BY <2>1, <2>2, <4>2, <4>4, <4>6 DEF Types
      <4>8. \E P \in SUBSET PreprepareMsg : Proposes(P)
        BY <4>3, <4>5, NothingSent, OneSent
      <4>9. Quiet
        BY <2>1, <4>2, <4>4, <4>8 DEF Quiet
      <4> QED
        BY <4>7, <4>9
    <3> QED
      BY <3>2, <3>3
  <2> QED
    BY <2>1, <2>3, <2>4, Zenon
<1> QED
  BY <1>5, <1>6

LEMMA HandleRequestStep ==
  ASSUME OneSequence, Types, NEW n \in Started, NEW b \in Proposals, handleRequest(n, b)
  PROVE  Types' /\ Quiet
<1> DEFINE pp == preprepareMsg(n, b, {}, None)
<1>1. current[n].sequence = 1
  BY ActiveInFirst DEF handleRequest
<1>2. pp \in PreprepareMsg /\ pp.rcs = {}
  BY <1>1, Parts DEF preprepareMsg, PreprepareMsg, Prepared
<1>3. msgs' = msgs \/ msgs' = msgs \cup {pp}
  BY DEF handleRequest, sendPreprepareMsg
<1> HIDE DEF pp
<1>4. \E P \in SUBSET PreprepareMsg : Proposes(P)
  BY <1>2, <1>3, NothingSent, OneSent
<1>5. PICK s \in Nat : current' = [current EXCEPT ![n] =
        [@ EXCEPT !.pendingRequest = b, !.preprepareSent = s]]
  <2>1. /\ current[n].round \in Nat /\ current[n].preprepareSent \in Nat
    BY Parts
  <2> DEFINE s == IF state[n] = "AcceptRequest" /\ IsProposer(n)
                  THEN current[n].round ELSE current[n].preprepareSent
  <2>2. s \in Nat
    BY <2>1
  <2>3. current' = [current EXCEPT ![n] =
          [@ EXCEPT !.pendingRequest = b, !.preprepareSent = s]]
    BY Zenon DEF handleRequest, Types, RoundState
  <2> QED
    BY <2>2, <2>3, Zenon
<1>6. /\ current' \in [Started -> RoundState]
      /\ \A q \in Started : /\ current'[q].sequence = current[q].sequence
                            /\ current'[q].round = current[q].round
                            /\ current'[q].prepared = current[q].prepared
                            /\ current'[q].preprepare = current[q].preprepare
  <2> DEFINE c == [current[n] EXCEPT !.pendingRequest = b, !.preprepareSent = s]
  <2>1. current[n] \in RoundState
    BY Parts
  <2>2. c \in RoundState
    BY <2>1, RoundStateUpdates, Zenon DEF Prepared
  <2>3. /\ c.sequence = current[n].sequence /\ c.round = current[n].round
        /\ c.prepared = current[n].prepared /\ c.preprepare = current[n].preprepare
    BY <2>1 DEF RoundState
  <2>4. current' = [current EXCEPT ![n] = c]
    BY <1>5
  <2> HIDE DEF c
  <2> QED
    BY <2>2, <2>3, <2>4, OneReplaced, Zenon
<1>7. UNCHANGED <<state, preparedPrepares, roundChangeSet, highestPrepared, chain, enqueued>>
  BY DEF handleRequest
<1>8. msgs \subseteq msgs' /\ msgs' \subseteq VoteMsg \cup RoundChangeMsg \cup PreprepareMsg
  BY <1>2, <1>3 DEF Types
<1>9. Types'
  BY <1>6, <1>7, <1>8, Zenon DEF Types
<1> QED
  BY <1>4, <1>6, <1>7, <1>9 DEF Quiet

\* What happens to a chain that has the block of the sequence is of no effect.
LEMMA HandleFinalCommittedStep ==
  ASSUME Types, NEW n \in Started, handleFinalCommitted(n)
  PROVE  Types' /\ Quiet
<1>1. Len(chain[n]) \in Nat /\ Len(chain[n]) >= current[n].sequence
      /\ current[n].sequence \in Nat \ {0}
  BY Parts DEF handleFinalCommitted, Types
<1>2. chain[n] # << >>
  BY <1>1
<1> DEFINE new == newRoundState(Len(chain[n]) + 1, 0, None, None, None)
<1>3. /\ state' = [state EXCEPT ![n] = "AcceptRequest"]
      /\ current' = [current EXCEPT ![n] = new]
      /\ preparedPrepares' = [preparedPrepares EXCEPT ![n] = None]
      /\ roundChangeSet' = [roundChangeSet EXCEPT ![n] = {}]
      /\ UNCHANGED <<chain, enqueued, msgs>>
  BY <1>1 DEF handleFinalCommitted, newRound, Types
<1>4. highestPrepared' \in [Started -> [Rounds -> Prepared]]
  <2>1. [r \in Rounds |-> IF 0 = 0 \/ r < 0 THEN None ELSE Nothing[r]] \in [Rounds -> Prepared]
    BY Zenon DEF Prepared
  <2> QED
    BY <2>1 DEF handleFinalCommitted, newRound, Types
<1>5. new \in RoundState
  BY <1>1, BoundsAssumption DEF newRoundState, RoundState, Rounds, Prepared
<1>6. /\ state' \in [Started -> {"AcceptRequest", "Preprepared", "Prepared", "Committed",
                                 "Panic"}]
      /\ current' \in [Started -> RoundState]
      /\ preparedPrepares' \in [Started -> Prepared]
      /\ roundChangeSet' \in [Started -> SUBSET RoundChangeMsg]
  BY <1>3, <1>5 DEF Types, Prepared
<1>7. ASSUME NEW q \in Started
      PROVE  /\ chain'[q] = << >> => current'[q].sequence = 1
             /\ state'[q] \in {"Preprepared", "Prepared", "Committed"}
                  => current'[q].preprepare \in Proposals
             /\ roundChangeSet'[q] \subseteq msgs'
  BY <1>2, <1>3 DEF Types
<1>8. Types'
  BY <1>3, <1>4, <1>6, <1>7 DEF Types
<1>9. \E P \in SUBSET PreprepareMsg : Proposes(P)
  BY <1>3, NothingSent, ZenonT(30)
<1> QED
  BY <1>2, <1>3, <1>8, <1>9, SMTT(30) DEF Quiet, Types

LEMMA InsertBlockStep ==
  ASSUME Types, NEW n \in Started, NEW b \in Proposals, insertBlock(n, b)
  PROVE  Types' /\ Quiet
<1>1. /\ chain' = [chain EXCEPT ![n] = Append(chain[n], b)]
      /\ UNCHANGED <<state, current, preparedPrepares, roundChangeSet, highestPrepared,
                     enqueued, msgs>>
  BY DEF insertBlock, coreVars
<1>2. chain[n] \in Seq(Proposals)
  BY DEF Types
<1>3. Append(chain[n], b) \in Seq(Proposals) /\ Append(chain[n], b) # << >>
  BY <1>2
<1>4. /\ chain' \in [Started -> Seq(Proposals)]
      /\ \A q \in Started : chain'[q] = << >> => chain[q] = << >>
  BY <1>1, <1>3 DEF Types
<1>5. Types'
  BY <1>1, <1>4, Zenon DEF Types
<1>6. \E P \in SUBSET PreprepareMsg : Proposes(P)
  BY <1>1, NothingSent
<1> QED
  BY <1>1, <1>4, <1>5, <1>6 DEF Quiet

\* The three steps in which n votes or commits.
LEMMA VoteTypes ==
  ASSUME OneSequence, Types, NEW n \in Started,
         \/ \E m \in msgs : handlePreprepareMsg(n, m)
         \/ handlePrepare(n)
         \/ handleCommitMsg(n)
  PROVE  Types' /\ chain[n] = << >> /\ current[n].sequence = 1
<1>1. chain[n] = << >> /\ current[n].sequence = 1
  BY ActiveInFirst DEF handlePreprepareMsg, handlePrepare, handleCommitMsg
<1>2. ASSUME NEW m \in msgs, handlePreprepareMsg(n, m) PROVE Types'
  <2>1. m.digest \in Proposals
    BY <1>2, MessageParts DEF handlePreprepareMsg
  <2>2. vote("Prepare", n, m.digest) \in VoteMsg
    BY <1>1, <2>1, Parts DEF vote, VoteMsg
  <2>3. /\ current' = [current EXCEPT ![n].preprepare = m.digest]
        /\ state' = [state EXCEPT ![n] = "Preprepared"]
        /\ msgs' = msgs \cup {vote("Prepare", n, m.digest)}
        /\ UNCHANGED <<preparedPrepares, roundChangeSet, highestPrepared, chain, enqueued>>
    BY <1>2 DEF handlePreprepareMsg
  <2>4. /\ current' \in [Started -> RoundState]
        /\ \A q \in Started : current'[q].sequence = current[q].sequence
        /\ current'[n].preprepare = m.digest
        /\ \A q \in Started \ {n} : current'[q] = current[q]
    <3> DEFINE c == [current[n] EXCEPT !.preprepare = m.digest]
    <3>1. current[n] \in RoundState
      BY Parts
    <3>2. c \in RoundState
      BY <2>1, <3>1, RoundStateUpdates, Zenon DEF Prepared
    <3>3. c.sequence = current[n].sequence /\ c.preprepare = m.digest
      BY <3>1 DEF RoundState
    <3>4. current' = [current EXCEPT ![n] = c]
      BY <2>3
    <3> HIDE DEF c
    <3> QED
      BY <3>2, <3>3, <3>4, OneReplaced, Zenon
  <2>5. msgs \subseteq msgs' /\ msgs' \subseteq VoteMsg \cup RoundChangeMsg \cup PreprepareMsg
    BY <2>2, <2>3 DEF Types
  <2> QED
    BY <2>1, <2>3, <2>4, <2>5 DEF Types
<1>3. ASSUME handlePrepare(n) PROVE Types'
  <2> DEFINE p == [round |-> current[n].round, block |-> current[n].preprepare]
  <2>1. current[n].preprepare \in Proposals
    BY <1>3 DEF handlePrepare, Types
  <2>2. p \in Prepared
    BY <2>1, Parts DEF Prepared
  <2>3. vote("Commit", n, current[n].preprepare) \in VoteMsg
    BY <1>1, <2>1, Parts DEF vote, VoteMsg
  <2>4. /\ current' = [current EXCEPT ![n].prepared = p]
        /\ state' = [state EXCEPT ![n] = "Prepared"]
        /\ preparedPrepares' = [preparedPrepares EXCEPT ![n] = p]
        /\ msgs' = msgs \cup {vote("Commit", n, current[n].preprepare)}
        /\ UNCHANGED <<roundChangeSet, highestPrepared, chain, enqueued>>
    BY <1>3 DEF handlePrepare
  <2>5. /\ current' \in [Started -> RoundState]
        /\ \A q \in Started : /\ current'[q].sequence = current[q].sequence
                              /\ current'[q].preprepare = current[q].preprepare
        /\ preparedPrepares' \in [Started -> Prepared]
    <3> DEFINE c == [current[n] EXCEPT !.prepared = p]
    <3>1. current[n] \in RoundState
      BY Parts
    <3>2. current' = [current EXCEPT ![n] = c]
      BY <2>4
    <3> HIDE DEF p
    <3>3. c \in RoundState
      BY <2>2, <3>1, RoundStateUpdates, Zenon
    <3>4. c.sequence = current[n].sequence /\ c.preprepare = current[n].preprepare
      BY <3>1 DEF RoundState
    <3>5. preparedPrepares' \in [Started -> Prepared]
      BY <2>2, <2>4 DEF Types
    <3> HIDE DEF c
    <3> QED
      BY <3>2, <3>3, <3>4, <3>5, OneReplaced, Zenon
  <2>6. msgs \subseteq msgs' /\ msgs' \subseteq VoteMsg \cup RoundChangeMsg \cup PreprepareMsg
    BY <2>3, <2>4 DEF Types
  <2> QED
    BY <2>1, <2>4, <2>5, <2>6 DEF Types
<1>4. ASSUME handleCommitMsg(n) PROVE Types'
  <2>1. current[n].preprepare \in Proposals
    BY <1>4, Zenon DEF handleCommitMsg, Types
  <2> QED
    BY <1>4, <2>1 DEF handleCommitMsg, Types
<1> QED
  BY <1>1, <1>2, <1>3, <1>4

\* Every step is one of these.
LEMMA StepKinds ==
  ASSUME OneSequence, Types, [Next]_vars
  PROVE  /\ Types'
         /\ \/ Quiet
            \/ \E n \in Started, r \in Rounds : Rounded(n, r)
            \/ \E n \in Started, m \in msgs : handlePreprepareMsg(n, m)
            \/ \E n \in Started : handlePrepare(n)
            \/ \E n \in Started : handleCommitMsg(n)
<1>1. CASE UNCHANGED vars
  <2>1. Types'
    BY <1>1 DEF vars, coreVars, Types
  <2>2. \E P \in SUBSET PreprepareMsg : Proposes(P)
    BY <1>1, NothingSent DEF vars
  <2>3. Quiet
    BY <1>1, <2>2 DEF vars, coreVars, Quiet
  <2> QED
    BY <2>1, <2>3
<1>2. ASSUME NEW n \in Started, handleTimeoutMsg(n)
      PROVE  Types' /\ \E r \in Rounds : Rounded(n, r)
  <2>1. current[n].round + 1 \in Rounds /\ current[n].round < current[n].round + 1
    BY <1>2, Parts, BoundsAssumption DEF handleTimeoutMsg, Rounds
  <2>2. /\ chain[n] = << >>
        /\ changeRound(n, current[n].round + 1, roundChangeSet[n], highestPrepared[n])
    BY <1>2, ActiveInFirst DEF handleTimeoutMsg
  <2>3. /\ roundChangeSet[n] \in SUBSET RoundChangeMsg /\ roundChangeSet[n] \subseteq msgs
        /\ highestPrepared[n] \in [Rounds -> Prepared]
    BY DEF Types
  <2>4. Rounded(n, current[n].round + 1) /\ Types'
    BY <2>1, <2>2, <2>3, ChangeRoundStep
  <2> QED
    BY <2>1, <2>4, Zenon
<1> QED
  BY <1>1, <1>2, HandleRoundChangeStep, HandleRequestStep, HandleFinalCommittedStep,
     InsertBlockStep, VoteTypes, Zenon DEF Next
=============================================================================
