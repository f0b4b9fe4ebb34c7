----------------------------- MODULE QbftProofs -----------------------------
(***************************************************************************)
(* Proofs about QbftCore within one sequence, for every set of validators,  *)
(* any blocks and any number of rounds: the justifications of the later     *)
(* rounds keep what an earlier round has committed, or may still commit.    *)
(***************************************************************************)
EXTENDS QbftStepProofs

(* The inductive invariant.                                                 *)

Quorum(S) == Cardinality(S) >= quorumSize(1)

\* Who has voted for b in round r, among the messages M.
Voted(M, type, r, b) ==
  {q \in Started : \E x \in M : /\ x.type = type /\ x.src = q
                                /\ x.round = r /\ x.digest = b}

\* Who has committed b in round r or may still do so.
MayCommit(r, b) ==
  Voted(msgs, "Commit", r, b)
    \cup {q \in Started : chain[q] = << >> /\ current[q].round <= r}

\* A core whose height goes on has not yet voted in the rounds to come, and
\* remembers the last round in which it sent a COMMIT.
SentBehind(n, m) ==
  LET cur == current[n] IN
  /\ m.type = "Prepare" =>
       m.round < cur.round \/ (m.round = cur.round /\ state[n] # "AcceptRequest")
  /\ m.type = "Commit" =>
       /\ m.round < cur.round
            \/ (m.round = cur.round /\ state[n] \notin {"AcceptRequest", "Preprepared"})
       /\ cur.prepared # None /\ m.round <= cur.prepared.round
  /\ m.type = "RoundChange" => m.round <= cur.round

\* What was prepared has a quorum of PREPAREs.
PreparedHasQuorum(p) == Quorum(Voted(msgs, "Prepare", p.round, p.block))

CoreInv(n) ==
  chain[n] = << >> =>
    /\ \A m \in msgs : m.src = n => SentBehind(n, m)
    /\ current[n].prepared # None =>
         current[n].prepared.round <= current[n].round
           /\ PreparedHasQuorum(current[n].prepared)

\* Nobody votes or asks for a round twice.
Once ==
  \A x, y \in msgs :
    (/\ x.type \in {"Prepare", "RoundChange"} /\ x.type = y.type
     /\ x.src = y.src /\ x.round = y.round) => x = y

CommitsPrepared ==
  \A m \in msgs : m.type = "Commit" => Quorum(Voted(msgs, "Prepare", m.round, m.digest))

\* A ROUND-CHANGE tells of the last block its sender had prepared.
RoundChangesTell ==
  \A x \in msgs : x.type = "RoundChange" =>
    /\ x.prepared # None => x.prepared.round < x.round /\ PreparedHasQuorum(x.prepared)
    /\ \A c \in msgs : c.type = "Commit" /\ c.src = x.src /\ c.round < x.round
         => x.prepared # None /\ c.round <= x.prepared.round

\* The ROUND-CHANGEs of a PRE-PREPARE were sent, for its round.
Justifications ==
  \A m \in msgs : m.type = "Preprepare" =>
    \A x \in m.rcs : x \in msgs /\ x.round = m.round

\* A block that a quorum has committed or may still commit in a round is the
\* only one that is prepared later.
Safe ==
  \A m \in msgs, r \in Rounds, b \in Proposals :
    m.type = "Prepare" /\ r < m.round /\ Quorum(MayCommit(r, b)) => m.digest = b

EnqueuedCommitted ==
  \A n \in Started : \A b \in enqueued[n] :
    \E r \in Rounds : Quorum(Voted(msgs, "Commit", r, b))

QInv ==
  /\ Types /\ \A n \in Started : CoreInv(n)
  /\ Once /\ CommitsPrepared /\ RoundChangesTell /\ Justifications /\ Safe
  /\ EnqueuedCommitted

-----------------------------------------------------------------------------
(* Quorums.                                                                 *)

\* All that the argument takes from the counting of validators: a set with a
\* quorum in it is one, two quorums meet, and messages of different senders are
\* a quorum when their senders are.
QuorumLaws ==
  /\ \A T \in SUBSET Started : \A S \in SUBSET T : Quorum(S) => Quorum(T)
  /\ OneSequence =>
       \A S, T \in SUBSET Started :
         Quorum(S) /\ Quorum(T) => \E q \in Started : q \in S /\ q \in T
  /\ \A S : /\ \A x \in S : x.src \in Started
            /\ \A x, y \in S : x.src = y.src => x = y
            /\ Cardinality(S) >= quorumSize(1)
            => Quorum({x.src : x \in S})

LEMMA QuorumGrows ==
  ASSUME QuorumLaws, NEW T \in SUBSET Started, NEW S \in SUBSET T, Quorum(S)
  PROVE  Quorum(T)
BY DEF QuorumLaws

LEMMA QuorumsMeet ==
  ASSUME QuorumLaws, OneSequence, NEW S \in SUBSET Started, NEW T \in SUBSET Started,
         Quorum(S), Quorum(T)
  PROVE  \E q \in Started : q \in S /\ q \in T
BY DEF QuorumLaws

LEMMA SendersCounted ==
  ASSUME QuorumLaws, NEW S, \A x \in S : x.src \in Started,
         \A x, y \in S : x.src = y.src => x = y,
         Cardinality(S) >= quorumSize(1)
  PROVE  Quorum({x.src : x \in S})
BY DEF QuorumLaws

-----------------------------------------------------------------------------
(* What every step keeps.                                                   *)

\* Chains and rounds grow, and a COMMIT is of the sender's current round.
Advances ==
  /\ msgs \subseteq msgs'
  /\ \A q \in Started : chain'[q] = << >> =>
       chain[q] = << >> /\ current[q].round <= current'[q].round
  /\ \A m \in msgs' : m.type = "Commit" =>
       m \in msgs \/ (chain[m.src] = << >> /\ m.round = current[m.src].round)

LEMMA VotesKept ==
  ASSUME QuorumLaws, msgs \subseteq msgs', NEW type, NEW r, NEW b, Quorum(Voted(msgs, type, r, b))
  PROVE  Quorum(Voted(msgs', type, r, b))
<1>1. /\ Voted(msgs', type, r, b) \in SUBSET Started
      /\ Voted(msgs, type, r, b) \in SUBSET Voted(msgs', type, r, b)
  BY DEF Voted
<1> QED
  BY <1>1, QuorumGrows

\* Those who may commit b in round r get fewer.
LEMMA MayCommitShrinks ==
  ASSUME QuorumLaws, Types, Types', Advances, NEW r \in Rounds, NEW b \in Proposals,
         Quorum(MayCommit(r, b)')
  PROVE  Quorum(MayCommit(r, b))
<1>1. MayCommit(r, b) \in SUBSET Started
  BY DEF MayCommit, Voted
<1>2. ASSUME NEW q \in MayCommit(r, b)' PROVE q \in MayCommit(r, b)
  <2>1. q \in Started /\ r \in Nat
    BY BoundsAssumption DEF MayCommit, Voted, Rounds
  <2>2. CASE chain'[q] = << >> /\ current'[q].round <= r
    <3>1. /\ chain[q] = << >> /\ current[q].round <= current'[q].round
          /\ current[q].round \in Nat /\ current'[q].round \in Nat
      BY <2>1, <2>2, Parts, BoundsAssumption DEF Advances, Types, RoundState, Rounds
    <3> QED
      BY <2>1, <2>2, <3>1 DEF MayCommit
  <2>3. CASE \E x \in msgs' : /\ x.type = "Commit" /\ x.src = q
                              /\ x.round = r /\ x.digest = b
    <3>1. PICK x \in msgs' : /\ x.type = "Commit" /\ x.src = q
                             /\ x.round = r /\ x.digest = b
      BY <2>3
    <3>2. CASE x \in msgs
      BY <2>1, <3>1, <3>2 DEF MayCommit, Voted
    <3>3. CASE chain[q] = << >> /\ r = current[q].round
      BY <2>1, <3>3 DEF MayCommit
    <3> QED
      BY <3>1, <3>2, <3>3 DEF Advances
  <2> QED
    BY <2>2, <2>3 DEF MayCommit, Voted
<1>3. MayCommit(r, b)' \in SUBSET MayCommit(r, b)
  BY <1>2
<1> QED
  BY <1>1, <1>3, QuorumGrows

\* A step that sends no PREPARE keeps Safe.
LEMMA SafeKept ==
  ASSUME QuorumLaws, Types, Types', Advances, Safe, \A m \in msgs' : m.type = "Prepare" => m \in msgs
  PROVE  Safe'
<1> SUFFICES ASSUME NEW m \in msgs', NEW r \in Rounds, NEW b \in Proposals,
                    m.type = "Prepare", r < m.round, Quorum(MayCommit(r, b)')
             PROVE  m.digest = b
  BY DEF Safe, Quorum
<1>1. Quorum(MayCommit(r, b))
  BY MayCommitShrinks
<1> QED
  BY <1>1 DEF Safe

LEMMA EnqueuedKept ==
  ASSUME QuorumLaws, msgs \subseteq msgs', enqueued' = enqueued, EnqueuedCommitted
  PROVE  EnqueuedCommitted'
<1> SUFFICES ASSUME NEW n \in Started, NEW b \in enqueued[n]
             PROVE  \E r \in Rounds : Quorum(Voted(msgs', "Commit", r, b))
  BY DEF EnqueuedCommitted, Quorum, Voted
<1> QED
  BY VotesKept DEF EnqueuedCommitted

\* The COMMITs that were sent, and new ones with a quorum.
LEMMA CommitsKept ==
  ASSUME QuorumLaws, msgs \subseteq msgs', CommitsPrepared,
         \A m \in msgs' : m.type = "Commit" =>
           m \in msgs \/ Quorum(Voted(msgs, "Prepare", m.round, m.digest))
  PROVE  CommitsPrepared'
<1> SUFFICES ASSUME NEW m \in msgs', m.type = "Commit"
             PROVE  Quorum(Voted(msgs', "Prepare", m.round, m.digest))
  BY DEF CommitsPrepared, Quorum, Voted
<1>1. Quorum(Voted(msgs, "Prepare", m.round, m.digest))
  BY DEF CommitsPrepared
<1> QED
  BY <1>1, VotesKept

LEMMA JustificationsKept ==
  ASSUME msgs \subseteq msgs', Justifications,
         \A m \in msgs' : m.type = "Preprepare" =>
           m \in msgs \/ \A x \in m.rcs : x \in msgs /\ x.round = m.round
  PROVE  Justifications'
BY DEF Justifications

\* RoundChangesTell for the messages that were there.
LEMMA TellKept ==
  ASSUME QuorumLaws, msgs \subseteq msgs', RoundChangesTell,
         NEW x \in msgs, x.type = "RoundChange", x.prepared # None
  PROVE  x.prepared.round < x.round
           /\ Quorum(Voted(msgs', "Prepare", x.prepared.round, x.prepared.block))
<1>1. /\ x.prepared.round < x.round
      /\ Quorum(Voted(msgs, "Prepare", x.prepared.round, x.prepared.block))
  BY DEF RoundChangesTell, PreparedHasQuorum
<1> QED
  BY <1>1, VotesKept

-----------------------------------------------------------------------------
(* The steps keep the invariant.                                            *)

LEMMA QuietKeeps ==
  ASSUME QuorumLaws, QInv, Types', Quiet
  PROVE  QInv'
<1>1. PICK P \in SUBSET PreprepareMsg : Proposes(P)
  BY DEF Quiet
<1>2. /\ msgs \subseteq msgs'
      /\ \A m \in msgs' : m.type # "Preprepare" => m \in msgs
      /\ \A m \in msgs' : m \in msgs \/ \A x \in m.rcs : x \in msgs /\ x.round = m.round
  BY <1>1 DEF Proposes, PreprepareMsg
<1>3. Types /\ Once /\ CommitsPrepared /\ RoundChangesTell /\ Justifications /\ Safe
      /\ EnqueuedCommitted
  BY DEF QInv
<1>4. Advances
  <2>1. \A q \in Started : current[q].round \in Nat
    BY <1>3, Parts
  <2> QED
    BY <1>2, <2>1 DEF Advances, Quiet
<1>5. ASSUME NEW q \in Started PROVE CoreInv(q)'
  <2>1. SUFFICES ASSUME chain'[q] = << >>
                 PROVE  /\ \A m \in msgs' : m.src = q => SentBehind(q, m)'
                        /\ current'[q].prepared # None =>
                             /\ current'[q].prepared.round <= current'[q].round
                             /\ Quorum(Voted(msgs', "Prepare", current'[q].prepared.round,
                                             current'[q].prepared.block))
    BY DEF CoreInv, PreparedHasQuorum, Quorum, Voted
  <2>2. /\ chain[q] = << >> /\ current'[q].round = current[q].round
        /\ current'[q].prepared = current[q].prepared
        /\ state'[q] \in {state[q], "Panic"}
    BY <2>1 DEF Quiet
  <2>3. CoreInv(q)
    BY DEF QInv
  <2>4. ASSUME NEW m \in msgs', m.src = q PROVE SentBehind(q, m)'
    <3>1. CASE m.type = "Preprepare"
      BY <3>1 DEF SentBehind
    <3>2. CASE m.type # "Preprepare"
      <4>1. SentBehind(q, m)
        BY <1>2, <2>2, <2>3, <2>4, <3>2 DEF CoreInv
      <4> QED
        BY <2>2, <4>1 DEF SentBehind
    <3> QED
      BY <3>1, <3>2
  <2>5. ASSUME current[q].prepared # None
        PROVE  /\ current[q].prepared.round <= current[q].round
               /\ Quorum(Voted(msgs', "Prepare", current[q].prepared.round,
                               current[q].prepared.block))
    BY <1>2, <2>2, <2>3, <2>5, VotesKept DEF CoreInv, PreparedHasQuorum
  <2> QED
    BY <2>2, <2>4, <2>5
<1>6. Once'
  BY <1>2, <1>3 DEF Once
<1>7. RoundChangesTell'
  <2> SUFFICES ASSUME NEW x \in msgs', x.type = "RoundChange"
               PROVE  /\ x.prepared # None =>
                           /\ x.prepared.round < x.round
                           /\ Quorum(Voted(msgs', "Prepare", x.prepared.round,
                                           x.prepared.block))
                      /\ \A c \in msgs' : c.type = "Commit" /\ c.src = x.src
                                             /\ c.round < x.round
                           => x.prepared # None /\ c.round <= x.prepared.round
    BY DEF RoundChangesTell, PreparedHasQuorum, Quorum, Voted
  <2>1. x \in msgs
    BY <1>2
  <2> QED
    BY <1>2, <1>3, <2>1, TellKept DEF RoundChangesTell
<1>8. CommitsPrepared'
  BY <1>2, <1>3, CommitsKept
<1>9. Justifications'
  BY <1>2, <1>3, JustificationsKept
<1>10. Safe'
  BY <1>2, <1>3, <1>4, SafeKept
<1>11. EnqueuedCommitted'
  BY <1>2, <1>3, EnqueuedKept DEF Quiet
<1> QED
  BY <1>5, <1>6, <1>7, <1>8, <1>9, <1>10, <1>11 DEF QInv

LEMMA RoundedKeeps ==
  ASSUME QuorumLaws, QInv, Types', NEW n \in Started, NEW r \in Rounds, Rounded(n, r)
  PROVE  QInv'
<1>1. Types /\ Once /\ CommitsPrepared /\ RoundChangesTell /\ Justifications /\ Safe
      /\ EnqueuedCommitted /\ CoreInv(n)
  BY DEF QInv
<1>2. PICK rc : /\ msgs' = msgs \cup {rc}
                /\ rc.type = "RoundChange" /\ rc.src = n /\ rc.round = r
                /\ rc.prepared = current[n].prepared
  <2> DEFINE sent == [type |-> "RoundChange", src |-> n, seq |-> 1, round |-> r,
                      prepared |-> current[n].prepared,
                      justification |-> preparedPrepares[n]]
  <2>1. /\ msgs' = msgs \cup {sent}
        /\ sent.type = "RoundChange" /\ sent.src = n /\ sent.round = r
        /\ sent.prepared = current[n].prepared
    BY DEF Rounded
  <2> HIDE DEF sent
  <2> QED
    BY <2>1
<1>3. /\ chain' = chain /\ enqueued' = enqueued /\ chain[n] = << >>
      /\ current[n].round < r /\ r \in Nat /\ current[n].round \in Nat
  <2>1. r \in Nat /\ current[n].round \in Nat
    BY <1>1, Parts, RoundsAreNumbers
  <2> QED
    BY <2>1 DEF Rounded
<1>4. /\ current'[n].round = r /\ current'[n].prepared = current[n].prepared
      /\ state'[n] = "AcceptRequest"
      /\ \A q \in Started \ {n} : current'[q] = current[q] /\ state'[q] = state[q]
  BY <1>1 DEF Rounded, Types, newRoundState
<1>5. Advances
  <2>1. \A q \in Started : current[q].round \in Nat
    BY <1>1, Parts
  <2>2. \A q \in Started : current[q].round <= current'[q].round
    BY <1>3, <1>4, <2>1
  <2>3. \A m \in msgs' : m.type = "Commit" => m \in msgs
    BY <1>2
  <2>4. msgs \subseteq msgs'
    BY <1>2
  <2> QED
    BY <1>3, <2>2, <2>3, <2>4 DEF Advances
\* What n has sent is of its rounds before r.
<1>6. /\ \A m \in msgs : m.src = n => SentBehind(n, m)
      /\ current[n].prepared # None =>
           /\ current[n].prepared.round <= current[n].round
           /\ Quorum(Voted(msgs, "Prepare", current[n].prepared.round,
                           current[n].prepared.block))
  BY <1>1, <1>3 DEF CoreInv, PreparedHasQuorum
<1>7. ASSUME current[n].prepared # None
      PROVE  /\ current[n].prepared.round \in Nat /\ current[n].prepared.round < r
             /\ Quorum(Voted(msgs', "Prepare", current[n].prepared.round,
                             current[n].prepared.block))
  <2>1. current[n].prepared \in [round : Rounds, block : Proposals]
    BY <1>1, <1>7, Parts DEF Prepared
  <2>2. current[n].prepared.round \in Nat
    BY <2>1, BoundsAssumption DEF Rounds
  <2>3. msgs \subseteq msgs'
    BY <1>2
  <2> QED
    BY <1>3, <1>6, <1>7, <2>2, <2>3, VotesKept
<1>8. ASSUME NEW q \in Started PROVE CoreInv(q)'
  <2>1. SUFFICES ASSUME chain'[q] = << >>
                 PROVE  /\ \A m \in msgs' : m.src = q => SentBehind(q, m)'
                        /\ current'[q].prepared # None =>
                             /\ current'[q].prepared.round <= current'[q].round
                             /\ Quorum(Voted(msgs', "Prepare", current'[q].prepared.round,
                                             current'[q].prepared.block))
    BY DEF CoreInv, PreparedHasQuorum, Quorum, Voted
  <2>2. CASE q = n
    <3>1. ASSUME NEW m \in msgs, m.src = n PROVE SentBehind(n, m)'
      <4>1. SentBehind(n, m) /\ m.round \in Nat
        BY <1>1, <1>6, <3>1, MessageParts
      <4>2. m.type \in {"Prepare", "Commit", "RoundChange"} => m.round < r
        BY <1>3, <4>1 DEF SentBehind
      <4>3. m.type = "Commit" => current[n].prepared # None
                                   /\ m.round <= current[n].prepared.round
        BY <4>1 DEF SentBehind
      <4> QED
        BY <1>3, <1>4, <4>1, <4>2, <4>3 DEF SentBehind
    <3>2. SentBehind(n, rc)'
      BY <1>2, <1>3, <1>4 DEF SentBehind
    <3>3. \A m \in msgs' : m.src = n => SentBehind(n, m)'
      BY <1>2, <3>1, <3>2
    <3>4. current'[n].prepared # None =>
            /\ current'[n].prepared.round <= current'[n].round
            /\ Quorum(Voted(msgs', "Prepare", current'[n].prepared.round,
                            current'[n].prepared.block))
      BY <1>3, <1>4, <1>7
    <3> QED
      BY <2>2, <3>3, <3>4
  <2>3. CASE q # n
    <3>1. CoreInv(q) /\ chain[q] = << >> /\ current'[q] = current[q]
          /\ state'[q] = state[q]
      BY <1>3, <1>4, <2>1, <2>3 DEF QInv
    <3>2. ASSUME NEW m \in msgs', m.src = q PROVE SentBehind(q, m)'
      <4>1. m \in msgs
        BY <1>2, <2>3, <3>2
      <4>2. SentBehind(q, m)
        BY <3>1, <3>2, <4>1 DEF CoreInv
      <4> QED
        BY <3>1, <4>2 DEF SentBehind
    <3>3. msgs \subseteq msgs'
      BY <1>2
    <3>4. ASSUME current[q].prepared # None
          PROVE  /\ current[q].prepared.round <= current[q].round
                 /\ Quorum(Voted(msgs', "Prepare", current[q].prepared.round,
                                 current[q].prepared.block))
      BY <3>1, <3>3, <3>4, VotesKept DEF CoreInv, PreparedHasQuorum
    <3> QED
      BY <3>1, <3>2, <3>4
  <2> QED
    BY <2>2, <2>3
<1>9. Once'
  <2>1. ASSUME NEW m \in msgs, m.type = "RoundChange", m.src = n PROVE m.round # r
    <3>1. m.round \in Nat /\ SentBehind(n, m)
      BY <1>1, <1>6, <2>1, MessageParts
    <3>2. m.round <= current[n].round
      BY <2>1, <3>1 DEF SentBehind
    <3> QED
      BY <1>3, <3>1, <3>2
  <2> QED
    BY <1>1, <1>2, <2>1 DEF Once
<1>10. RoundChangesTell'
  <2> SUFFICES ASSUME NEW x \in msgs', x.type = "RoundChange"
               PROVE  /\ x.prepared # None =>
                           /\ x.prepared.round < x.round
                           /\ Quorum(Voted(msgs', "Prepare", x.prepared.round,
                                           x.prepared.block))
                      /\ \A c \in msgs' : c.type = "Commit" /\ c.src = x.src
                                             /\ c.round < x.round
                           => x.prepared # None /\ c.round <= x.prepared.round
    BY DEF RoundChangesTell, PreparedHasQuorum, Quorum, Voted
  <2>1. \A c \in msgs' : c.type = "Commit" => c \in msgs
    BY <1>2
  <2>2. CASE x \in msgs
    <3>1. msgs \subseteq msgs'
      BY <1>2
    <3> QED
      BY <1>1, <2>1, <2>2, <3>1, TellKept DEF RoundChangesTell
  <2>3. CASE x = rc
    <3>1. ASSUME NEW c \in msgs, c.type = "Commit", c.src = n
          PROVE  current[n].prepared # None /\ c.round <= current[n].prepared.round
      BY <1>6, <3>1 DEF SentBehind
    <3> QED
      BY <1>2, <1>7, <2>1, <2>3, <3>1
  <2> QED
    BY <1>2, <2>2, <2>3
<1>11. CommitsPrepared'
  BY <1>1, <1>2, CommitsKept
<1>12. Justifications'
  BY <1>1, <1>2, JustificationsKept
<1>13. Safe'
  BY <1>1, <1>2, <1>5, SafeKept
<1>14. EnqueuedCommitted'
  BY <1>1, <1>2, <1>3, EnqueuedKept
<1> QED
  BY <1>8, <1>9, <1>10, <1>11, <1>12, <1>13, <1>14 DEF QInv

\* A quorum of votes that a core counts is one.
LEMMA VotersVoted ==
  ASSUME QuorumLaws, Types, NEW n \in Started, current[n].sequence = 1, NEW type,
         Cardinality(voters(type, n)) >= quorumSize(current[n].sequence)
  PROVE  Quorum(Voted(msgs, type, current[n].round, current[n].preprepare))
<1>1. /\ Voted(msgs, type, current[n].round, current[n].preprepare) \in SUBSET Started
      /\ voters(type, n) \in SUBSET
           Voted(msgs, type, current[n].round, current[n].preprepare)
  BY MessageParts DEF voters, Voted, checkMessage
<1>2. Quorum(voters(type, n))
  BY DEF Quorum
<1> QED
  BY <1>1, <1>2, QuorumGrows

\* CoreInv of a core to which nothing has happened.
LEMMA CoreInvKept ==
  ASSUME QuorumLaws, NEW q \in Started, CoreInv(q), msgs \subseteq msgs', chain'[q] = chain[q],
         current'[q] = current[q], state'[q] = state[q],
         \A m \in msgs' : m.src = q => m \in msgs
  PROVE  CoreInv(q)'
<1> SUFFICES ASSUME chain[q] = << >>
             PROVE  /\ \A m \in msgs' : m.src = q => SentBehind(q, m)'
                    /\ current[q].prepared # None =>
                         /\ current[q].prepared.round <= current[q].round
                         /\ Quorum(Voted(msgs', "Prepare", current[q].prepared.round,
                                         current[q].prepared.block))
  BY DEF CoreInv, PreparedHasQuorum, Quorum, Voted
<1>1. ASSUME NEW m \in msgs', m.src = q PROVE SentBehind(q, m)'
  <2>1. SentBehind(q, m)
    BY <1>1 DEF CoreInv
  <2> QED
    BY <2>1 DEF SentBehind
<1>2. ASSUME current[q].prepared # None
      PROVE  /\ current[q].prepared.round <= current[q].round
             /\ Quorum(Voted(msgs', "Prepare", current[q].prepared.round,
                             current[q].prepared.block))
  BY <1>2, VotesKept DEF CoreInv, PreparedHasQuorum
<1> QED
  BY <1>1, <1>2

LEMMA PrepareKeeps ==
  ASSUME QuorumLaws, OneSequence, QInv, Types', NEW n \in Started, handlePrepare(n)
  PROVE  QInv'
<1>1. Types /\ Once /\ CommitsPrepared /\ RoundChangesTell /\ Justifications /\ Safe
      /\ EnqueuedCommitted /\ CoreInv(n)
  BY DEF QInv
<1>2. chain[n] = << >> /\ current[n].sequence = 1
  BY <1>1, VoteTypes
<1>3. PICK v : /\ msgs' = msgs \cup {v}
               /\ v.type = "Commit" /\ v.src = n /\ v.round = current[n].round
               /\ v.digest = current[n].preprepare
  <2> DEFINE sent == vote("Commit", n, current[n].preprepare)
  <2>1. /\ msgs' = msgs \cup {sent}
        /\ sent.type = "Commit" /\ sent.src = n /\ sent.round = current[n].round
        /\ sent.digest = current[n].preprepare
    BY DEF handlePrepare, vote
  <2> HIDE DEF sent
  <2> QED
    BY <2>1
<1>4. Quorum(Voted(msgs, "Prepare", current[n].round, current[n].preprepare))
  BY <1>1, <1>2, VotersVoted DEF handlePrepare
<1>5. /\ chain' = chain /\ enqueued' = enqueued
      /\ state[n] = "Preprepared" /\ state'[n] = "Prepared"
      /\ current'[n].round = current[n].round
      /\ current'[n].prepared
           = [round |-> current[n].round, block |-> current[n].preprepare]
      /\ \A q \in Started \ {n} : current'[q] = current[q] /\ state'[q] = state[q]
  BY <1>1, Parts DEF handlePrepare, Types, RoundState
<1>6. \A q \in Started : current[q].round \in Nat
  BY <1>1, Parts
<1>7. Advances
  BY <1>2, <1>3, <1>5, <1>6 DEF Advances
<1>8. \A m \in msgs : m.src = n => SentBehind(n, m) /\ m.round \in Nat
  BY <1>1, <1>2, MessageParts DEF CoreInv
<1>9. msgs \subseteq msgs'
  BY <1>3
<1>10. current'[n].prepared # None
  <2>1. current[n].preprepare \in Proposals
    BY <1>1, <1>5 DEF Types
  <2> QED
    BY <1>1, <1>5, <2>1, Parts, ProposalsAssumption
<1>11. CoreInv(n)'
  <2> SUFFICES /\ \A m \in msgs' : m.src = n => SentBehind(n, m)'
               /\ current'[n].prepared.round <= current'[n].round
               /\ Quorum(Voted(msgs', "Prepare", current'[n].prepared.round,
                               current'[n].prepared.block))
    BY DEF CoreInv, PreparedHasQuorum, Quorum, Voted
  <2>1. ASSUME NEW m \in msgs, m.src = n PROVE SentBehind(n, m)'
    <3>1. SentBehind(n, m) /\ m.round \in Nat
      BY <1>8, <2>1
    <3>2. /\ m.type \in {"Prepare", "RoundChange"} => m.round <= current[n].round
          /\ m.type = "Commit" => m.round < current[n].round
      BY <1>5, <1>6, <3>1 DEF SentBehind
    <3>3. m.type \in {"Prepare", "RoundChange", "Commit"} =>
            m.round < current[n].round \/ m.round = current[n].round
      BY <1>6, <3>1, <3>2
    <3>4. current'[n].prepared.round = current[n].round
      BY <1>5
    <3>5. /\ m.type = "RoundChange" => m.round <= current'[n].round
          /\ m.type = "Commit" => /\ m.round < current'[n].round
                                  /\ m.round <= current'[n].prepared.round
          /\ m.type = "Prepare" => m.round < current'[n].round
                                     \/ m.round = current'[n].round
      BY <1>5, <1>6, <3>1, <3>2, <3>3, <3>4
    <3>6. state'[n] # "AcceptRequest"
      BY <1>5
    <3> QED
      BY <1>10, <3>5, <3>6 DEF SentBehind
  <2>2. SentBehind(n, v)'
    <3>1. v.round <= current'[n].prepared.round /\ v.round = current'[n].round
      BY <1>3, <1>5, <1>6
    <3> QED
      BY <1>3, <1>5, <1>10, <3>1 DEF SentBehind
  <2>3. Quorum(Voted(msgs', "Prepare", current[n].round, current[n].preprepare))
    BY <1>4, <1>9, VotesKept
  <2>4. \A m \in msgs' : m.src = n => SentBehind(n, m)'
    BY <1>3, <2>1, <2>2
  <2>5. /\ current'[n].prepared.round = current[n].round
        /\ current'[n].prepared.block = current[n].preprepare
        /\ current'[n].prepared.round <= current'[n].round
    BY <1>5, <1>6
  <2> QED
    BY <2>3, <2>4, <2>5
<1>12. ASSUME NEW q \in Started PROVE CoreInv(q)'
  <2>1. CASE q # n
    <3>1. CoreInv(q)
      BY DEF QInv
    <3> QED
      BY <1>3, <1>5, <1>9, <2>1, <3>1, CoreInvKept
  <2> QED
    BY <1>11, <2>1
<1>13. Once'
  BY <1>1, <1>3 DEF Once
<1>14. RoundChangesTell'
  <2> SUFFICES ASSUME NEW x \in msgs', x.type = "RoundChange"
               PROVE  /\ x.prepared # None =>
                           /\ x.prepared.round < x.round
                           /\ Quorum(Voted(msgs', "Prepare", x.prepared.round,
                                           x.prepared.block))
                      /\ \A c \in msgs' : c.type = "Commit" /\ c.src = x.src
                                             /\ c.round < x.round
                           => x.prepared # None /\ c.round <= x.prepared.round
    BY DEF RoundChangesTell, PreparedHasQuorum, Quorum, Voted
  <2>1. x \in msgs
    BY <1>3
  <2>2. ~(x.src = n /\ v.round < x.round)
    BY <1>3, <1>6, <1>8, <2>1 DEF SentBehind
  <2> QED
    BY <1>1, <1>3, <1>9, <2>1, <2>2, TellKept DEF RoundChangesTell
<1>15. CommitsPrepared'
  BY <1>1, <1>3, <1>4, <1>9, CommitsKept
<1>16. Justifications'
  BY <1>1, <1>3, JustificationsKept
<1>17. Safe'
  BY <1>1, <1>3, <1>7, SafeKept
<1>18. EnqueuedCommitted'
  BY <1>1, <1>5, <1>9, EnqueuedKept
<1> QED
  BY <1>12, <1>13, <1>14, <1>15, <1>16, <1>17, <1>18 DEF QInv

LEMMA CommitKeeps ==
  ASSUME QuorumLaws, OneSequence, QInv, Types', NEW n \in Started, handleCommitMsg(n)
  PROVE  QInv'
<1>1. Types /\ Once /\ CommitsPrepared /\ RoundChangesTell /\ Justifications /\ Safe
      /\ EnqueuedCommitted /\ CoreInv(n)
  BY DEF QInv
<1>2. chain[n] = << >> /\ current[n].sequence = 1
  BY <1>1, VoteTypes
<1>3. Quorum(Voted(msgs, "Commit", current[n].round, current[n].preprepare))
  BY <1>1, <1>2, VotersVoted DEF handleCommitMsg
<1>4. /\ UNCHANGED <<current, chain, msgs>>
      /\ state[n] = "Prepared" /\ state'[n] = "Committed"
      /\ \A q \in Started \ {n} : state'[q] = state[q] /\ enqueued'[q] = enqueued[q]
      /\ enqueued'[n] = enqueued[n] \cup {current[n].preprepare}
  BY <1>1 DEF handleCommitMsg, Types
<1>5. Advances
  BY <1>1, <1>4, Parts DEF Advances
<1>6. CoreInv(n)'
  BY <1>1, <1>4 DEF CoreInv, SentBehind, PreparedHasQuorum, Quorum, Voted
<1>7. ASSUME NEW q \in Started PROVE CoreInv(q)'
  <2>1. CASE q # n
    <3>1. CoreInv(q)
      BY DEF QInv
    <3> QED
      BY <1>4, <2>1, <3>1, CoreInvKept
  <2> QED
    BY <1>6, <2>1
<1>8. Once' /\ CommitsPrepared' /\ RoundChangesTell' /\ Justifications'
  BY <1>1, <1>4, Zenon DEF Once, CommitsPrepared, RoundChangesTell, Justifications,
                    PreparedHasQuorum, Quorum, Voted
<1>9. Safe'
  BY <1>1, <1>4, <1>5, SafeKept
<1>10. EnqueuedCommitted'
  <2> SUFFICES ASSUME NEW q \in Started, NEW b \in enqueued'[q]
               PROVE  \E r \in Rounds : Quorum(Voted(msgs', "Commit", r, b))
    BY Zenon DEF EnqueuedCommitted, Quorum, Voted
  <2>1. CASE b \in enqueued[q]
    BY <1>1, <1>4, <2>1 DEF EnqueuedCommitted
  <2>2. CASE b = current[n].preprepare
    BY <1>1, <1>3, <1>4, <2>2, Parts
  <2> QED
    BY <1>4, <2>1, <2>2
<1> QED
  BY <1>7, <1>8, <1>9, <1>10 DEF QInv

-----------------------------------------------------------------------------
(* Why a justified PRE-PREPARE is safe.                                     *)

\* No two blocks are prepared in one round.
LEMMA SamePrepared ==
  ASSUME QuorumLaws, OneSequence, Once, NEW r, NEW b, NEW c,
         Quorum(Voted(msgs, "Prepare", r, b)), Quorum(Voted(msgs, "Prepare", r, c))
  PROVE  b = c
<1>1. /\ Voted(msgs, "Prepare", r, b) \in SUBSET Started
      /\ Voted(msgs, "Prepare", r, c) \in SUBSET Started
  BY DEF Voted
<1>2. PICK q \in Started : /\ q \in Voted(msgs, "Prepare", r, b)
                           /\ q \in Voted(msgs, "Prepare", r, c)
  BY <1>1, QuorumsMeet
<1>3. PICK x \in msgs : x.type = "Prepare" /\ x.src = q /\ x.round = r /\ x.digest = b
  BY <1>2 DEF Voted
<1>4. PICK y \in msgs : y.type = "Prepare" /\ y.src = q /\ y.round = r /\ y.digest = c
  BY <1>2 DEF Voted
<1>5. x = y
  BY <1>3, <1>4 DEF Once
<1> QED
  BY <1>3, <1>4, <1>5

\* Only a block that may be committed in an earlier round is prepared later.
LEMMA LaterPrepared ==
  ASSUME QuorumLaws, OneSequence, Safe, NEW k, NEW c, Quorum(Voted(msgs, "Prepare", k, c)),
         NEW r \in Rounds, NEW b \in Proposals, r < k, Quorum(MayCommit(r, b))
  PROVE  c = b
<1>1. Voted(msgs, "Prepare", k, c) \in SUBSET Started
  BY DEF Voted
<1>2. PICK q \in Started : q \in Voted(msgs, "Prepare", k, c)
  BY <1>1, QuorumsMeet
<1>3. PICK x \in msgs : x.type = "Prepare" /\ x.src = q /\ x.round = k /\ x.digest = c
  BY <1>2 DEF Voted
<1> QED
  BY <1>3 DEF Safe

\* Of a quorum of ROUND-CHANGEs for a later round, one is from a validator that
\* has committed b in round r, and tells so.
LEMMA QuorumTells ==
  ASSUME QuorumLaws, OneSequence, QInv, NEW k, NEW S \in SUBSET msgs,
         \A x \in S : x.type = "RoundChange" /\ x.round = k,
         Cardinality(S) >= quorumSize(1),
         NEW r \in Rounds, NEW b \in Proposals, r < k, Quorum(MayCommit(r, b))
  PROVE  /\ \E x \in S : x.prepared # None /\ r <= x.prepared.round
         /\ \E c \in msgs : c.type = "Commit" /\ c.round = r /\ c.digest = b
<1>1. Types /\ Once /\ RoundChangesTell
  BY DEF QInv
<1>2. \A x \in S : x.src \in Started /\ x.round \in Nat
  BY <1>1, MessageParts
<1>3. \A x, y \in S : x.src = y.src => x = y
  BY <1>1 DEF Once
<1>4. Quorum({x.src : x \in S})
  BY <1>2, <1>3, SendersCounted
<1>5. {x.src : x \in S} \in SUBSET Started /\ MayCommit(r, b) \in SUBSET Started
  BY <1>2 DEF MayCommit, Voted
<1>6. PICK q \in Started : q \in {x.src : x \in S} /\ q \in MayCommit(r, b)
  BY <1>4, <1>5, QuorumsMeet
<1>7. PICK x \in S : x.src = q
  BY <1>6
<1>8. ~(chain[q] = << >> /\ current[q].round <= r)
  <2> SUFFICES ASSUME chain[q] = << >>, current[q].round <= r
               PROVE  FALSE
    OBVIOUS
  <2>1. SentBehind(q, x)
    BY <1>7 DEF QInv, CoreInv
  <2>2. x.round <= current[q].round
    BY <1>7, <2>1 DEF SentBehind
  <2>3. x.round \in Nat /\ current[q].round \in Nat /\ r \in Nat
    BY <1>1, <1>2, <1>7, Parts, RoundsAreNumbers
  <2> QED
    BY <1>7, <2>2, <2>3
<1>9. PICK c \in msgs : c.type = "Commit" /\ c.src = q /\ c.round = r /\ c.digest = b
  BY <1>6, <1>8 DEF MayCommit, Voted
<1>10. x.prepared # None /\ r <= x.prepared.round
  BY <1>1, <1>7, <1>9 DEF RoundChangesTell
<1> QED
  BY <1>9, <1>10

LEMMA JustifiedSafe ==
  ASSUME QuorumLaws, OneSequence, QInv, NEW m \in msgs, m.type = "Preprepare", justified(m),
         NEW r \in Rounds, NEW b \in Proposals, r < m.round, Quorum(MayCommit(r, b))
  PROVE  m.digest = b
<1>1. Types /\ Once /\ CommitsPrepared /\ RoundChangesTell /\ Justifications /\ Safe
  BY DEF QInv
<1>2. /\ m.seq = 1 /\ m.round \in Nat /\ r \in Nat
      /\ m.rcs \subseteq RoundChangeMsg /\ m.prepares \in Prepared
  BY <1>1, MessageParts, BoundsAssumption DEF Rounds, PreprepareMsg
<1>3. isJustified(m.digest, m.rcs, m.prepares, quorumSize(1))
  BY <1>2 DEF justified
<1>4. \A x \in m.rcs : x \in msgs /\ x.type = "RoundChange" /\ x.round = m.round
  BY <1>1, <1>2 DEF Justifications, RoundChangeMsg
<1>5. ASSUME NEW S \in SUBSET m.rcs, Cardinality(S) >= quorumSize(1)
      PROVE  /\ \E x \in S : x.prepared # None /\ r <= x.prepared.round
             /\ \E c \in msgs : c.type = "Commit" /\ c.round = r /\ c.digest = b
  <2>1. /\ S \in SUBSET msgs
        /\ \A x \in S : x.type = "RoundChange" /\ x.round = m.round
    BY <1>4
  <2> QED
    BY <1>5, <2>1, QuorumTells
<1>6. m.prepares # None
  <2> SUFFICES ASSUME m.prepares = None PROVE FALSE
    OBVIOUS
  <2> DEFINE S == {x \in m.rcs : x.prepared = None}
  <2>1. S \in SUBSET m.rcs /\ Cardinality(S) >= quorumSize(1)
    BY <1>3 DEF isJustified, hasQuorumForNil
  <2>2. \A x \in S : x.prepared = None
    OBVIOUS
  <2> HIDE DEF S
  <2> QED
    BY <1>5, <2>1, <2>2
<1>7. /\ m.prepares.block = m.digest /\ hasQuorumForPrepared(m.rcs, m.prepares, quorumSize(1))
  BY <1>3, <1>6 DEF isJustified
<1> DEFINE S == {x \in m.rcs : x.prepared = None \/ x.prepared.round <= m.prepares.round}
<1>8. S \in SUBSET m.rcs /\ Cardinality(S) >= quorumSize(1)
  BY <1>7 DEF hasQuorumForPrepared
<1>9. \A x \in S : x.prepared = None \/ x.prepared.round <= m.prepares.round
  OBVIOUS
<1> HIDE DEF S
<1>10. PICK x \in S : x.prepared # None /\ r <= x.prepared.round
  BY <1>5, <1>8
<1>11. PICK c \in msgs : c.type = "Commit" /\ c.round = r /\ c.digest = b
  BY <1>5, <1>8
<1>12. PICK y \in m.rcs : y.prepared = m.prepares
  BY <1>7 DEF hasQuorumForPrepared
\* The block of the PRE-PREPARE was prepared, not before round r.
<1>13. Quorum(Voted(msgs, "Prepare", m.prepares.round, m.digest))
  BY <1>1, <1>4, <1>6, <1>7, <1>12 DEF RoundChangesTell, PreparedHasQuorum
<1>14. m.prepares.round \in Nat /\ r <= m.prepares.round
  <2>1. x.prepared \in Prepared
    BY <1>2, <1>8, <1>10 DEF RoundChangeMsg
  <2>2. x.prepared.round \in Nat /\ m.prepares.round \in Nat
    BY <1>2, <1>6, <1>10, <2>1, RoundsAreNumbers, Zenon
  <2>3. x.prepared.round <= m.prepares.round /\ r <= x.prepared.round
    BY <1>9, <1>10
  <2> QED
    BY <1>2, <2>2, <2>3
<1>15. CASE m.prepares.round = r
  <2>1. Quorum(Voted(msgs, "Prepare", r, b))
    BY <1>1, <1>11 DEF CommitsPrepared
  <2> QED
    BY <1>1, <1>13, <1>15, <2>1, SamePrepared
<1>16. CASE r < m.prepares.round
  BY <1>1, <1>13, <1>16, LaterPrepared
<1> QED
  BY <1>2, <1>14, <1>15, <1>16

LEMMA PreprepareKeeps ==
  ASSUME QuorumLaws, OneSequence, QInv, Types', NEW n \in Started, NEW m \in msgs,
         handlePreprepareMsg(n, m)
  PROVE  QInv'
<1>1. Types /\ Once /\ CommitsPrepared /\ RoundChangesTell /\ Justifications /\ Safe
      /\ EnqueuedCommitted /\ CoreInv(n)
  BY DEF QInv
<1>2. chain[n] = << >>
  BY <1>1, VoteTypes
<1>3. PICK v : /\ msgs' = msgs \cup {v}
               /\ v.type = "Prepare" /\ v.src = n /\ v.round = current[n].round
               /\ v.digest = m.digest
  <2> DEFINE sent == vote("Prepare", n, m.digest)
  <2>1. /\ msgs' = msgs \cup {sent}
        /\ sent.type = "Prepare" /\ sent.src = n /\ sent.round = current[n].round
        /\ sent.digest = m.digest
    BY DEF handlePreprepareMsg, vote
  <2> HIDE DEF sent
  <2> QED
    BY <2>1
<1>4. m.type = "Preprepare" /\ justified(m) /\ m.round = current[n].round
  BY DEF handlePreprepareMsg, checkMessage
<1>5. /\ chain' = chain /\ enqueued' = enqueued
      /\ state[n] = "AcceptRequest" /\ state'[n] = "Preprepared"
      /\ current'[n].round = current[n].round
      /\ current'[n].prepared = current[n].prepared
      /\ \A q \in Started \ {n} : current'[q] = current[q] /\ state'[q] = state[q]
  BY <1>1, Parts DEF handlePreprepareMsg, Types, RoundState
<1>6. \A q \in Started : current[q].round \in Nat
  BY <1>1, Parts
<1>7. Advances
  BY <1>2, <1>3, <1>5, <1>6 DEF Advances
<1>8. \A x \in msgs : x.src = n => SentBehind(n, x) /\ x.round \in Nat
  BY <1>1, <1>2, MessageParts DEF CoreInv
<1>9. msgs \subseteq msgs'
  BY <1>3, Zenon
<1>10. CoreInv(n)'
  <2> SUFFICES /\ \A x \in msgs' : x.src = n => SentBehind(n, x)'
               /\ current'[n].prepared # None =>
                    /\ current'[n].prepared.round <= current'[n].round
                    /\ Quorum(Voted(msgs', "Prepare", current'[n].prepared.round,
                                    current'[n].prepared.block))
    BY DEF CoreInv, PreparedHasQuorum, Quorum, Voted
  <2>1. ASSUME NEW x \in msgs, x.src = n PROVE SentBehind(n, x)'
    <3>1. SentBehind(n, x) /\ x.round \in Nat
      BY <1>8, <2>1, Zenon
    <3> QED
      BY <1>5, <1>6, <3>1 DEF SentBehind
  <2>2. SentBehind(n, v)'
    BY <1>3, <1>5, Zenon DEF SentBehind
  <2>3. ASSUME current[n].prepared # None
        PROVE  /\ current[n].prepared.round <= current[n].round
               /\ Quorum(Voted(msgs', "Prepare", current[n].prepared.round,
                               current[n].prepared.block))
    BY <1>1, <1>2, <1>9, <2>3, VotesKept DEF CoreInv, PreparedHasQuorum
  <2> QED
    BY <1>3, <1>5, <2>1, <2>2, <2>3
<1>11. ASSUME NEW q \in Started PROVE CoreInv(q)'
  <2>1. CASE q # n
    <3>1. CoreInv(q)
      BY DEF QInv
    <3> QED
      BY <1>3, <1>5, <1>9, <2>1, <3>1, CoreInvKept
  <2> QED
    BY <1>10, <2>1
<1>12. Once'
  <2>1. ASSUME NEW x \in msgs, x.type = "Prepare", x.src = n PROVE x.round # v.round
    <3>1. SentBehind(n, x) /\ x.round \in Nat
      BY <1>8, <2>1
    <3>2. x.round < current[n].round
      BY <1>5, <2>1, <3>1, Zenon DEF SentBehind
    <3> QED
      BY <1>3, <1>6, <3>1, <3>2
  <2> QED
    BY <1>1, <1>3, <2>1 DEF Once
<1>13. RoundChangesTell'
  <2> SUFFICES ASSUME NEW x \in msgs', x.type = "RoundChange"
               PROVE  /\ x.prepared # None =>
                           /\ x.prepared.round < x.round
                           /\ Quorum(Voted(msgs', "Prepare", x.prepared.round,
                                           x.prepared.block))
                      /\ \A c \in msgs' : c.type = "Commit" /\ c.src = x.src
                                             /\ c.round < x.round
                           => x.prepared # None /\ c.round <= x.prepared.round
    BY DEF RoundChangesTell, PreparedHasQuorum, Quorum, Voted
  <2>1. x \in msgs /\ \A c \in msgs' : c.type = "Commit" => c \in msgs
    BY <1>3
  <2> QED
    BY <1>1, <1>9, <2>1, TellKept DEF RoundChangesTell
<1>14. CommitsPrepared'
  BY <1>1, <1>3, <1>9, CommitsKept
<1>15. Justifications'
  BY <1>1, <1>3, <1>9, JustificationsKept
<1>16. Safe'
  <2> SUFFICES ASSUME NEW x \in msgs', NEW r \in Rounds, NEW b \in Proposals,
                      x.type = "Prepare", r < x.round, Quorum(MayCommit(r, b)')
               PROVE  x.digest = b
    BY DEF Safe, Quorum
  <2>1. Quorum(MayCommit(r, b))
    BY <1>1, <1>7, MayCommitShrinks
  <2>2. CASE x \in msgs
    BY <1>1, <2>1, <2>2 DEF Safe
  <2>3. CASE x = v
    BY <1>3, <1>4, <2>1, <2>3, JustifiedSafe
  <2> QED
    BY <1>3, <2>2, <2>3
<1>17. EnqueuedCommitted'
  BY <1>1, <1>5, <1>9, EnqueuedKept, Zenon
<1> QED
  BY <1>11, <1>12, <1>13, <1>14, <1>15, <1>16, <1>17 DEF QInv

-----------------------------------------------------------------------------
(* The theorems.                                                            *)

LEMMA InitQInv ==
  ASSUME Init PROVE QInv
<1>1. Types
  <2>1. newRoundState(1, 0, None, None, None) \in RoundState
        /\ newRoundState(1, 0, None, None, None).sequence = 1
    <3>1. 0 \in Rounds /\ None \in Prepared
      BY RoundsAreNumbers DEF Prepared
    <3> QED
      BY <3>1 DEF newRoundState, RoundState
  <2>2. Nothing \in [Rounds -> Prepared]
    BY DEF Nothing, Prepared
  <2>3. current \in [Started -> RoundState]
        /\ \A n \in Started : current[n].sequence = 1
    BY <2>1 DEF Init
  <2>4. chain \in [Started -> Seq(Proposals)]
    BY DEF Init
  <2> QED
    BY <2>2, <2>3, <2>4 DEF Init, Types, Prepared
<1>2. msgs = {} /\ \A n \in Started : enqueued[n] = {} /\ current[n].prepared = None
  BY DEF Init, newRoundState
<1> QED
  BY <1>1, <1>2 DEF QInv, CoreInv, Once, CommitsPrepared, RoundChangesTell, Justifications,
                    Safe, EnqueuedCommitted

LEMMA NextQInv ==
  ASSUME QuorumLaws, OneSequence, QInv, [Next]_vars PROVE QInv'
<1>1. Types
  BY DEF QInv
<1> QED
  BY <1>1, StepKinds, QuietKeeps, RoundedKeeps, PreprepareKeeps, PrepareKeeps, CommitKeeps

\* Two blocks with a quorum of COMMITs each are one.
LEMMA OneCommitted ==
  ASSUME QuorumLaws, OneSequence, QInv, NEW r \in Rounds, NEW k \in Rounds,
         NEW b \in Proposals, NEW c \in Proposals,
         Quorum(Voted(msgs, "Commit", r, b)), Quorum(Voted(msgs, "Commit", k, c)), r <= k
  PROVE  b = c
<1>1. Types /\ Once /\ CommitsPrepared /\ Safe
  BY DEF QInv
<1>2. ASSUME NEW x \in Rounds, NEW d \in Proposals, Quorum(Voted(msgs, "Commit", x, d))
      PROVE  Quorum(Voted(msgs, "Prepare", x, d)) /\ Quorum(MayCommit(x, d))
  <2>1. /\ Voted(msgs, "Commit", x, d) \in SUBSET Started
        /\ MayCommit(x, d) \in SUBSET Started
        /\ Voted(msgs, "Commit", x, d) \in SUBSET MayCommit(x, d)
    BY DEF Voted, MayCommit
  <2>2. PICK q \in Started : q \in Voted(msgs, "Commit", x, d)
    BY <1>2, <2>1, QuorumsMeet
  <2>3. PICK m \in msgs : m.type = "Commit" /\ m.round = x /\ m.digest = d
    BY <2>2 DEF Voted
  <2> QED
    BY <1>1, <1>2, <2>1, <2>3, QuorumGrows DEF CommitsPrepared
<1>3. CASE r = k
  BY <1>1, <1>2, <1>3, SamePrepared
<1>4. CASE r < k
  BY <1>1, <1>2, <1>4, LaterPrepared
<1>5. r \in Nat /\ k \in Nat
  BY BoundsAssumption DEF Rounds
<1> QED
  BY <1>3, <1>4, <1>5

LEMMA QInvAgreement ==
  ASSUME QuorumLaws, OneSequence, QInv,
         NEW n \in Started, NEW p \in Started, NEW b \in enqueued[n], NEW c \in enqueued[p]
  PROVE  b = c
<1>1. b \in Proposals /\ c \in Proposals
  BY Zenon DEF QInv, Types
<1>2. PICK r \in Rounds : Quorum(Voted(msgs, "Commit", r, b))
  BY DEF QInv, EnqueuedCommitted
<1>3. PICK k \in Rounds : Quorum(Voted(msgs, "Commit", k, c))
  BY DEF QInv, EnqueuedCommitted
<1>4. r <= k \/ k <= r
  BY BoundsAssumption DEF Rounds
<1>5. CASE r <= k
  BY <1>1, <1>2, <1>3, <1>5, OneCommitted
<1>6. CASE k <= r
  BY <1>1, <1>2, <1>3, <1>6, OneCommitted, Zenon
<1> QED
  BY <1>4, <1>5, <1>6

-----------------------------------------------------------------------------
(* The quorums do as the argument says.                                     *)
INSTANCE FiniteSetTheorems

LEMMA Finite ==
  /\ IsFiniteSet(Started) /\ Cardinality(Started) <= Len(valSet)
  /\ Len(valSet) \in Nat \ {0} /\ quorumSize(1) \in Nat
<1>1. Len(valSet) \in Nat \ {0}
  BY ValSetAssumption
<1>2. IsFiniteSet(Started) /\ Cardinality(Started) <= Len(valSet)
  BY ValSetAssumption, FS_Subset
<1>3. quorumSize(1) \in Nat
  BY <1>1, BoundsAssumption DEF quorumSize, QuorumSize, F
<1> QED
  BY <1>1, <1>2, <1>3

\* Sets of started validators are finite.
LEMMA Counted ==
  ASSUME NEW S \in SUBSET Started
  PROVE  IsFiniteSet(S) /\ Cardinality(S) \in Nat
BY Finite, FS_Subset, FS_CardinalityType

\* Messages with different senders are as many as their senders.
LEMMA SendersFew ==
  ASSUME NEW S, \A x \in S : x.src \in Started,
         \A x, y \in S : x.src = y.src => x = y
  PROVE  /\ Cardinality(S) \in Nat /\ Cardinality({x.src : x \in S}) \in Nat
         /\ Cardinality(S) <= Cardinality({x.src : x \in S})
<1> DEFINE T == {x.src : x \in S}
           f == [x \in S |-> x.src]
<1>1. T \in SUBSET Started
  OBVIOUS
<1>2. IsFiniteSet(T) /\ Cardinality(T) \in Nat
  BY <1>1, Counted
<1>3. f \in Injection(S, T)
  BY DEF Injection, IsInjective
<1>4. IsFiniteSet(S) /\ Cardinality(S) <= Cardinality(T)
  BY <1>2, <1>3, FS_Injection
<1> QED
  BY <1>2, <1>4, FS_CardinalityType

LEMMA QuorumLawsHold == QuorumLaws
<1>1. ASSUME NEW T \in SUBSET Started, NEW S \in SUBSET T, Quorum(S)
      PROVE  Quorum(T)
  <2>1. IsFiniteSet(T) /\ Cardinality(T) \in Nat
    BY Counted
  <2>2. Cardinality(S) \in Nat /\ Cardinality(S) <= Cardinality(T)
    BY <2>1, FS_Subset, FS_CardinalityType
  <2> QED
    BY <1>1, <2>1, <2>2, Finite DEF Quorum
<1>2. ASSUME OneSequence, NEW S \in SUBSET Started, NEW T \in SUBSET Started,
             Quorum(S), Quorum(T)
      PROVE  \E q \in Started : q \in S /\ q \in T
  <2>1. /\ IsFiniteSet(S) /\ Cardinality(S) \in Nat
        /\ IsFiniteSet(T) /\ Cardinality(T) \in Nat
    BY Counted
  <2>2. S \cup T \in SUBSET Started /\ S \cap T \in SUBSET Started
    OBVIOUS
  <2>3. /\ Cardinality(S \cup T) \in Nat /\ Cardinality(S \cap T) \in Nat
        /\ IsFiniteSet(S \cap T)
    BY <2>2, Counted
  <2>4. Cardinality(S \cup T) <= Cardinality(Started)
    BY <2>2, Finite, FS_Subset
  <2>5. Cardinality(S \cup T) = Cardinality(S) + Cardinality(T) - Cardinality(S \cap T)
    BY <2>1, FS_Union
  <2>6. Cardinality(Started) \in Nat
    BY Finite, FS_CardinalityType
  <2>7. Cardinality(S \cap T) # 0
    BY <1>2, <2>1, <2>3, <2>4, <2>5, <2>6, Finite DEF Quorum, OneSequence
  <2>8. S \cap T # {}
    BY <2>7, FS_EmptySet
  <2> QED
    BY <2>8
<1>3. ASSUME NEW S, \A x \in S : x.src \in Started,
             \A x, y \in S : x.src = y.src => x = y,
             Cardinality(S) >= quorumSize(1)
      PROVE  Quorum({x.src : x \in S})
  BY <1>3, SendersFew, Finite DEF Quorum
<1> QED
  BY <1>1, <1>2, <1>3 DEF QuorumLaws

LEMMA QInvCommittedStays ==
  ASSUME OneSequence, QInv
  PROVE  CommittedStays
<1> SUFFICES ASSUME NEW c \in msgs, c.type = "Commit",
                    ~(Cardinality({x \in msgs : /\ x.type = "Commit" /\ x.digest = c.digest
                                                /\ x.seq = c.seq /\ x.round = c.round})
                        < quorumSize(c.seq)),
                    NEW m \in msgs, m.type = "Prepare", m.round > c.round
             PROVE  m.digest = c.digest
  BY DEF CommittedStays
<1> DEFINE S == {x \in msgs : /\ x.type = "Commit" /\ x.digest = c.digest
                              /\ x.seq = c.seq /\ x.round = c.round}
<1>1. Types /\ Safe
  BY DEF QInv
<1>2. c.seq = 1 /\ c.round \in Rounds /\ c.digest \in Proposals /\ c.round \in Nat
      /\ m.round \in Nat
  BY <1>1, MessageParts
<1>3. \A x \in S : x \in VoteMsg /\ x.src \in Started
  BY <1>1, MessageParts
<1>4. \A x, y \in S : x.src = y.src => x = y
  BY <1>3 DEF VoteMsg
<1>5. {x.src : x \in S} \in SUBSET MayCommit(c.round, c.digest)
  BY <1>3 DEF MayCommit, Voted
<1>6. MayCommit(c.round, c.digest) \in SUBSET Started
  BY DEF MayCommit, Voted
<1>7. ~(Cardinality(S) < quorumSize(1))
  BY <1>2
<1> HIDE DEF S
<1>8. Quorum(MayCommit(c.round, c.digest))
  <2>1. Cardinality(S) \in Nat
    BY <1>3, <1>4, SendersFew, Zenon
  <2>2. Cardinality(S) >= quorumSize(1)
    BY <1>7, <2>1, Finite
  <2>3. Quorum({x.src : x \in S})
    BY <1>3, <1>4, <2>2, SendersCounted, QuorumLawsHold
  <2> QED
    BY <1>5, <1>6, <2>3, QuorumGrows, QuorumLawsHold, Zenon
<1> QED
  BY <1>1, <1>2, <1>8 DEF Safe

LEMMA QInvTold ==
  ASSUME QInv
  PROVE  PreparedTold
<1>1. Types /\ RoundChangesTell
  BY DEF QInv
<1> SUFFICES ASSUME NEW x \in msgs, x.type = "RoundChange", x.prepared # None
             PROVE  Cardinality(Preparers(x.seq, x.prepared.round, x.prepared.block))
                      >= quorumSize(x.seq)
  BY <1>1 DEF PreparedTold, RoundChangesTell
<1>2. x.seq = 1
  BY <1>1, MessageParts
<1>3. \A m \in msgs : m.type = "Prepare" => m.seq = 1 /\ m.src \in Started
  BY <1>1, MessageParts
<1>4. Voted(msgs, "Prepare", x.prepared.round, x.prepared.block)
        = Preparers(1, x.prepared.round, x.prepared.block)
  BY <1>3 DEF Voted, Preparers
<1> QED
  BY <1>1, <1>2, <1>4 DEF RoundChangesTell, PreparedHasQuorum, Quorum

LEMMA QInvAlways ==
  ASSUME OneSequence
  PROVE  Spec => []QInv
<1>1. Init => QInv
  BY InitQInv
<1>2. QInv /\ [Next]_vars => QInv'
  BY NextQInv, QuorumLawsHold
<1> QED
  BY <1>1, <1>2, PTL DEF Spec

\* Of one sequence whose quorums overlap: once a quorum has sent COMMITs for a
\* block every PREPARE of a later round is for it.  The justification of a
\* PRE-PREPARE (isJustified), which is all that binds a validator to what an
\* earlier round has prepared, is enough for that, whatever the order in which
\* messages, timeouts and insertions come.
THEOREM JustificationsSuffice ==
  ASSUME OneSequence
  PROVE  Spec => []CommittedStays
<1>1. QInv => CommittedStays
  BY QInvCommittedStays
<1> QED
  BY <1>1, QInvAlways, PTL

\* Of one sequence whose quorums overlap: the prepared block that a ROUND-CHANGE
\* names has a quorum of PREPAREs, and its round is not below that of any COMMIT
\* its sender has sent (handlePrepare, updateRoundState, broadcastRoundChange).
THEOREM RoundChangesTellPrepared ==
  ASSUME OneSequence
  PROVE  Spec => []PreparedTold
<1>1. QInv => PreparedTold
  BY QInvTold
<1> QED
  BY <1>1, QInvAlways, PTL

\* Of one sequence whose quorums overlap no two validators commit different
\* blocks: what handleCommitMsg gives to backend.Commit is the same block in all.
THEOREM QbftAgreement ==
  ASSUME OneSequence
  PROVE  Spec => []Agreement
<1>1. QInv => Agreement
  BY QInvAgreement, QuorumLawsHold DEF Agreement
<1> QED
  BY <1>1, QInvAlways, PTL

\* The quorum of ceil(2N/3) validators (QuorumSize from Ceil2Nby3Block on) is
\* one whose sets overlap, for every number of validators.
THEOREM CeilQuorumsOverlap ==
  ASSUME Ceil2Nby3Block <= 1
  PROVE  2 * quorumSize(1) > Len(valSet)
<1>1. Len(valSet) \in Nat \ {0}
  BY ValSetAssumption
<1>2. quorumSize(1) = (2 * Len(valSet) + 2) \div 3
  BY BoundsAssumption DEF quorumSize
<1> QED
  BY <1>1, <1>2
=============================================================================
