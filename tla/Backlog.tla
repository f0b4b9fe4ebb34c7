------------------------------- MODULE Backlog -------------------------------
(***************************************************************************)
(* The backlog of one core for one validator, its source                    *)
(* (consensus/istanbul/ibft/core/backlog.go): the priority queue of the     *)
(* messages that came too early, and the events that take them out again.   *)
(* The queues of different sources do not interact.                         *)
(*                                                                          *)
(* Of the core only what checkMessage reads is kept; what moves it (other   *)
(* messages, timeouts, new blocks) is any step that the core can make.  The *)
(* source may leave and join the validator set with every new height.       *)
(***************************************************************************)
EXTENDS Integers, FiniteSets

CONSTANTS
  FirstSequence, LastSequence,  \* bound: the heights the core goes through
  Rounds,                       \* bound: the rounds of a height
  Messages                      \* bound: the messages the source may send

Types == {"Preprepare", "Commit", "Prepare", "RoundChange"}

States == {"AcceptRequest", "Preprepared", "Prepared", "Committed"}

Sequences == FirstSequence .. LastSequence

ASSUME BoundsAssumption ==
  /\ FirstSequence \in Nat /\ LastSequence \in Nat /\ FirstSequence <= LastSequence
  /\ Rounds \subseteq Nat /\ 0 \in Rounds

ASSUME MessagesAssumption ==
  Messages \subseteq [type : Types, seq : Sequences, round : Rounds]

VARIABLES
  core,       \* what checkMessage reads of the core
  validator,  \* the source is in c.valSet
  backlog,    \* c.backlogs[source]
  posted,     \* backlogEvents on their way to the event loop
  owed        \* history: stored messages that have not been handled

vars == <<core, validator, backlog, posted, owed>>

Core == [sequence              : Sequences,
         round                 : Rounds,
         waitingForRoundChange : BOOLEAN,
         state                 : States]

-----------------------------------------------------------------------------
(* checkMessage: a message is future, old, or else current (answer nil).    *)

earlierView(m, c) ==
  m.seq < c.sequence \/ (m.seq = c.sequence /\ m.round < c.round)

laterView(m, c) ==
  m.seq > c.sequence \/ (m.seq = c.sequence /\ m.round > c.round)

isFuture(m, c) ==
  IF m.type = "RoundChange" THEN m.seq > c.sequence
  ELSE \/ laterView(m, c)
       \/ /\ ~ earlierView(m, c)
          /\ \/ c.waitingForRoundChange
             \/ c.state = "AcceptRequest" /\ m.type # "Preprepare"

isOld(m, c) == earlierView(m, c)

isCurrent(m, c) == ~ isFuture(m, c) /\ ~ isOld(m, c)

-----------------------------------------------------------------------------
(* Priorities.                                                              *)

\* The integers below 2^24 are float32 values.
Mantissa == 16777216

\* The powers of two up to 2^30.
Powers ==
  {1, 2, 4, 8, 16, 32, 64, 128, 256, 512, 1024, 2048, 4096, 8192, 16384, 32768, 65536,
   131072, 262144, 524288, 1048576, 2097152, 4194304, 8388608, 16777216, 33554432,
   67108864, 134217728, 268435456, 536870912, 1073741824}

\* The distance between neighbouring float32 values at x (below 2^54).
ulp(x) == CHOOSE g \in Powers :
            /\ x \div Mantissa < g
            /\ g = 1 \/ 2 * (x \div Mantissa) >= g

\* float32(x): 24 significant bits, rounded to the nearest, ties to even.
float32(x) ==
  LET g == ulp(x)
      q == x \div g
      r == x % g
  IN  g * (IF 2 * r > g \/ (2 * r = g /\ q % 2 = 1) THEN q + 1 ELSE q)

\* Mutant of msgPriority: a PRE-PREPARE comes after COMMIT and PREPARE.
msgPriorityLast(type) ==
  CASE type = "Preprepare" -> 3 [] type = "Commit" -> 1 [] type = "Prepare" -> 2

msgPriority(type) ==
  CASE type = "Preprepare" -> 1 [] type = "Commit" -> 2 [] type = "Prepare" -> 3

\* What toPriority converts: the order the queue is meant to have.
weight(m) ==
  IF m.type = "RoundChange" THEN m.seq * 1000
  ELSE m.seq * 1000 + m.round * 10 + msgPriority(m.type)

toPriority(m) == - float32(weight(m))

\* Mutant of popped: the first future message is not pushed back.
poppedForGood(q, c) ==
  {p \in SUBSET q :
     \/ p = q /\ \A m \in q : ~ isFuture(m, c)
     \/ \E f \in p :
          /\ isFuture(f, c)
          /\ \A m \in q : /\ toPriority(m) > toPriority(f) => m \in p /\ ~ isFuture(m, c)
                          /\ m \in p => toPriority(m) >= toPriority(f)}

\* The messages that processBacklog takes out of the queue q: all, or those up
\* to the first future message f in the order of the queue.  The order of
\* messages with the same priority is not defined.
popped(q, c) ==
  {p \in SUBSET q :
     /\ \A m \in p : ~ isFuture(m, c)
     /\ \/ p = q
        \/ \E f \in q : /\ isFuture(f, c)
                        /\ \A m \in q : /\ toPriority(m) > toPriority(f) => m \in p
                                        /\ m \in p => toPriority(m) >= toPriority(f)}

-----------------------------------------------------------------------------
(* Steps of the core.  post and owe are posted and owed without the message *)
(* that is being handled, if there is one.                                  *)

\* setState, which ends with processBacklog; the queue of a source that is not
\* a validator is deleted.
setState(c, member, post, owe) ==
  /\ core' = c
  /\ validator' = member
  /\ IF member
       THEN \E p \in popped(backlog, c) :
              /\ backlog' = backlog \ p
              /\ posted' = post \cup {m \in p : isCurrent(m, c)}
              /\ owed' = owe
       ELSE /\ backlog' = {}
            /\ posted' = post
            /\ owed' = owe \ backlog

\* startNewRound: the next height, whose validators may be others, or a round
\* of the same height.
startNewRound(post, owe) ==
  \/ \E s \in Sequences, member \in BOOLEAN :
       /\ s > core.sequence
       /\ setState([sequence |-> s, round |-> 0, waitingForRoundChange |-> FALSE,
                    state |-> "AcceptRequest"], member, post, owe)
  \/ \E r \in Rounds :
       /\ r > core.round \/ (r = core.round /\ r # 0 /\ core.waitingForRoundChange)
       /\ setState([core EXCEPT !.round = r, !.waitingForRoundChange = FALSE,
                                !.state = "AcceptRequest"], validator, post, owe)

\* catchUpRound does not look at the backlog.
catchUpRound(post, owe) ==
  /\ \E r \in Rounds :
       /\ r > core.round
       /\ core' = [core EXCEPT !.round = r, !.waitingForRoundChange = TRUE]
  /\ posted' = post /\ owed' = owe
  /\ UNCHANGED <<validator, backlog>>

\* The state changes of the handlers of PRE-PREPARE, PREPARE and COMMIT.
nextStates(s) == CASE s = "AcceptRequest" -> {"Preprepared", "Prepared"}
                   [] s = "Preprepared"   -> {"Prepared", "Committed"}
                   [] s = "Prepared"      -> {"Committed"}
                   [] s = "Committed"     -> {}

changeState(post, owe) ==
  /\ ~ core.waitingForRoundChange
  /\ \E s \in nextStates(core.state) :
       setState([core EXCEPT !.state = s], validator, post, owe)

coreStep(post, owe) ==
  \/ startNewRound(post, owe)
  \/ catchUpRound(post, owe)
  \/ changeState(post, owe)

-----------------------------------------------------------------------------
storeBacklog(m) == backlog' = backlog \cup {m} /\ owed' = owed \cup {m}

\* handleCheckedMsg for a message m: a future one goes to the backlog, an old
\* one is dropped, any other is handled, which may move the core.
handleCheckedMsg(m, post) ==
  \/ /\ isFuture(m, core)
     /\ storeBacklog(m)
     /\ posted' = post
     /\ UNCHANGED <<core, validator>>
  \/ /\ isOld(m, core)
     /\ posted' = post
     /\ UNCHANGED <<core, validator, backlog, owed>>
  \/ /\ isCurrent(m, core)
     /\ posted' = post /\ owed' = owed \ {m}
     /\ UNCHANGED <<core, validator, backlog>>
  \/ /\ isCurrent(m, core)
     /\ coreStep(post, owed \ {m})

\* A MessageEvent; one from an address that is not a validator is refused.
handleMsg(m) == validator /\ handleCheckedMsg(m, posted)

handleBacklogEvent(m) == m \in posted /\ handleCheckedMsg(m, posted \ {m})

\* Any other event of the loop: timeouts, new chain heads, other sources.
otherEvent == coreStep(posted, owed)

Init ==
  /\ core = [sequence |-> FirstSequence, round |-> 0,
             waitingForRoundChange |-> FALSE, state |-> "AcceptRequest"]
  /\ validator \in BOOLEAN
  /\ backlog = {} /\ posted = {} /\ owed = {}

Next ==
  \/ \E m \in Messages : handleMsg(m)
  \/ \E m \in posted : handleBacklogEvent(m)
  \/ otherEvent

Spec == Init /\ [][Next]_vars

-----------------------------------------------------------------------------
(* Properties.                                                              *)

TypeOK ==
  /\ core \in Core
  /\ validator \in BOOLEAN
  /\ backlog \subseteq Messages
  /\ posted \subseteq Messages
  /\ owed \subseteq Messages

\* storeBacklog and processBacklog lose nothing: a message that was stored and
\* not handled is in the queue, on its way to the event loop, or old, as long
\* as its source stays a validator.
NothingLost ==
  \A m \in owed : m \in backlog \/ m \in posted \/ isOld(m, core)

\* processBacklog stops at the first future message, and the order of the queue
\* (toPriority) makes that nearly safe: a message that could be handled in the
\* present view and state is left in the queue only behind one that cannot and
\* that toPriority was to put after it, but to which float32 gave the same
\* priority.  (A round above 99 may outweigh the next height: backlog.go, "1000
\* * Sequence limits the range of round is from 0 to 99".)
NoCurrentWaits ==
  \A m \in backlog :
    isCurrent(m, core) /\ (m.type = "RoundChange" \/ m.round <= 99) =>
      \E f \in backlog : /\ ~ isCurrent(f, core)
                         /\ weight(m) < weight(f) /\ toPriority(m) = toPriority(f)

-----------------------------------------------------------------------------
(* What a comment of the source says, and the code does not do.             *)

\* "msgPreprepare > msgCommit > msgPrepare": a PRE-PREPARE that could be handled
\* does not stay in the queue behind a COMMIT or a PREPARE of the same view.
PreprepareGoesFirst ==
  \A m, k \in backlog :
    /\ m.type = "Preprepare" /\ k.type \in {"Commit", "Prepare"}
    /\ m.seq = k.seq /\ m.round = k.round
    => ~ isCurrent(m, core)
=============================================================================
