-------------------------- MODULE ReorgSourceProofs --------------------------
(* Proofs about ReorgSource, for every chain, number of reorgs, set of sinks,
   page size, window and channel capacity. *)
EXTENDS ReorgSource, CheckpointStoreProofs, SequenceTheorems, WellFoundedInduction, FiniteSetTheorems

-----------------------------------------------------------------------------
(* Constants and operators.                                                  *)

\* Block numbers are naturals up to the greatest height; an ack may be one past
\* it.
LEMMA NumberFacts ==
    /\ MaxHeight \in Nat /\ MaxReorgs \in Nat /\ FromBlock \in Nat /\ StartHeight \in Nat
    /\ FromBlock \in Numbers /\ FromBlock \in Blocks /\ StartHeight \in Numbers
    /\ 0 \in Numbers /\ 0 \in Blocks /\ 0 \in Epochs
    /\ Numbers \subseteq Nat /\ Epochs \subseteq Nat /\ Blocks \subseteq Nat /\ Numbers \subseteq Blocks
    /\ \A n \in Int : n \in Numbers <=> (0 <= n /\ n <= MaxHeight)
    /\ \A n \in Int : n \in Blocks <=> (0 <= n /\ n <= MaxHeight + 1)
    /\ \A n \in Int : n \in Epochs <=> (0 <= n /\ n <= MaxReorgs)
    /\ \A x \in Logs : x[1] \in Numbers /\ x[2] \in Epochs
BY ReorgAssumption DEF Numbers, Epochs

\* The other constants.
LEMMA LimitFacts ==
    /\ Hashes \in SerialKeys /\ Hashes \in Keys
    /\ Lags \subseteq Nat /\ MaxPage \in Nat \ {0} /\ Window \in Nat \ {0} /\ Capacity \in Nat \ {0}
    /\ Absent \in Int /\ Absent < 0 /\ Absent \notin Nat
BY ReorgAssumption, BoundsAssumption DEF Absent

\* There is one source, so a sink and its pair are the same thing.
LEMMA PairFacts ==
    /\ \A s \in Sinks : Pair(s) \in Pairs /\ Pair(s)[2] = s
    /\ \A p \in Pairs : p[2] \in Sinks /\ p = Pair(p[2])
BY ReorgAssumption DEF Pairs, Pair

\* A set of natural numbers that is not empty has a least element.
LEMMA LeastElement ==
    ASSUME NEW T \in SUBSET Nat, T # {}
    PROVE  \E x \in T : \A y \in T : x <= y
<1> DEFINE R == {ss \in Nat \X Nat : ss[1] < ss[2]}
<1>1. IsWellFoundedOn(R, Nat)
  BY NatLessThanWellFounded DEF OpToRel
<1> HIDE DEF R
<1>2. PICK x \in T : \A y \in T : ~ (<<y, x>> \in R)
  BY <1>1, WFMin
<1>3. ASSUME NEW y \in T PROVE x <= y
  <2>1. <<y, x>> \notin R
    BY <1>2
  <2>2. x \in Nat /\ y \in Nat
    OBVIOUS
  <2> QED
    BY <2>1, <2>2 DEF R
<1> QED
  BY <1>2, <1>3

\* What IsFirst chooses exists.
LEMMA FirstExists ==
    ASSUME NEW T \in SUBSET Numbers, T # {}
    PROVE  LET b == CHOOSE c \in T : IsFirst(c, T) IN b \in T /\ \A c \in T : b <= c
<1>1. T \in SUBSET Nat
  BY NumberFacts
<1>2. PICK x \in T : \A y \in T : x <= y
  BY <1>1, LeastElement
<1>3. IsFirst(x, T)
  BY <1>2 DEF IsFirst
<1>4. IsFirst(CHOOSE c \in T : IsFirst(c, T), T)
  BY <1>3
<1> QED
  BY <1>4 DEF IsFirst

\* What IsLast chooses exists: block numbers are bounded.
LEMMA LastExists ==
    ASSUME NEW T \in SUBSET Numbers, T # {}
    PROVE  LET b == CHOOSE c \in T : IsLast(c, T) IN b \in T /\ \A c \in T : c <= b
<1> DEFINE U == {MaxHeight - c : c \in T}
<1>0. \A c \in T : c \in Nat /\ c <= MaxHeight
  BY NumberFacts
<1>1. U \in SUBSET Nat /\ U # {}
  <2>1. MaxHeight \in Nat
    BY NumberFacts
  <2> QED
    BY <1>0, <2>1
<1>2. PICK u \in U : \A v \in U : u <= v
  BY <1>1, LeastElement
<1>3. PICK x \in T : u = MaxHeight - x
  BY <1>2
<1>4. ASSUME NEW c \in T PROVE c <= x
  <2>1. MaxHeight - x <= MaxHeight - c
    BY <1>2, <1>3
  <2> QED
    BY <1>0, <2>1, NumberFacts
<1>5. IsLast(x, T)
  BY <1>3, <1>4 DEF IsLast
<1>6. IsLast(CHOOSE c \in T : IsLast(c, T), T)
  BY <1>5
<1> QED
  BY <1>6 DEF IsLast

\* The window's operators return windows.
LEMMA WindowTypes ==
    ASSUME NEW t \in HashWindow
    PROVE  /\ NoHashes \in HashWindow
           /\ Trim(t) \in HashWindow
           /\ Known(t) \subseteq Numbers
           /\ \A f \in Int : PurgeAfter(t, f) \in HashWindow
           /\ \A r : r.chain \in [Numbers -> Epochs] => Record(t, r) \in HashWindow
<1>1. ASSUME NEW u \in HashWindow PROVE Trim(u) \in HashWindow
  BY DEF Trim, HashWindow
<1>2. ASSUME NEW r, r.chain \in [Numbers -> Epochs] PROVE Record(t, r) \in HashWindow
  <2>1. [b \in Numbers |-> IF b \in Carries(r) THEN r.chain[b] ELSE t[b]] \in HashWindow
    BY <1>2 DEF HashWindow
  <2> QED
    BY <1>1, <2>1 DEF Record
<1> QED
  BY <1>1, <1>2 DEF HashWindow, NoHashes, Known, PurgeAfter

\* The rows of part of a chain are rows.
LEMMA RowsOfType ==
    ASSUME NEW chain, NEW from, NEW to
    PROVE  RowsOf(chain, from, to) \in SUBSET Logs
BY DEF RowsOf

\* The block a restart resumes from is a block, not below the configured start.
LEMMA RestartPointType ==
    ASSUME TypeOK
    PROVE  LET b == RestartPoint(RestoreFrom(disk, Src, Sinks)) IN b \in Blocks /\ b >= FromBlock
<1> DEFINE saved == RestoreFrom(disk, Src, Sinks)
<1>1. saved \in Cursor
  <2>1. CASE Sinks = {} \/ \E s \in Sinks : disk[<<Src, s>>] = Absent
    BY <2>1, CursorIsInt DEF RestoreFrom
  <2>2. CASE ~(Sinks = {} \/ \E s \in Sinks : disk[<<Src, s>>] = Absent)
    <3> DEFINE T == {disk[<<Src, s>>] : s \in Sinks}
    <3>1. \A s \in Sinks : disk[<<Src, s>>] \in Blocks
      BY <2>2, PairFacts DEF TypeOK, Cursor, Pair
    <3>2. T # {} /\ T \in SUBSET Nat /\ T \subseteq Blocks
      BY <2>2, <3>1, NumberFacts
    <3>3. \E n \in T : \A m \in T : n <= m
      BY <3>2, LeastElement
    <3>4. \E n \in T : \A s \in Sinks : n <= disk[<<Src, s>>]
      BY <3>3
    <3>5. saved = CHOOSE n \in T : \A s \in Sinks : n <= disk[<<Src, s>>]
      BY <2>2 DEF RestoreFrom
    <3>6. saved \in T
      BY <3>4, <3>5
    <3> QED
      BY <3>2, <3>6 DEF Cursor
  <2> QED
    BY <2>1, <2>2
<1> HIDE DEF saved
<1>2. RestartPoint(saved) \in Blocks /\ RestartPoint(saved) >= FromBlock
  BY <1>1, NumberFacts DEF RestartPoint, Greatest, Cursor
<1> QED
  BY <1>2 DEF saved

-----------------------------------------------------------------------------
(* The batches of a sink.                                                    *)

\* A batch added to a channel.
LEMMA ChannelAppend ==
    ASSUME NEW q \in Seq(Message), NEW m \in Message
    PROVE  /\ Append(q, m) \in Seq(Message) /\ Len(q) \in Nat /\ DOMAIN q = 1..Len(q)
           /\ Len(Append(q, m)) = Len(q) + 1 /\ DOMAIN Append(q, m) = 1..(Len(q) + 1)
           /\ \A i \in 1..Len(q) : Append(q, m)[i] = q[i] /\ q[i] \in Message
           /\ Append(q, m)[Len(q) + 1] = m
BY AppendProperties, LenProperties, ElementOfSeq

\* A channel whose first batch is taken.
LEMMA ChannelTail ==
    ASSUME NEW q \in Seq(Message), q # <<>>
    PROVE  /\ Head(q) \in Message /\ Head(q) = q[1]
           /\ Tail(q) \in Seq(Message) /\ Len(q) \in Nat \ {0}
           /\ DOMAIN q = 1..Len(q) /\ DOMAIN Tail(q) = 1..(Len(q) - 1)
           /\ \A i \in 1..(Len(q) - 1) : Tail(q)[i] = q[i + 1]
           /\ 1 \in DOMAIN q
<1>1. Len(q) \in Nat /\ DOMAIN q = 1..Len(q) /\ Len(q) # 0
  BY LenProperties, EmptySeq
<1>2. /\ Head(q) \in Message /\ Tail(q) \in Seq(Message) /\ Len(Tail(q)) = Len(q) - 1
      /\ \A i \in 1..Len(Tail(q)) : Tail(q)[i] = q[i + 1]
  BY HeadTailProperties
<1>3. Head(q) = q[1]
  OBVIOUS
<1>4. DOMAIN Tail(q) = 1..Len(Tail(q))
  BY <1>2, LenProperties
<1> QED
  BY <1>1, <1>2, <1>3, <1>4

\* The empty channel.
LEMMA ChannelEmpty == <<>> \in Seq(Message) /\ DOMAIN <<>> = {}
BY EmptySeq

-----------------------------------------------------------------------------
(* Types, and the lag behind the head.                                       *)

\* What the types say of one sink and of its batches.
LEMMA SinkFacts ==
    ASSUME RTypeOK, NEW s \in Sinks
    PROVE  /\ inbox[s] \in Seq(Message)
           /\ stage[s] \in {"recv", "written", "rewinding"}
           /\ table[s] \in SUBSET Logs
           /\ DOMAIN inbox[s] \subseteq Nat /\ \A i \in DOMAIN inbox[s] : inbox[s][i] \in Message
<1>1. inbox[s] \in Seq(Message) /\ stage[s] \in {"recv", "written", "rewinding"} /\ table[s] \in SUBSET Logs
  BY DEF RTypeOK
<1>2. Len(inbox[s]) \in Nat /\ DOMAIN inbox[s] = 1..Len(inbox[s])
  BY <1>1, LenProperties
<1>3. \A i \in 1..Len(inbox[s]) : inbox[s][i] \in Message
  BY <1>1, ElementOfSeq
<1> QED
  BY <1>1, <1>2, <1>3

\* The batch a sink has in hand.
LEMMA InHandFacts ==
    ASSUME RTypeOK, StepInv, NEW s \in Sinks, inbox[s] # <<>> \/ stage[s] # "recv"
    PROVE  /\ inbox[s] # <<>> /\ InHand(s) \in Message
           /\ InHand(s).ack \in Blocks
           /\ InHand(s).fork # Absent => InHand(s).fork \in Numbers /\ InHand(s).fork + 1 \in Blocks
           /\ Tail(inbox[s]) \in Seq(Message)
<1>1. inbox[s] # <<>> /\ inbox[s] \in Seq(Message)
  BY DEF StepInv, RTypeOK
<1>2. InHand(s) \in Message /\ Tail(inbox[s]) \in Seq(Message)
  BY <1>1, ChannelTail DEF InHand
<1>3. InHand(s).ack \in Blocks /\ InHand(s).fork \in Numbers \cup {Absent}
  BY <1>2 DEF Message
<1>4. \A n \in Numbers : n + 1 \in Blocks
  BY ReorgAssumption DEF Numbers
<1> QED
  BY <1>1, <1>2, <1>3, <1>4

\* Every step is a step of the store, or none.
LEMMA StoreStep ==
    ASSUME RTypeOK, StepInv, [RNext]_rvars
    PROVE  [Next]_vars
<1>1. CASE Mine \/ (\E f \in 1..height : Reorg(f)) \/ Poll \/ EmitRows \/ SendRollback
  BY <1>1 DEF Mine, Reorg, Poll, EmitRows, SendRollback
<1>2. CASE LoadMiss \/ Load
  BY <1>2, LimitFacts DEF LoadMiss, Load, Next, KvNext
<1>3. CASE Remember \/ LocateFork
  BY <1>3, LimitFacts DEF Remember, LocateFork, Save, Next, KvNext
<1>4. ASSUME NEW s \in Sinks, SinkStep(s) PROVE [Next]_vars
  <2>1. CASE Write(s)
    BY <2>1 DEF Write
  <2>2. CASE AckBatch(s)
    BY <2>2, InHandFacts, PairFacts DEF AckBatch, Next, SinkNext
  <2>3. CASE BeginRewind(s)
    BY <2>3, InHandFacts, PairFacts DEF BeginRewind, Next, SinkNext
  <2>4. CASE EndRewind(s)
    BY <2>4, PairFacts DEF EndRewind, Next, SinkNext
  <2>5. CASE GiveUp(s)
    BY <2>5 DEF GiveUp, Next
  <2> QED
    BY <1>4, <2>1, <2>2, <2>3, <2>4, <2>5 DEF SinkStep
<1>5. CASE Tick \/ Drain
  BY <1>5 DEF Tick, Drain, Next, CheckpointNext
<1>6. CASE Kill \/ Restart
  BY <1>6 DEF Kill, Restart, Next
<1>7. CASE UNCHANGED rvars
  BY <1>7 DEF rvars
<1> QED
  BY <1>1, <1>2, <1>3, <1>4, <1>5, <1>6, <1>7 DEF RNext

\* The program starts in its types.
LEMMA RTypeInit == RInit => RTypeOK
<1> SUFFICES ASSUME RInit PROVE RTypeOK
  OBVIOUS
<1> USE NumberFacts
<1>1. TypeOK
  BY TypeInit DEF RInit
<1>2. born \in [Numbers -> Epochs] /\ resp \in [first : Numbers, scanned : Blocks, next : Blocks, chain : [Numbers -> Epochs]]
  BY DEF RInit, NoResp
<1>3. NoHashes \in HashWindow
  BY DEF NoHashes, HashWindow
<1>4. tracker \in HashWindow /\ trackerAt \in [Version -> HashWindow]
  BY <1>3 DEF RInit
<1>5. /\ inbox \in [Sinks -> Seq(Message)] /\ table \in [Sinks -> SUBSET Logs]
      /\ stage \in [Sinks -> {"recv", "written", "rewinding"}]
  BY ChannelEmpty DEF RInit
<1>6. torn \in BOOLEAN /\ ahead \in BOOLEAN
  BY Zenon DEF RInit
<1> QED
  BY <1>1, <1>2, <1>4, <1>5, <1>6 DEF RInit, RTypeOK

\* A batch sent keeps the channels in their types.
LEMMA SendTypes ==
    ASSUME RTypeOK, NEW m \in Message, Send(m)
    PROVE  inbox' \in [Sinks -> Seq(Message)]
<1>1. \A s \in Sinks : inbox[s] \in Seq(Message)
  BY DEF RTypeOK
<1>2. \A s \in Sinks : Append(inbox[s], m) \in Seq(Message)
  BY <1>1, ChannelAppend
<1> QED
  BY <1>1, <1>2 DEF Send

\* A difference that saturates at zero.
LEMMA Saturates ==
    ASSUME NEW a \in Int, a <= MaxHeight
    PROVE  Greatest(a, 0) \in Numbers /\ Greatest(a, 0) >= a /\ Greatest(a, 0) \in {a, 0}
BY NumberFacts DEF Greatest

\* The fork that locate_fork finds is a block.
LEMMA ForkType ==
    ASSUME RTypeOK, NEW upto \in 0..cursor, NEW f,
           LET matching == Matching(tracker, born, upto) IN
           f = IF matching = {} THEN Coarse(tracker) ELSE CHOOSE b \in matching : IsLast(b, matching)
    PROVE  f \in Numbers
<1> DEFINE matching == Matching(tracker, born, upto)
<1>1. matching \in SUBSET Numbers /\ Known(tracker) \in SUBSET Numbers
  BY DEF Matching, Known
<1>2. CASE matching # {}
  BY <1>1, <1>2, LastExists
<1>3. CASE matching = {} /\ Known(tracker) = {}
  <2>1. cursor \in Nat /\ cursor <= MaxHeight + 1 /\ Window \in Nat
    BY NumberFacts, LimitFacts DEF RTypeOK
  <2>2. f = Greatest(cursor - (Window + 1), 0)
    BY <1>3 DEF Coarse
  <2>3. cursor - (Window + 1) \in Int /\ cursor - (Window + 1) <= MaxHeight
    BY <2>1, NumberFacts
  <2> QED
    BY <2>1, <2>2, <2>3, Saturates
<1>4. CASE matching = {} /\ Known(tracker) # {}
  <2> DEFINE first == CHOOSE b \in Known(tracker) : IsFirst(b, Known(tracker))
  <2>1. first \in Numbers /\ first \in Nat /\ MaxHeight \in Nat
    BY <1>1, <1>4, FirstExists, NumberFacts
  <2>2. f = Greatest(first - 1, 0)
    BY <1>4 DEF Coarse
  <2> HIDE DEF first
  <2>3. first - 1 \in Int /\ first - 1 <= MaxHeight
    BY <2>1, NumberFacts
  <2> QED
    BY <2>2, <2>3, Saturates
<1> QED
  BY <1>2, <1>3, <1>4

\* The chain and the source loop keep the variables in their types.
LEMMA SourceTypes ==
    ASSUME RTypeOK, StepInv, TypeOK',
           \/ Mine \/ (\E f \in 1..height : Reorg(f)) \/ LoadMiss \/ Load \/ Poll
           \/ EmitRows \/ Remember \/ LocateFork \/ SendRollback
    PROVE  RTypeOK'
<1> USE DEF chainVars, sourceVars, sinkVars, noteVars
<1>1. CASE Mine
  <2>1. height' \in Numbers
    BY <1>1, NumberFacts DEF Mine, RTypeOK
  <2> QED
    BY <1>1, <2>1 DEF Mine, RTypeOK
<1>2. ASSUME NEW f \in 1..height, Reorg(f) PROVE RTypeOK'
  <2>1. epoch' \in Epochs /\ epoch + 1 \in Epochs
    BY <1>2, NumberFacts DEF Reorg, RTypeOK
  <2>2. born' \in [Numbers -> Epochs]
    BY <1>2, <2>1 DEF Reorg, RTypeOK
  <2> QED
    BY <1>2, <2>1, <2>2 DEF Reorg, RTypeOK
<1>3. CASE LoadMiss
  BY <1>3 DEF LoadMiss, RTypeOK
<1>4. CASE Load
  <2>1. trackerAt[filling[Hashes]] \in HashWindow
    BY <1>4, LimitFacts DEF Load, KvGetFill, RTypeOK, TypeOK
  <2>2. tracker' \in HashWindow
    BY <1>4, <2>1, WindowTypes DEF Load, Loaded
  <2>3. vouched' \in Int
    <3> DEFINE saved == trackerAt[filling[Hashes]]
    <3> DEFINE newest == CHOOSE b \in Known(saved) : IsLast(b, Known(saved))
    <3>1. Known(saved) # {} => newest \in Numbers
      <4>1. Known(saved) \in SUBSET Numbers
        BY DEF Known
      <4> HIDE DEF saved
      <4> QED
        BY <4>1, LastExists
    <3>2. vouched' = vouched \/ (Known(saved) # {} /\ vouched' = Greatest(vouched, newest))
      BY <1>4 DEF Load
    <3> HIDE DEF newest, saved
    <3>3. vouched \in Int
      BY DEF RTypeOK
    <3>4. Known(saved) # {} => newest \in Nat
      BY <3>1, NumberFacts
    <3> QED
      BY <3>2, <3>3, <3>4 DEF Greatest
  <2> QED
    BY <1>4, <2>2, <2>3 DEF Load, RTypeOK
<1>5. CASE Poll
  <2>1. PICK scanned \in (cursor + 1) .. Least(cursor + MaxPage, height + 1), archive \in {height, Absent} :
          \/ loop' = "locate" /\ UNCHANGED <<resp, blind>>
          \/ /\ loop' = "emit"
             /\ resp' = [first |-> cursor, scanned |-> scanned, next |-> PlanStep(scanned, archive), chain |-> born]
             /\ blind' = blind \cup {x \in RowsOf(born, cursor, PlanStep(scanned, archive)) : archive = Absent /\ ~HasLag(x)}
    BY <1>5 DEF Poll
  <2>2. cursor \in Nat /\ height \in Nat /\ height <= MaxHeight /\ confirmations \in Nat
    BY NumberFacts, LimitFacts DEF RTypeOK
  <2>3. scanned \in Nat /\ cursor < scanned /\ scanned <= height + 1
    BY <2>2, LimitFacts DEF Least
  <2>4. PlanStep(scanned, archive) \in Nat /\ PlanStep(scanned, archive) <= scanned
    BY <2>2, <2>3 DEF PlanStep, Least
  <2>5. cursor \in Numbers /\ scanned \in Blocks /\ PlanStep(scanned, archive) \in Blocks
    BY <2>2, <2>3, <2>4, NumberFacts
  <2>6. resp' \in [first : Numbers, scanned : Blocks, next : Blocks, chain : [Numbers -> Epochs]]
    BY <2>1, <2>5 DEF RTypeOK
  <2>7. loop' \in {"load", "poll", "emit", "save", "locate", "rollback"}
    BY <2>1
  <2>8. blind' \subseteq Logs
    <3>1. RowsOf(born, cursor, PlanStep(scanned, archive)) \subseteq Logs
      BY RowsOfType
    <3> QED
      BY <2>1, <3>1 DEF RTypeOK
  <2> QED
    BY <1>5, <2>6, <2>7, <2>8 DEF Poll, RTypeOK
<1>6. CASE EmitRows
  <2> DEFINE rows == RowsOf(resp.chain, resp.first, resp.next)
             m == [rows |-> rows, ack |-> resp.next, fork |-> Absent]
  <2>1. resp.next \in Blocks
    BY DEF RTypeOK
  <2>2. rows \in SUBSET Logs
    BY RowsOfType
  <2>3. m \in Message
    BY <2>1, <2>2 DEF Message
  <2>4. UNCHANGED inbox \/ Send(m)
    BY <1>6 DEF EmitRows
  <2>5. inbox' \in [Sinks -> Seq(Message)]
    BY <2>3, <2>4, SendTypes DEF RTypeOK
  <2> QED
    BY <1>6, <2>5 DEF EmitRows, RTypeOK
<1>7. CASE Remember
  <2>1. resp.chain \in [Numbers -> Epochs] /\ resp.next \in Blocks
    BY DEF RTypeOK
  <2>2. tracker' \in HashWindow
    BY <1>7, <2>1, WindowTypes DEF Remember, RTypeOK
  <2>3. trackerAt' \in [Version -> HashWindow]
    BY <1>7, <2>2 DEF Remember, Save, RTypeOK
  <2>4. resp' \in [first : Numbers, scanned : Blocks, next : Blocks, chain : [Numbers -> Epochs]]
    BY <1>7, NumberFacts DEF Remember, NoResp
  <2> QED
    BY <1>7, <2>1, <2>2, <2>3, <2>4 DEF Remember, RTypeOK
<1>8. CASE LocateFork
  <2>1. PICK upto \in 0..cursor :
          LET matching == Matching(tracker, born, upto) IN
          /\ fork' = IF matching = {} THEN Coarse(tracker) ELSE CHOOSE b \in matching : IsLast(b, matching)
          /\ vouched' = IF matching = {} THEN Greatest(vouched, fork') ELSE vouched
    BY <1>8 DEF LocateFork
  <2>2. fork' \in Numbers
    BY <2>1, ForkType
  <2>3. vouched' \in Int
    BY <2>1, <2>2, NumberFacts DEF RTypeOK, Greatest
  <2>4. tracker' \in HashWindow
    <3>1. tracker' = PurgeAfter(tracker, fork')
      BY <1>8, Zenon DEF LocateFork
    <3>2. fork' \in Int
      BY <2>2, NumberFacts
    <3>3. tracker \in HashWindow
      BY DEF RTypeOK
    <3> QED
      BY <3>1, <3>2, <3>3, WindowTypes
  <2>5. trackerAt' \in [Version -> HashWindow]
    BY <1>8, <2>4 DEF LocateFork, Save, RTypeOK
  <2> QED
    BY <1>8, <2>2, <2>3, <2>4, <2>5 DEF LocateFork, RTypeOK
<1>9. CASE SendRollback
  <2> DEFINE m == [rows |-> {}, ack |-> fork, fork |-> fork]
  <2>1. fork \in Numbers /\ fork \in Blocks
    BY NumberFacts DEF RTypeOK
  <2>2. m \in Message
    BY <2>1 DEF Message
  <2>3. inbox' \in [Sinks -> Seq(Message)]
    BY <1>9, <2>2, SendTypes DEF SendRollback
  <2>4. cursor' \in Blocks
    <3>1. cursor' = Greatest(fork + 1, FromBlock) /\ fork + 1 \in Blocks /\ FromBlock \in Blocks
      BY <1>9, <2>1, NumberFacts DEF SendRollback
    <3> QED
      BY <3>1 DEF Greatest
  <2> QED
    BY <1>9, <2>3, <2>4, NumberFacts DEF SendRollback, RTypeOK
<1> QED
  BY <1>1, <1>2, <1>3, <1>4, <1>5, <1>6, <1>7, <1>8, <1>9

\* The sinks keep the variables in their types.
LEMMA SinkTypes ==
    ASSUME RTypeOK, StepInv, TypeOK', NEW s \in Sinks, SinkStep(s)
    PROVE  RTypeOK'
<1> USE DEF chainVars, sourceVars, noteVars
<1>1. CASE Write(s)
  <2>1. table[s] \cup InHand(s).rows \in SUBSET Logs /\ Surviving(table[s], InHand(s).fork) \in SUBSET Logs
    BY <1>1, InHandFacts, SinkFacts DEF Write, Message, Surviving
  <2>2. table' \in [Sinks -> SUBSET Logs]
    BY <1>1, <2>1 DEF Write, RTypeOK
  <2> QED
    BY <1>1, <2>2 DEF Write, RTypeOK
<1>2. ASSUME stage[s] # "recv", Finish(s)
      PROVE  /\ inbox' \in [Sinks -> Seq(Message)]
             /\ stage' \in [Sinks -> {"recv", "written", "rewinding"}]
  BY <1>2, InHandFacts DEF Finish, RTypeOK
<1>3. CASE AckBatch(s) \/ EndRewind(s)
  BY <1>3, <1>2 DEF AckBatch, EndRewind, RTypeOK
<1>4. CASE BeginRewind(s)
  BY <1>4 DEF BeginRewind, RTypeOK
<1>5. CASE GiveUp(s)
  BY <1>5, ChannelEmpty DEF GiveUp, RTypeOK
<1> QED
  BY <1>1, <1>3, <1>4, <1>5 DEF SinkStep

\* Every step keeps the variables in their types.
LEMMA RTypeStep ==
    ASSUME RTypeOK, StepInv, [RNext]_rvars
    PROVE  RTypeOK'
<1>1. TypeOK'
  BY StoreStep, TypeStep DEF RTypeOK
<1>2. CASE \/ Mine \/ (\E f \in 1..height : Reorg(f)) \/ LoadMiss \/ Load \/ Poll
           \/ EmitRows \/ Remember \/ LocateFork \/ SendRollback
  BY <1>1, <1>2, SourceTypes
<1>3. CASE \E s \in Sinks : SinkStep(s)
  BY <1>1, <1>3, SinkTypes
<1>4. CASE Tick
  BY <1>1, <1>4 DEF Tick, RTypeOK, chainVars, sourceVars, sinkVars, noteVars
<1>5. CASE Drain
  <2>1. ahead' \in BOOLEAN
    BY <1>5, Zenon DEF Drain, RTypeOK
  <2> QED
    BY <1>1, <1>5, <2>1 DEF Drain, RTypeOK, chainVars, sourceVars, sinkVars
<1>6. ASSUME NEW b \in Blocks, Memory(b), torn' \in BOOLEAN PROVE RTypeOK'
  <2>1. /\ resp' \in [first : Numbers, scanned : Blocks, next : Blocks, chain : [Numbers -> Epochs]]
        /\ fork' \in Numbers /\ cursor' \in Blocks
    BY <1>6, NumberFacts DEF Memory, NoResp
  <2>2. /\ tracker' \in HashWindow /\ inbox' \in [Sinks -> Seq(Message)]
        /\ stage' \in [Sinks -> {"recv", "written", "rewinding"}]
    BY <1>6, ChannelEmpty, WindowTypes DEF Memory, RTypeOK
  <2> QED
    BY <1>1, <1>6, <2>1, <2>2 DEF Memory, RTypeOK, chainVars
<1>7. CASE Kill \/ Restart
  <2>1. FromBlock \in Blocks /\ RestartPoint(RestoreFrom(disk, Src, Sinks)) \in Blocks
    BY NumberFacts, RestartPointType DEF RTypeOK
  <2>2. torn' \in BOOLEAN
    BY <1>7, Zenon DEF Kill, Restart, RTypeOK
  <2> QED
    BY <1>6, <1>7, <2>1, <2>2 DEF Kill, Restart
<1>8. CASE UNCHANGED rvars
  BY <1>1, <1>8 DEF rvars, RTypeOK, chainVars, sourceVars, sinkVars, noteVars
<1> QED
  BY <1>2, <1>3, <1>4, <1>5, <1>7, <1>8 DEF RNext

\* The lag stays and the height never goes down; what an answer without a height
\* let through is on record until it has its confirmations.
LEMMA LagStep ==
    ASSUME RTypeOK, [RNext]_rvars
    PROVE  /\ height' \in Nat /\ height <= height' /\ confirmations' = confirmations
           /\ \A x \in blind : x \in blind' \/ x[1] + confirmations' <= height'
<1>1. height \in Nat /\ confirmations \in Nat /\ \A x \in blind : x[1] \in Nat
  BY NumberFacts, LimitFacts DEF RTypeOK
<1>2. (height' = height \/ height' = height + 1) /\ confirmations' = confirmations
  BY DEF RNext, Mine, Reorg, LoadMiss, Load, Poll, EmitRows, Remember, LocateFork, SendRollback,
         SinkStep, Write, AckBatch, BeginRewind, EndRewind, GiveUp, Tick, Drain, Kill, Restart, Memory,
         chainVars, sourceVars, rvars
<1>3. CASE Mine
  <2>1. \A x \in blind : x[1] + confirmations > height' => x \in blind'
    BY <1>3 DEF Mine
  <2> QED
    BY <1>1, <1>2, <2>1
<1>4. CASE ~Mine
  <2>1. blind \subseteq blind'
    BY <1>4 DEF RNext, Reorg, LoadMiss, Load, Poll, EmitRows, Remember, LocateFork, SendRollback,
           SinkStep, Write, AckBatch, BeginRewind, EndRewind, GiveUp, Tick, Drain, Kill, Restart, Memory,
           noteVars, rvars
  <2> QED
    BY <1>1, <1>2, <2>1
<1> QED
  BY <1>3, <1>4

\* Every step keeps the step invariant.
LEMMA StepInvStep ==
    ASSUME RTypeOK, StepInv, [RNext]_rvars
    PROVE  StepInv'
<1> DEFINE InHandInv == \A s \in Sinks : stage[s] # "recv" => inbox[s] # <<>>
           RespInv == Holding => /\ resp.first = cursor
                                 /\ cursor < resp.next
                                 /\ resp.next <= resp.scanned
           LagInv == Holding => Cleared(RowsOf(resp.chain, resp.first, resp.next))
<1>0. InHandInv /\ RespInv /\ LagInv /\ (StepInv' <=> InHandInv' /\ RespInv' /\ LagInv')
  BY Zenon DEF StepInv
<1>a. UNCHANGED <<inbox, stage>> => InHandInv'
  BY <1>0
<1>b. UNCHANGED <<loop, resp, cursor>> => RespInv'
  BY <1>0 DEF Holding
<1>c. loop' \in {"load", "poll", "locate", "rollback"} => RespInv' /\ LagInv'
  BY DEF Holding
<1>e. ASSUME Holding' => Holding /\ resp' = resp PROVE LagInv'
  <2> SUFFICES ASSUME Holding' PROVE Cleared(RowsOf(resp.chain, resp.first, resp.next))'
    OBVIOUS
  <2> DEFINE rows == RowsOf(resp.chain, resp.first, resp.next)
  <2>1. rows' = rows /\ Cleared(rows) /\ rows \subseteq Logs
    BY <1>0, <1>e, RowsOfType DEF RowsOf
  <2>2. height \in Nat /\ confirmations \in Nat /\ \A x \in Logs : x[1] \in Nat
    BY NumberFacts, LimitFacts DEF RTypeOK
  <2> HIDE DEF rows
  <2>3. \A x \in rows : x[1] + confirmations' <= height' \/ x \in blind'
    BY <2>1, <2>2, LagStep DEF Cleared, HasLag
  <2>4. Cleared(rows)'
    BY <2>1, <2>3 DEF Cleared, HasLag
  <2> QED
    BY <2>4 DEF rows
<1>d. ASSUME NEW m \in Message, Send(m), UNCHANGED stage PROVE InHandInv'
  <2>1. ASSUME NEW s \in Sinks, stage'[s] # "recv" PROVE inbox'[s] # <<>>
    <3>1. inbox[s] # <<>> /\ inbox[s] \in Seq(Message)
      BY <1>0, <1>d, <2>1 DEF RTypeOK
    <3>2. Append(inbox[s], m) # <<>>
      BY <3>1, AppendProperties
    <3> QED
      BY <1>d, <3>1, <3>2 DEF Send
  <2> QED
    BY <2>1
<1>1. CASE Mine
  <2>1. RespInv' /\ LagInv'
    BY <1>b, <1>e, <1>1 DEF Mine, sourceVars, Holding
  <2> QED
    BY <1>0, <1>a, <1>1, <2>1 DEF Mine, sinkVars
<1>2. CASE (\E f \in 1..height : Reorg(f)) \/ LoadMiss \/ Tick \/ Drain \/ UNCHANGED rvars
  <2>1. UNCHANGED <<loop, resp, cursor, inbox, stage>>
    BY <1>2 DEF Reorg, LoadMiss, Tick, Drain, rvars, chainVars, sourceVars, sinkVars
  <2> QED
    BY <1>0, <1>a, <1>b, <1>e, <2>1 DEF Holding
<1>3. CASE Load \/ Remember \/ LocateFork
  BY <1>0, <1>a, <1>c, <1>3 DEF Load, Remember, LocateFork, sinkVars
<1>4. CASE Poll
  <2>1. PICK scanned \in (cursor + 1) .. Least(cursor + MaxPage, height + 1), archive \in {height, Absent} :
          \/ loop' = "locate"
          \/ /\ loop' = "emit"
             /\ PlanStep(scanned, archive) > cursor
             /\ resp' = [first |-> cursor, scanned |-> scanned, next |-> PlanStep(scanned, archive), chain |-> born]
             /\ blind' = blind \cup {x \in RowsOf(born, cursor, PlanStep(scanned, archive)) : archive = Absent /\ ~HasLag(x)}
    BY <1>4 DEF Poll
  <2>2. cursor \in Nat /\ height \in Nat /\ confirmations \in Nat /\ scanned \in Nat
    BY NumberFacts, LimitFacts DEF RTypeOK, Least
  <2>3. PlanStep(scanned, archive) <= scanned
    BY <2>2 DEF PlanStep, Least
  <2>4. RespInv'
    BY <1>c, <1>4, <2>1, <2>2, <2>3 DEF Poll, chainVars
  <2>5. LagInv'
    <3> SUFFICES ASSUME loop' = "emit" PROVE LagInv'
      BY <1>c, <2>1
    <3> DEFINE rows == RowsOf(born, cursor, PlanStep(scanned, archive))
    <3>1. \A x \in rows : x[1] \in Nat /\ x[1] < PlanStep(scanned, archive)
      BY NumberFacts DEF RowsOf
    <3>2. ASSUME NEW x \in rows PROVE HasLag(x) \/ x \in blind'
      <4>1. CASE archive = Absent
        BY <2>1, <4>1
      <4>2. CASE archive # Absent
        <5>1. archive = height /\ PlanStep(scanned, archive) + confirmations <= height + 1
          BY <2>1, <2>2, <4>2 DEF PlanStep, Least
        <5>2. PlanStep(scanned, archive) \in Nat
          BY <2>2, <4>2, <5>1 DEF PlanStep, Least
        <5> QED
          BY <2>2, <3>1, <5>1, <5>2 DEF HasLag
      <4> QED
        BY <4>1, <4>2
    <3>3. RowsOf(resp.chain, resp.first, resp.next)' = rows
      BY <2>1 DEF RowsOf
    <3> HIDE DEF rows
    <3>4. UNCHANGED <<height, confirmations>>
      BY <1>4 DEF Poll, chainVars
    <3>5. Cleared(RowsOf(resp.chain, resp.first, resp.next))'
      BY <3>2, <3>3, <3>4 DEF Cleared, HasLag
    <3> QED
      BY <3>5
  <2> QED
    BY <1>0, <1>a, <1>4, <2>4, <2>5 DEF Poll, sinkVars
<1>5. CASE EmitRows
  <2> DEFINE m == [rows |-> RowsOf(resp.chain, resp.first, resp.next), ack |-> resp.next, fork |-> Absent]
  <2>1. UNCHANGED inbox \/ Send(m)
    BY <1>5 DEF EmitRows
  <2>2. m \in Message
    BY RowsOfType DEF Message, RTypeOK
  <2>3. InHandInv'
    BY <1>5, <1>a, <1>d, <2>1, <2>2 DEF EmitRows
  <2>4. RespInv' /\ LagInv'
    BY <1>0, <1>e, <1>5 DEF EmitRows, Holding
  <2> QED
    BY <1>0, <2>3, <2>4
<1>6. CASE SendRollback
  <2>1. [rows |-> {}, ack |-> fork, fork |-> fork] \in Message
    BY NumberFacts DEF Message, RTypeOK
  <2> QED
    BY <1>0, <1>c, <1>d, <1>6, <2>1 DEF SendRollback
<1>7. ASSUME NEW s \in Sinks, SinkStep(s) PROVE StepInv'
  <2>1. RespInv' /\ LagInv'
    <3>1. UNCHANGED <<loop, resp, cursor>>
      BY <1>7 DEF SinkStep, Write, AckBatch, BeginRewind, EndRewind, GiveUp, sourceVars
    <3> QED
      BY <1>b, <1>e, <3>1 DEF Holding
  <2>2. InHandInv'
    <3>1. CASE Write(s) \/ BeginRewind(s)
      BY <1>0, <3>1 DEF Write, BeginRewind, RTypeOK
    <3>2. CASE AckBatch(s) \/ EndRewind(s)
      BY <1>0, <3>2 DEF AckBatch, EndRewind, Finish, RTypeOK
    <3>3. CASE GiveUp(s)
      BY <1>0, <3>3 DEF GiveUp, RTypeOK
    <3> QED
      BY <1>7, <3>1, <3>2, <3>3 DEF SinkStep
  <2> QED
    BY <1>0, <2>1, <2>2
<1>8. CASE Kill \/ Restart
  BY <1>0, <1>c, <1>8 DEF Kill, Restart, Memory
<1> QED
  BY <1>1, <1>2, <1>3, <1>4, <1>5, <1>6, <1>7, <1>8 DEF RNext

\* The types and the step invariant hold throughout.
LEMMA RTypedAlways == RSpec => [](RTypeOK /\ StepInv)
<1>1. RInit => RTypeOK /\ StepInv
  <2>1. RInit => StepInv
    BY DEF RInit, StepInv, Holding
  <2> QED
    BY <2>1, RTypeInit
<1>2. RTypeOK /\ StepInv /\ [RNext]_rvars => (RTypeOK /\ StepInv)'
  BY RTypeStep, StepInvStep
<1> QED
  BY <1>1, <1>2, PTL DEF RSpec

\* RTypeOK: every variable of the source, the chain and the sinks keeps its type
\* through reorgs, rollbacks, crashes and restarts; among others, the fork that
\* locate_fork settles on and the block a restart resumes from always exist.
THEOREM ReorgTyped == RSpec => []RTypeOK
BY RTypedAlways, PTL

\* Cleared rows stay cleared.
LEMMA LagStays ==
    ASSUME RTypeOK, [RNext]_rvars, NEW rows \in SUBSET Logs, Cleared(rows)
    PROVE  \A x \in rows : x[1] + confirmations' <= height' \/ x \in blind'
<1>1. height \in Nat /\ confirmations \in Nat /\ \A x \in rows : x[1] \in Nat
  BY NumberFacts, LimitFacts DEF RTypeOK
<1> QED
  BY <1>1, LagStep DEF Cleared, HasLag

\* Every step keeps Confirmed: a batch is cut to the confirmed part when it is
\* sent, or what passes the bound is on record, and the height never goes down.
LEMMA ConfirmedStep ==
    ASSUME RTypeOK, StepInv, RTypeOK', Confirmed, [RNext]_rvars
    PROVE  Confirmed'
<1> DEFINE Ok(rows) == \A x \in rows : x[1] + confirmations' <= height' \/ x \in blind'
<1>0. ASSUME \A s \in Sinks : Ok(table'[s]) /\ \A i \in DOMAIN inbox'[s] : Ok(inbox'[s][i].rows)
      PROVE  Confirmed'
  BY <1>0 DEF Confirmed, Cleared, HasLag
<1>2. \A s \in Sinks : Ok(table[s]) /\ \A i \in DOMAIN inbox[s] : Ok(inbox[s][i].rows)
  <2>1. ASSUME NEW s \in Sinks, NEW i \in DOMAIN inbox[s] PROVE Ok(inbox[s][i].rows)
    <3>1. inbox[s][i].rows \in SUBSET Logs /\ Cleared(inbox[s][i].rows)
      BY SinkFacts DEF Message, Confirmed
    <3> QED
      BY <3>1, LagStays
  <2>2. ASSUME NEW s \in Sinks PROVE Ok(table[s])
    <3>1. table[s] \in SUBSET Logs /\ Cleared(table[s])
      BY SinkFacts DEF Confirmed
    <3> QED
      BY <3>1, LagStays
  <2> QED
    BY <2>1, <2>2
<1> HIDE DEF Ok
<1>3. CASE UNCHANGED <<inbox, table>>
  BY <1>0, <1>2, <1>3
<1>4. ASSUME NEW m \in Message, Send(m), Ok(m.rows), UNCHANGED table PROVE Confirmed'
  <2>1. ASSUME NEW s \in Sinks, NEW i \in DOMAIN inbox'[s] PROVE Ok(inbox'[s][i].rows)
    <3>1. CASE s \in paused
      BY <1>2, <1>4, <2>1, <3>1 DEF Send
    <3>2. CASE s \notin paused
      <4>1. inbox'[s] = Append(inbox[s], m) /\ inbox[s] \in Seq(Message)
        BY <1>4, <3>2 DEF Send, RTypeOK
      <4>2. (i \in DOMAIN inbox[s] /\ inbox'[s][i] = inbox[s][i]) \/ inbox'[s][i] = m
        BY <2>1, <4>1, ChannelAppend
      <4> QED
        BY <1>2, <1>4, <4>2
    <3> QED
      BY <3>1, <3>2
  <2> QED
    BY <1>0, <1>2, <1>4, <2>1
<1>5. CASE EmitRows
  <2> DEFINE rows == RowsOf(resp.chain, resp.first, resp.next)
             m == [rows |-> rows, ack |-> resp.next, fork |-> Absent]
  <2>1. UNCHANGED inbox \/ Send(m)
    BY <1>5 DEF EmitRows
  <2>2. m \in Message
    BY RowsOfType DEF Message, RTypeOK
  <2>3. Ok(m.rows)
    <3>1. rows \in SUBSET Logs /\ Cleared(rows)
      BY <1>5, RowsOfType DEF EmitRows, StepInv, Holding
    <3> HIDE DEF rows
    <3> QED
      BY <3>1, LagStays DEF Ok
  <2> QED
    BY <1>3, <1>4, <1>5, <2>1, <2>2, <2>3 DEF EmitRows
<1>6. CASE SendRollback
  <2>1. [rows |-> {}, ack |-> fork, fork |-> fork] \in Message /\ Ok({})
    BY NumberFacts DEF Message, RTypeOK, Ok
  <2> QED
    BY <1>4, <1>6, <2>1 DEF SendRollback
<1>7. ASSUME NEW s \in Sinks, SinkStep(s) PROVE Confirmed'
  <2>1. CASE Write(s)
    <3>1. inbox[s] # <<>> /\ inbox[s] \in Seq(Message)
      BY <2>1 DEF Write, RTypeOK
    <3>2. InHand(s) = inbox[s][1] /\ 1 \in DOMAIN inbox[s]
      BY <3>1, ChannelTail DEF InHand
    <3>3. Ok(table[s] \cup InHand(s).rows) /\ Ok(Surviving(table[s], InHand(s).fork))
      <4>1. Ok(table[s]) /\ Ok(InHand(s).rows)
        BY <1>2, <3>2
      <4> QED
        BY <4>1 DEF Ok, Surviving
    <3>4. \A t \in Sinks : Ok(table'[t])
      BY <1>2, <2>1, <3>3 DEF Write, RTypeOK
    <3> QED
      BY <1>0, <1>2, <2>1, <3>4 DEF Write
  <2>2. CASE AckBatch(s) \/ EndRewind(s)
    <3>1. inbox[s] # <<>> /\ inbox[s] \in Seq(Message)
      BY <2>2 DEF AckBatch, EndRewind, StepInv, RTypeOK
    <3>2. inbox' = [inbox EXCEPT ![s] = Tail(@)] /\ UNCHANGED table
      BY <2>2 DEF AckBatch, EndRewind, Finish
    <3>3. ASSUME NEW i \in DOMAIN Tail(inbox[s]) PROVE Ok(Tail(inbox[s])[i].rows)
      <4>1. Tail(inbox[s])[i] = inbox[s][i + 1] /\ i + 1 \in DOMAIN inbox[s]
        BY <3>1, <3>3, ChannelTail
      <4> QED
        BY <1>2, <4>1
    <3>4. \A t \in Sinks : \A i \in DOMAIN inbox'[t] : Ok(inbox'[t][i].rows)
      BY <1>2, <3>2, <3>3 DEF RTypeOK
    <3> QED
      BY <1>0, <1>2, <3>2, <3>4
  <2>3. CASE BeginRewind(s)
    BY <1>3, <2>3 DEF BeginRewind
  <2>4. CASE GiveUp(s)
    <3>1. \A t \in Sinks : \A i \in DOMAIN inbox'[t] : Ok(inbox'[t][i].rows)
      BY <1>2, <2>4, ChannelEmpty DEF GiveUp, RTypeOK
    <3> QED
      BY <1>0, <1>2, <2>4, <3>1 DEF GiveUp
  <2> QED
    BY <1>7, <2>1, <2>2, <2>3, <2>4 DEF SinkStep
<1>8. CASE Kill \/ Restart
  <2>1. \A t \in Sinks : \A i \in DOMAIN inbox'[t] : Ok(inbox'[t][i].rows)
    BY <1>8, ChannelEmpty DEF Kill, Restart, Memory
  <2> QED
    BY <1>0, <1>2, <1>8, <2>1 DEF Kill, Restart, Memory
<1>9. CASE \/ Mine \/ (\E f \in 1..height : Reorg(f)) \/ LoadMiss \/ Load \/ Poll \/ Remember
           \/ LocateFork \/ Tick \/ Drain \/ UNCHANGED rvars
  BY <1>3, <1>9 DEF Mine, Reorg, LoadMiss, Load, Poll, Remember, LocateFork, Tick, Drain, rvars, sinkVars
<1> QED
  BY <1>5, <1>6, <1>7, <1>8, <1>9 DEF RNext

\* Confirmed: no row is in a channel or a table of a sink before its block has
\* the configured confirmations (plan_step), but for those that an answer without
\* the height of the archive let through, for every page size and lag, across
\* reorgs and restarts.
THEOREM ReorgConfirmed == RSpec => []Confirmed
<1>1. RInit => Confirmed
  BY ChannelEmpty DEF RInit, Confirmed, Cleared
<1>2. RTypeOK /\ StepInv /\ Confirmed /\ [RNext]_rvars => Confirmed'
  BY ConfirmedStep, RTypeStep
<1> QED
  BY <1>1, <1>2, RTypedAlways, PTL DEF RSpec

-----------------------------------------------------------------------------
(* What a sink's table will hold when it has applied all it was sent.        *)

\* A sink that a step leaves alone.
LEMMA AppliedFrame ==
    ASSUME NEW s, inbox'[s] = inbox[s], stage'[s] = stage[s], table'[s] = table[s]
    PROVE  Applied(s)' = Applied(s)
BY DEF Applied, Survives, Pending

\* Between writing a batch and finishing it only the stage changes.
LEMMA AppliedBeginRewind ==
    ASSUME RTypeOK, NEW s \in Sinks, BeginRewind(s)
    PROVE  Applied(s)' = Applied(s)
<1>1. stage[s] = "written" /\ stage'[s] = "rewinding" /\ inbox'[s] = inbox[s] /\ table'[s] = table[s]
  BY DEF BeginRewind, RTypeOK
<1>2. Pending(s)' = Pending(s)
  BY <1>1 DEF Pending
<1>3. \A x, i : Survives(s, x, i)' <=> Survives(s, x, i)
  BY <1>1, <1>2 DEF Survives
<1> QED
  BY <1>1, <1>2, <1>3 DEF Applied

\* Applying a batch to the table does not change where things are going.
LEMMA AppliedWrite ==
    ASSUME RTypeOK, StepInv, NEW s \in Sinks, Write(s)
    PROVE  Applied(s)' = Applied(s)
<1> DEFINE q == inbox[s]
           m == InHand(s)
<1>1. /\ q # <<>> /\ q \in Seq(Message) /\ stage[s] = "recv" /\ stage'[s] = "written" /\ inbox'[s] = q
      /\ table'[s] = IF m.fork = Absent THEN table[s] \cup m.rows ELSE Surviving(table[s], m.fork)
  BY DEF Write, RTypeOK
<1>2. Len(q) \in Nat \ {0} /\ DOMAIN q = 1..Len(q) /\ m = q[1] /\ 1 \in DOMAIN q
  BY <1>1, ChannelTail DEF InHand
<1>3. Pending(s) = 1..Len(q) /\ Pending(s)' = 2..Len(q)
  BY <1>1, <1>2 DEF Pending
<1> HIDE DEF q, m
<1>4. ASSUME NEW x PROVE /\ \A i \in 1..Len(q) : Survives(s, x, i)' <=> Survives(s, x, i)
                         /\ Survives(s, x, 0)' <=> Survives(s, x, 1)
                         /\ Survives(s, x, 0) <=> Survives(s, x, 1) /\ (m.fork # Absent => x[1] <= m.fork)
  <2>1. ASSUME NEW i \in 1..Len(q) PROVE Survives(s, x, i)' <=> Survives(s, x, i)
    BY <1>1, <1>2, <1>3 DEF Survives, q
  <2>2. Survives(s, x, 0)' <=> Survives(s, x, 1)
    BY <1>1, <1>2, <1>3 DEF Survives, q
  <2>3. Survives(s, x, 0) <=> Survives(s, x, 1) /\ (m.fork # Absent => x[1] <= m.fork)
    BY <1>1, <1>2, <1>3 DEF Survives, q
  <2> QED
    BY <2>1, <2>2, <2>3
<1>5. ASSUME NEW x \in Logs PROVE x \in Applied(s)' <=> x \in Applied(s)
  <2> DEFINE Later == \E i \in 2..Len(q) : q[i].fork = Absent /\ x \in q[i].rows /\ Survives(s, x, i)
  <2>1. x \in Applied(s)' <=> (x \in table'[s] /\ Survives(s, x, 1)) \/ Later
    <3>1. x \in Applied(s)' <=>
          \/ x \in table'[s] /\ Survives(s, x, 0)'
          \/ \E i \in 2..Len(q) : q[i].fork = Absent /\ x \in q[i].rows /\ Survives(s, x, i)'
      BY <1>1, <1>3 DEF Applied, q
    <3>2. \A i \in 2..Len(q) : i \in 1..Len(q)
      BY <1>2
    <3> QED
      BY <1>4, <3>1, <3>2
  <2>2. x \in Applied(s) <=>
        \/ x \in table[s] /\ Survives(s, x, 0)
        \/ m.fork = Absent /\ x \in m.rows /\ Survives(s, x, 1)
        \/ Later
    <3>1. x \in Applied(s) <=>
          \/ x \in table[s] /\ Survives(s, x, 0)
          \/ \E i \in 1..Len(q) : q[i].fork = Absent /\ x \in q[i].rows /\ Survives(s, x, i)
      BY <1>3 DEF Applied, q
    <3>2. 1 \in 1..Len(q) /\ (\A i \in 2..Len(q) : i \in 1..Len(q)) /\ \A i \in 1..Len(q) : i = 1 \/ i \in 2..Len(q)
      BY <1>2
    <3> DEFINE P(i) == q[i].fork = Absent /\ x \in q[i].rows /\ Survives(s, x, i)
    <3>3. x \in Applied(s) <=> (x \in table[s] /\ Survives(s, x, 0)) \/ \E i \in 1..Len(q) : P(i)
      BY <3>1
    <3>4. (\E i \in 1..Len(q) : P(i)) <=> P(1) \/ \E i \in 2..Len(q) : P(i)
      <4> HIDE DEF P
      <4> QED
        BY <3>2
    <3>5. P(1) <=> m.fork = Absent /\ x \in m.rows /\ Survives(s, x, 1)
      BY <1>2
    <3> QED
      BY <3>3, <3>4, <3>5
  <2>3. /\ m.fork = Absent => (x \in table'[s] <=> x \in table[s] \/ x \in m.rows)
        /\ m.fork # Absent => (x \in table'[s] <=> x \in table[s] /\ x[1] <= m.fork)
    BY <1>1 DEF Surviving
  <2>4. Survives(s, x, 0) <=> Survives(s, x, 1) /\ (m.fork # Absent => x[1] <= m.fork)
    BY <1>4
  <2>5. CASE m.fork = Absent
    BY <2>1, <2>2, <2>3, <2>4, <2>5
  <2>6. CASE m.fork # Absent
    BY <2>1, <2>2, <2>3, <2>4, <2>6
  <2> QED
    BY <2>5, <2>6
<1>6. Applied(s)' \subseteq Logs /\ Applied(s) \subseteq Logs
  BY DEF Applied
<1> QED
  BY <1>5, <1>6

\* Nor does taking a batch that is applied off the channel.
LEMMA AppliedFinish ==
    ASSUME RTypeOK, StepInv, NEW s \in Sinks, stage[s] # "recv", Finish(s), UNCHANGED table
    PROVE  Applied(s)' = Applied(s)
<1> DEFINE q == inbox[s]
<1>1. q # <<>> /\ q \in Seq(Message) /\ stage'[s] = "recv" /\ inbox'[s] = Tail(q) /\ table'[s] = table[s]
  BY DEF Finish, StepInv, RTypeOK
<1>2. /\ Len(q) \in Nat \ {0} /\ DOMAIN q = 1..Len(q) /\ DOMAIN Tail(q) = 1..(Len(q) - 1)
      /\ \A i \in 1..(Len(q) - 1) : Tail(q)[i] = q[i + 1]
  BY <1>1, ChannelTail
<1>3. Pending(s) = 2..Len(q) /\ Pending(s)' = 1..(Len(q) - 1)
  BY <1>1, <1>2 DEF Pending
<1> HIDE DEF q
<1>4. ASSUME NEW x, NEW i \in Nat PROVE Survives(s, x, i)' <=> Survives(s, x, i + 1)
  <2>1. Survives(s, x, i)' <=> \A j \in 1..(Len(q) - 1) : j > i /\ q[j + 1].fork # Absent => x[1] <= q[j + 1].fork
    BY <1>1, <1>2, <1>3 DEF Survives
  <2>2. Survives(s, x, i + 1) <=> \A j \in 2..Len(q) : j > i + 1 /\ q[j].fork # Absent => x[1] <= q[j].fork
    BY <1>3 DEF Survives, q
  <2>3. ASSUME NEW j \in 2..Len(q) PROVE j - 1 \in 1..(Len(q) - 1) /\ (j - 1) + 1 = j /\ (j > i + 1 <=> j - 1 > i)
    BY <1>2
  <2>4. ASSUME NEW j \in 1..(Len(q) - 1) PROVE j + 1 \in 2..Len(q) /\ (j + 1 > i + 1 <=> j > i)
    BY <1>2
  <2> QED
    BY <2>1, <2>2, <2>3, <2>4
<1>5. ASSUME NEW x \in Logs PROVE x \in Applied(s)' <=> x \in Applied(s)
  <2>1. x \in Applied(s)' <=>
          \/ x \in table[s] /\ Survives(s, x, 1)
          \/ \E i \in 1..(Len(q) - 1) : q[i + 1].fork = Absent /\ x \in q[i + 1].rows /\ Survives(s, x, i + 1)
    <3>1. x \in Applied(s)' <=>
            \/ x \in table[s] /\ Survives(s, x, 0)'
            \/ \E i \in 1..(Len(q) - 1) : q[i + 1].fork = Absent /\ x \in q[i + 1].rows /\ Survives(s, x, i)'
      BY <1>1, <1>2, <1>3 DEF Applied
    <3>2. Survives(s, x, 0)' <=> Survives(s, x, 1)
      BY <1>4
    <3>3. \A i \in 1..(Len(q) - 1) : Survives(s, x, i)' <=> Survives(s, x, i + 1)
      BY <1>4
    <3> QED
      BY <3>1, <3>2, <3>3
  <2>2. x \in Applied(s) <=>
          \/ x \in table[s] /\ Survives(s, x, 0)
          \/ \E i \in 2..Len(q) : q[i].fork = Absent /\ x \in q[i].rows /\ Survives(s, x, i)
    BY <1>3 DEF Applied, q
  <2>3. Survives(s, x, 0) <=> Survives(s, x, 1)
    <3>1. \A j \in 2..Len(q) : j > 0 /\ j > 1
      BY <1>2
    <3> QED
      BY <1>3, <3>1 DEF Survives
  <2>4. ASSUME NEW j \in 2..Len(q) PROVE j - 1 \in 1..(Len(q) - 1) /\ (j - 1) + 1 = j
    BY <1>2
  <2>5. ASSUME NEW j \in 1..(Len(q) - 1) PROVE j + 1 \in 2..Len(q)
    BY <1>2
  <2> QED
    BY <2>1, <2>2, <2>3, <2>4, <2>5
<1>6. Applied(s)' \subseteq Logs /\ Applied(s) \subseteq Logs
  BY DEF Applied
<1> QED
  BY <1>5, <1>6

\* A batch that is sent adds its rows, a rollback voids those above the fork.
LEMMA AppliedSend ==
    ASSUME RTypeOK, StepInv, NEW m \in Message, Send(m), UNCHANGED <<stage, table>>, NEW s \in Sinks \ paused
    PROVE  Applied(s)' = IF m.fork = Absent THEN Applied(s) \cup m.rows ELSE Surviving(Applied(s), m.fork)
<1> DEFINE q == inbox[s]
           n == Len(q)
           Kept(x) == m.fork # Absent => x[1] <= m.fork
<1>1. q \in Seq(Message) /\ inbox'[s] = Append(q, m) /\ stage'[s] = stage[s] /\ table'[s] = table[s]
  BY DEF Send, RTypeOK
<1>2. /\ n \in Nat /\ DOMAIN q = 1..n /\ DOMAIN Append(q, m) = 1..(n + 1)
      /\ \A i \in 1..n : Append(q, m)[i] = q[i]
      /\ Append(q, m)[n + 1] = m
  BY <1>1, ChannelAppend
<1>3. stage[s] = "recv" \/ n > 0
  <2>1. stage[s] = "recv" \/ q # <<>>
    BY DEF StepInv
  <2> QED
    BY <1>1, <1>2, <2>1, EmptySeq
<1>4. Pending(s) \subseteq 1..n /\ Pending(s)' = Pending(s) \cup {n + 1}
  BY <1>1, <1>2, <1>3 DEF Pending
<1>n. PICK last \in Nat : last = n + 1
  BY <1>2
<1> HIDE DEF q, n
<1>5. ASSUME NEW x, NEW i \in 0..n PROVE Survives(s, x, i)' <=> Survives(s, x, i) /\ Kept(x)
  <2>1. Survives(s, x, i)' <=>
          /\ \A j \in Pending(s) : j > i /\ q[j].fork # Absent => x[1] <= q[j].fork
          /\ n + 1 > i /\ m.fork # Absent => x[1] <= m.fork
    BY <1>1, <1>2, <1>4 DEF Survives
  <2>2. n + 1 > i
    BY <1>2
  <2> QED
    BY <2>1, <2>2 DEF Survives, q
<1>6. ASSUME NEW x PROVE Survives(s, x, last)'
  <2>1. \A j \in Pending(s)' : ~(j > last)
    BY <1>2, <1>4, <1>n
  <2> QED
    BY <2>1 DEF Survives
<1>7. ASSUME NEW x \in Logs
      PROVE  x \in Applied(s)' <=> (x \in Applied(s) /\ Kept(x)) \/ (m.fork = Absent /\ x \in m.rows)
  <2>1. x \in Applied(s)' <=>
          \/ x \in table[s] /\ Survives(s, x, 0)'
          \/ \E i \in Pending(s) : q[i].fork = Absent /\ x \in q[i].rows /\ Survives(s, x, i)'
          \/ m.fork = Absent /\ x \in m.rows /\ Survives(s, x, last)'
    <3>1. x \in Applied(s)' <=>
            \/ x \in table[s] /\ Survives(s, x, 0)'
            \/ \E i \in Pending(s) \cup {n + 1} :
                  Append(q, m)[i].fork = Absent /\ x \in Append(q, m)[i].rows /\ Survives(s, x, i)'
      BY <1>1, <1>4 DEF Applied
    <3>2. \A i \in Pending(s) : Append(q, m)[i] = q[i]
      BY <1>2, <1>4
    <3> QED
      BY <1>2, <1>n, <3>1, <3>2
  <2>2. x \in Applied(s) <=>
          \/ x \in table[s] /\ Survives(s, x, 0)
          \/ \E i \in Pending(s) : q[i].fork = Absent /\ x \in q[i].rows /\ Survives(s, x, i)
    BY DEF Applied, q
  <2>3. \A i \in Pending(s) : Survives(s, x, i)' <=> Survives(s, x, i) /\ Kept(x)
    BY <1>2, <1>4, <1>5
  <2>4. Survives(s, x, 0)' <=> Survives(s, x, 0) /\ Kept(x)
    BY <1>2, <1>5
  <2> QED
    BY <1>6, <2>1, <2>2, <2>3, <2>4
<1>8. Applied(s)' \subseteq Logs /\ Applied(s) \subseteq Logs /\ m.rows \subseteq Logs
  BY DEF Applied, Message
<1> QED
  BY <1>7, <1>8 DEF Surviving

-----------------------------------------------------------------------------
(* The window.                                                               *)

\* Trimming forgets hashes and changes none.
LEMMA TrimForgets ==
    ASSUME NEW t, NEW b \in Known(Trim(t))
    PROVE  b \in Known(t) /\ Trim(t)[b] = t[b]
BY DEF Trim, Known

\* It keeps the newest hash: the window holds at least one.
LEMMA TrimKeepsLast ==
    ASSUME NEW t \in HashWindow, NEW b \in Known(t), \A c \in Known(t) : c <= b
    PROVE  b \in Known(Trim(t))
<1>1. \A c \in Known(t) : c \in Nat
  BY NumberFacts DEF Known
<1>2. {c \in Known(t) : c >= b} = {b}
  BY <1>1
<1>3. Cardinality({b}) = 1
  BY FS_Singleton
<1>4. Cardinality({c \in Known(t) : c >= b}) <= Window
  BY <1>2, <1>3, LimitFacts
<1> QED
  BY <1>4 DEF Trim, Known

\* A purge forgets what is above the fork and changes nothing.
LEMMA PurgeFacts ==
    ASSUME NEW t, NEW f
    PROVE  /\ Known(PurgeAfter(t, f)) = {b \in Known(t) : b <= f}
           /\ \A b \in Known(PurgeAfter(t, f)) : PurgeAfter(t, f)[b] = t[b]
BY DEF PurgeAfter, Known, Absent

\* Remembering a response all of which was emitted: before it is trimmed, the
\* window has its old hashes, where the response has none, and the response's,
\* the last block's among them and none beyond what was emitted.
LEMMA RecordParts ==
    ASSUME NEW t \in HashWindow, NEW r, r.chain \in [Numbers -> Epochs],
           r.first \in Nat, r.scanned \in Blocks, r.next = r.scanned, r.first < r.next
    PROVE  \E u \in HashWindow :
              /\ Record(t, r) = Trim(u)
              /\ Known(t) \subseteq Known(u)
              /\ r.next - 1 \in Known(u)
              /\ \A b \in Known(u) :
                    \/ b \in Known(t) /\ u[b] = t[b]
                    \/ b >= r.first - 1 /\ b < r.next /\ u[b] = r.chain[b]
<1> DEFINE u == [b \in Numbers |-> IF b \in Carries(r) THEN r.chain[b] ELSE t[b]]
<1>1. Record(t, r) = Trim(u) /\ u \in HashWindow
  BY DEF Record, HashWindow
<1>2. r.scanned \in Nat /\ r.scanned - 1 \in Numbers /\ r.scanned - 1 \in Nat
  <2>1. r.scanned \in 0 .. (MaxHeight + 1) /\ MaxHeight \in Nat /\ r.first < r.scanned
    BY ReorgAssumption
  <2> QED
    BY <2>1 DEF Numbers
<1>3. ASSUME NEW b \in Carries(r) PROVE b \in Numbers /\ b \in Nat /\ b >= r.first - 1 /\ b < r.next
  <2>1. CASE \E x \in RowsOf(r.chain, r.first, r.next) : b = x[1]
    <3>1. PICK x \in Logs : b = x[1] /\ r.first <= x[1] /\ x[1] < r.next
      BY <2>1 DEF RowsOf
    <3>2. x[1] \in Numbers /\ x[1] \in Nat
      BY NumberFacts
    <3> QED
      BY <1>2, <3>1, <3>2
  <2>2. CASE b \in Numbers /\ b = r.scanned - 1 /\ b < r.next
    BY <1>2, <2>2
  <2>3. CASE b \in Numbers /\ b = r.first - 1
    BY <1>2, <2>3, NumberFacts
  <2> QED
    BY <1>3, <2>1, <2>2, <2>3 DEF Carries
<1>4. r.scanned - 1 \in Carries(r)
  BY <1>2 DEF Carries
<1>5. \A b \in Numbers : r.chain[b] \in Nat /\ r.chain[b] # Absent
  BY NumberFacts, LimitFacts
<1>6. Known(t) \subseteq Known(u) /\ r.next - 1 \in Known(u)
  BY <1>2, <1>4, <1>5 DEF Known
<1>7. ASSUME NEW b \in Known(u)
      PROVE  \/ b \in Known(t) /\ u[b] = t[b]
             \/ b >= r.first - 1 /\ b < r.next /\ u[b] = r.chain[b]
  <2>1. CASE b \in Carries(r)
    <3>1. b \in Numbers /\ b >= r.first - 1 /\ b < r.next
      BY <1>3, <2>1
    <3>2. u[b] = r.chain[b]
      BY <2>1, <3>1
    <3> QED
      BY <3>1, <3>2
  <2>2. CASE b \notin Carries(r)
    BY <2>2 DEF Known
  <2> QED
    BY <2>1, <2>2
<1> HIDE DEF u
<1> QED
  BY <1>1, <1>6, <1>7

\* Where a hash of the window comes from.
LEMMA RecordOrigin ==
    ASSUME NEW t \in HashWindow, NEW r, r.chain \in [Numbers -> Epochs],
           r.first \in Nat, r.scanned \in Blocks, r.next = r.scanned, r.first < r.next
    PROVE  \A b \in Known(Record(t, r)) :
              \/ b \in Known(t) /\ Record(t, r)[b] = t[b]
              \/ b >= r.first - 1 /\ b < r.next /\ Record(t, r)[b] = r.chain[b]
<1>1. PICK u \in HashWindow :
        /\ Record(t, r) = Trim(u)
        /\ \A b \in Known(u) :
              \/ b \in Known(t) /\ u[b] = t[b]
              \/ b >= r.first - 1 /\ b < r.next /\ u[b] = r.chain[b]
  BY RecordParts
<1>2. \A b \in Known(Trim(u)) : b \in Known(u) /\ Trim(u)[b] = u[b]
  BY TrimForgets
<1> QED
  BY <1>1, <1>2

\* When the response begins where the window ends, its last block becomes the
\* window's.
LEMMA RecordEnds ==
    ASSUME NEW t \in HashWindow, NEW r, r.chain \in [Numbers -> Epochs],
           r.first \in Nat, r.scanned \in Blocks, r.next = r.scanned, r.first < r.next,
           \A b \in Known(t) : b < r.first
    PROVE  r.next - 1 \in Known(Record(t, r))
<1>1. PICK u \in HashWindow :
        /\ Record(t, r) = Trim(u)
        /\ r.next - 1 \in Known(u)
        /\ \A b \in Known(u) : b \in Known(t) \/ b < r.next
  BY RecordParts
<1>2. r.next \in Nat
  BY NumberFacts
<1>3. \A b \in Known(u) : b <= r.next - 1
  <2>1. ASSUME NEW b \in Known(u) PROVE b <= r.next - 1
    <3>1. b \in Nat
      BY NumberFacts DEF Known
    <3>2. b < r.next
      BY <1>1, <1>2, <3>1
    <3> QED
      BY <1>2, <3>1, <3>2
  <2> QED
    BY <2>1
<1> QED
  BY <1>1, <1>3, TrimKeepsLast

-----------------------------------------------------------------------------
(* What the source has delivered is one version of the chain.                *)

\* A sink has been sent a version of the chain, row by row.
Delivered(view, s) ==
    \A x \in Logs : x[1] > vouched =>
        (x \in Applied(s) <=> FromBlock <= x[1] /\ x[1] < Sent /\ x[2] = view[x[1]])

\* What Follows says of the source.
SourceFollows(view) ==
    /\ \A b \in Numbers : view[b] <= epoch
    /\ SharePast(view, born)
    /\ \A b \in Known(tracker) : tracker[b] = view[b]
    /\ Holding => resp.chain = view

\* Follows, in these terms.
LEMMA FollowsByRow ==
    ASSUME NEW view
    PROVE  /\ Follows(view) <=> SourceFollows(view) /\ \A s \in Sinks \ paused : Delivered(view, s)
           /\ Follows(view)' <=> SourceFollows(view)' /\ \A s \in Sinks \ paused' : Delivered(view, s)'
<1>1. ASSUME NEW s PROVE (Vouched(Applied(s)) = Vouched(RowsOf(view, FromBlock, Sent))) <=> Delivered(view, s)
  BY DEF Delivered, Vouched, RowsOf, Applied
<1>2. ASSUME NEW s PROVE (Vouched(Applied(s)) = Vouched(RowsOf(view, FromBlock, Sent)))' <=> Delivered(view, s)'
  <2>1. Applied(s)' \subseteq Logs
    BY DEF Applied
  <2> QED
    BY <2>1 DEF Delivered, Vouched, RowsOf
<1> QED
  BY <1>1, <1>2 DEF Follows, SourceFollows

\* A step that leaves the source alone and changes no sink's prospects.
LEMMA FollowsStays ==
    ASSUME NEW view, Follows(view), UNCHANGED <<epoch, born, loop, cursor, resp, tracker, vouched>>,
           paused \subseteq paused', \A s \in Sinks \ paused' : Applied(s)' = Applied(s)
    PROVE  Follows(view)'
<1>1. SourceFollows(view) /\ \A s \in Sinks \ paused : Delivered(view, s)
  BY FollowsByRow
<1>2. SourceFollows(view)'
  BY <1>1 DEF SourceFollows, SharePast, Holding, Known
<1>3. ASSUME NEW s \in Sinks \ paused' PROVE Delivered(view, s)'
  <2>1. Delivered(view, s) /\ Applied(s)' = Applied(s) /\ Sent' = Sent /\ vouched' = vouched
    BY <1>1 DEF Sent
  <2> QED
    BY <2>1 DEF Delivered
<1> QED
  BY <1>2, <1>3, FollowsByRow

\* The same, when the source moves and the sinks do not.
LEMMA DeliveredStays ==
    ASSUME NEW view, \A s \in Sinks \ paused : Delivered(view, s), UNCHANGED sinkVars, UNCHANGED paused,
           Sent' = Sent, vouched \in Int, vouched' \in Int, vouched <= vouched'
    PROVE  \A s \in Sinks \ paused' : Delivered(view, s)'
<1>1. ASSUME NEW s \in Sinks \ paused' PROVE Delivered(view, s)'
  <2>1. Delivered(view, s) /\ Applied(s)' = Applied(s)
    BY AppliedFrame DEF sinkVars
  <2>2. ASSUME NEW x \in Logs, x[1] > vouched' PROVE x[1] > vouched
    <3>1. x[1] \in Nat
      BY NumberFacts
    <3> QED
      BY <2>2, <3>1
  <2> QED
    BY <2>1, <2>2 DEF Delivered
<1> QED
  BY <1>1

\* A reorg replaces blocks by ones no version that was seen shares.
LEMMA FollowsReorg ==
    ASSUME RTypeOK, NEW view \in [Numbers -> Epochs], Follows(view), NEW f \in 1..height, Reorg(f)
    PROVE  Follows(view)'
<1>1. SourceFollows(view) /\ \A s \in Sinks \ paused : Delivered(view, s)
  BY FollowsByRow
<1>2. /\ epoch' = epoch + 1 /\ epoch \in Nat /\ f \in Nat
      /\ born' = [b \in Numbers |-> IF b >= f THEN epoch + 1 ELSE born[b]]
      /\ \A b \in Numbers : view[b] \in Nat /\ view[b] <= epoch /\ b \in Nat
  <2>1. epoch \in Nat /\ f \in Nat /\ \A b \in Numbers : view[b] \in Nat /\ b \in Nat
    <3>1. epoch \in Epochs /\ height \in Numbers /\ \A b \in Numbers : view[b] \in Epochs
      BY DEF RTypeOK
    <3>2. Epochs \subseteq Nat /\ Numbers \subseteq Nat
      BY NumberFacts
    <3>3. f \in Nat
      BY <3>1, <3>2
    <3> QED
      BY <3>1, <3>2, <3>3
  <2>2. epoch' = epoch + 1 /\ born' = [b \in Numbers |-> IF b >= f THEN epoch + 1 ELSE born[b]]
    BY DEF Reorg
  <2>3. \A b \in Numbers : view[b] <= epoch
    BY <1>1 DEF SourceFollows
  <2> QED
    BY <2>1, <2>2, <2>3
<1>3. SharePast(view, born)'
  <2>1. ASSUME NEW b \in Numbers, view[b] = born'[b], NEW a \in Numbers, a <= b PROVE view[a] = born'[a]
    <3>1. b < f /\ view[b] = born[b]
      BY <1>2, <2>1
    <3>2. a < f
      BY <1>2, <2>1, <3>1
    <3>3. view[a] = born[a]
      BY <1>1, <2>1, <3>1 DEF SourceFollows, SharePast
    <3> QED
      BY <1>2, <3>2, <3>3
  <2> QED
    BY <2>1 DEF SharePast
<1>4. SourceFollows(view)'
  BY <1>1, <1>2, <1>3 DEF SourceFollows, Reorg, sourceVars, Holding, Known
<1>5. Sent' = Sent /\ UNCHANGED <<vouched, paused>> /\ UNCHANGED sinkVars
  BY DEF Reorg, Sent, sourceVars, noteVars, vars, cursorVars
<1>6. \A s \in Sinks \ paused' : Delivered(view, s)'
  BY <1>1, <1>5, DeliveredStays DEF RTypeOK
<1> QED
  BY <1>4, <1>6, FollowsByRow

\* Load, in a process that has not crashed: there is no window yet.
LEMMA FollowsLoad ==
    ASSUME RTypeOK, Anchored, NEW view, Follows(view), Load
    PROVE  Anchored' /\ Follows(view)'
<1>1. filling[Hashes] \in Version
  BY LimitFacts DEF Load, KvGetFill, RTypeOK, TypeOK
<1>2. /\ trackerAt[filling[Hashes]] = NoHashes /\ loop = "load" /\ cursor = FromBlock
  BY <1>1 DEF Anchored, Load
<1>3. Known(NoHashes) = {} /\ Known(Trim(NoHashes)) = {}
  BY TrimForgets DEF Known, NoHashes
<1>4. Known(tracker') = {} /\ vouched' = vouched /\ loop' = "poll" /\ UNCHANGED <<cursor, running, paused, epoch, born>>
  BY <1>2, <1>3 DEF Load, Loaded, KvGetFill, cursorVars, chainVars
<1>5. cursor - 1 <= vouched
  BY <1>2 DEF Anchored
<1>6. Anchored'
  BY <1>4, <1>5 DEF Anchored, Holding
<1>7. SourceFollows(view)'
  BY <1>4, FollowsByRow DEF SourceFollows, SharePast, Holding, Load, chainVars
<1>8. \A s \in Sinks \ paused' : Delivered(view, s)'
  <2>1. Sent' = Sent /\ UNCHANGED sinkVars
    BY <1>2, <1>4 DEF Sent, Load
  <2> QED
    BY <1>4, <2>1, FollowsByRow, DeliveredStays DEF RTypeOK
<1> QED
  BY <1>6, <1>7, <1>8, FollowsByRow

\* Poll, with a conflict: a hash of the window is contradicted, so there is one.
LEMMA FollowsConflict ==
    ASSUME RTypeOK, Anchored, NEW view, Follows(view), Poll, loop' = "locate"
    PROVE  Anchored' /\ Follows(view)'
<1>1. PICK r : Conflict(tracker, r)
  BY DEF Poll
<1>2. Known(tracker) # {}
  BY <1>1, NumberFacts DEF Conflict, Known, RowsOf
<1>3. /\ loop = "poll" /\ UNCHANGED <<running, cursor, fork, tracker, trackerAt, vouched, epoch, born, paused>>
      /\ UNCHANGED sinkVars
  BY DEF Poll, vars, cursorVars, chainVars, noteVars
<1>4. Anchored'
  BY <1>2, <1>3 DEF Anchored, Holding, Known
<1>5. SourceFollows(view)'
  BY <1>3, FollowsByRow DEF SourceFollows, SharePast, Holding, Known
<1>6. \A s \in Sinks \ paused' : Delivered(view, s)'
  <2>1. Sent' = Sent
    BY <1>3 DEF Sent
  <2> QED
    BY <1>3, <2>1, FollowsByRow, DeliveredStays DEF RTypeOK
<1> QED
  BY <1>4, <1>5, <1>6, FollowsByRow

\* Poll, without one: the chain has the block before the cursor that the window
\* has, hence all that was delivered; or nothing is claimed of what was.
LEMMA FollowsPoll ==
    ASSUME RTypeOK, RTypeOK', confirmations = 0, Anchored, NEW view \in [Numbers -> Epochs], Follows(view),
           Poll, loop' = "emit"
    PROVE  Anchored' /\ \E chain \in [Numbers -> Epochs] : Follows(chain)'
<1>1. PICK scanned \in (cursor + 1) .. Least(cursor + MaxPage, height + 1), archive \in {height, Absent} :
        LET r == [first |-> cursor, scanned |-> scanned, next |-> PlanStep(scanned, archive), chain |-> born] IN
        ~Conflict(tracker, r) /\ resp' = r
  BY DEF Poll
<1>2. /\ loop = "poll" /\ UNCHANGED <<running, cursor, fork, tracker, trackerAt, vouched, epoch, born, paused>>
      /\ UNCHANGED sinkVars
  BY DEF Poll, vars, cursorVars, chainVars, noteVars
<1>3. cursor \in Nat /\ height \in Nat /\ MaxPage \in Nat /\ vouched \in Int
  BY NumberFacts, LimitFacts DEF RTypeOK
<1>4. scanned \in Nat /\ scanned <= height + 1 /\ PlanStep(scanned, archive) = scanned
  BY <1>1, <1>3 DEF Least, PlanStep
<1>5. resp'.next = resp'.scanned /\ resp'.chain = born
  BY <1>1, <1>4
<1>6. Anchored'
  BY <1>2, <1>5 DEF Anchored, Holding, Known
<1>7. Known(tracker) # {} => \A b \in Numbers : b < cursor => view[b] = born[b]
  <2> SUFFICES ASSUME Known(tracker) # {}, NEW b \in Numbers, b < cursor PROVE view[b] = born[b]
    OBVIOUS
  <2>1. cursor - 1 \in Known(tracker)
    BY <1>2 DEF Anchored
  <2>2. cursor - 1 \in Numbers /\ tracker[cursor - 1] # Absent
    BY <2>1 DEF Known
  <2>3. tracker[cursor - 1] = born[cursor - 1]
    BY <1>1, <2>2 DEF Conflict
  <2>4. tracker[cursor - 1] = view[cursor - 1]
    BY <2>1, FollowsByRow DEF SourceFollows
  <2>5. SharePast(view, born)
    BY FollowsByRow DEF SourceFollows
  <2>6. b \in Nat /\ b <= cursor - 1
    BY <1>3, NumberFacts
  <2> QED
    BY <2>2, <2>3, <2>4, <2>5, <2>6 DEF SharePast
<1>8. Known(tracker) = {} => cursor - 1 <= vouched
  BY <1>2 DEF Anchored
<1>9. PICK chain \in [Numbers -> Epochs] : chain = born
  BY DEF RTypeOK
<1>10. SourceFollows(chain)'
  <2>1. \A b \in Numbers : chain[b] <= epoch'
    BY <1>2, <1>9 DEF Anchored
  <2>2. SharePast(chain, born)'
    BY <1>2, <1>9 DEF SharePast
  <2>3. ASSUME NEW b \in Known(tracker) PROVE tracker[b] = chain[b]
    <3>1. b \in Numbers /\ b < cursor
      BY DEF Anchored, Known
    <3>2. tracker[b] = view[b]
      BY FollowsByRow DEF SourceFollows
    <3> QED
      BY <1>7, <1>9, <3>1, <3>2
  <2> QED
    BY <1>2, <1>5, <1>9, <2>1, <2>2, <2>3 DEF SourceFollows, Known
<1>11. ASSUME NEW s \in Sinks \ paused' PROVE Delivered(chain, s)'
  <2>1. Delivered(view, s) /\ Applied(s)' = Applied(s)
    BY <1>2, FollowsByRow, AppliedFrame DEF sinkVars
  <2>2. Sent = cursor /\ Sent' = cursor /\ vouched' = vouched
    BY <1>2 DEF Sent
  <2>3. ASSUME NEW x \in Logs, x[1] > vouched, x[1] < cursor PROVE view[x[1]] = chain[x[1]]
    <3>1. x[1] \in Numbers /\ x[1] \in Nat
      BY NumberFacts
    <3>2. Known(tracker) # {}
      BY <1>3, <1>8, <2>3, <3>1
    <3> QED
      BY <1>7, <1>9, <2>3, <3>1, <3>2
  <2> QED
    BY <2>1, <2>2, <2>3 DEF Delivered
<1> QED
  BY <1>6, <1>10, <1>11, FollowsByRow

\* The rows of a response go to every sink that is left.
LEMMA AppliedEmit ==
    ASSUME RTypeOK, StepInv, EmitRows, NEW s \in Sinks \ paused
    PROVE  Applied(s)' = Applied(s) \cup RowsOf(resp.chain, resp.first, resp.next)
<1> DEFINE rows == RowsOf(resp.chain, resp.first, resp.next)
           m == [rows |-> rows, ack |-> resp.next, fork |-> Absent]
<1>1. UNCHANGED <<stage, table>>
  BY DEF EmitRows
<1>2. CASE rows = {}
  <2>1. UNCHANGED inbox
    BY <1>2 DEF EmitRows
  <2> QED
    BY <1>1, <1>2, <2>1, AppliedFrame
<1>3. CASE rows # {}
  <2>1. m \in Message
    BY RowsOfType DEF Message, RTypeOK
  <2>2. Send(m)
    BY <1>3 DEF EmitRows
  <2>3. m.fork = Absent /\ m.rows = rows
    OBVIOUS
  <2> HIDE DEF m
  <2> QED
    BY <1>1, <2>1, <2>2, <2>3, AppliedSend
<1> QED
  BY <1>2, <1>3

\* A rollback voids what is above the fork.
LEMMA AppliedRollback ==
    ASSUME RTypeOK, StepInv, SendRollback, NEW s \in Sinks \ paused
    PROVE  Applied(s)' = Surviving(Applied(s), fork)
<1> DEFINE m == [rows |-> {}, ack |-> fork, fork |-> fork]
<1>1. Send(m) /\ UNCHANGED <<stage, table>>
  BY DEF SendRollback
<1>2. m \in Message /\ m.fork = fork /\ m.fork # Absent
  BY NumberFacts, LimitFacts DEF Message, RTypeOK
<1> HIDE DEF m
<1> QED
  BY <1>1, <1>2, AppliedSend

\* What was sent of a version of the chain grows by the rows of a response.
LEMMA FollowsEmit ==
    ASSUME RTypeOK, StepInv, Anchored, NEW view, Follows(view), EmitRows
    PROVE  Anchored' /\ Follows(view)'
<1> DEFINE rows == RowsOf(resp.chain, resp.first, resp.next)
<1>1. /\ loop = "emit" /\ loop' = "save" /\ UNCHANGED <<stage, table>>
      /\ UNCHANGED <<running, cursor, fork, resp, tracker, trackerAt, vouched, epoch, born, paused>>
  BY DEF EmitRows, vars, cursorVars, chainVars, noteVars
<1>2. Anchored'
  BY <1>1 DEF Anchored, Holding, Known
<1>3. SourceFollows(view)'
  BY <1>1, FollowsByRow DEF SourceFollows, SharePast, Holding, Known
<1>4. resp.chain = view /\ resp.first = cursor /\ cursor < resp.next /\ FromBlock <= cursor
  BY <1>1, FollowsByRow DEF SourceFollows, Holding, StepInv, Anchored
<1>5. cursor \in Nat /\ resp.next \in Nat /\ FromBlock \in Nat
  BY NumberFacts DEF RTypeOK
<1>6. ASSUME NEW s \in Sinks \ paused' PROVE Applied(s)' = Applied(s) \cup rows
  BY <1>1, AppliedEmit
<1>7. ASSUME NEW s \in Sinks \ paused' PROVE Delivered(view, s)'
  <2>1. Delivered(view, s) /\ Applied(s)' = Applied(s) \cup rows
    BY <1>1, <1>6, FollowsByRow
  <2>2. Sent = cursor /\ Sent' = resp.next /\ vouched' = vouched
    BY <1>1 DEF Sent
  <2>3. \A x \in Logs : x \in rows <=> cursor <= x[1] /\ x[1] < resp.next /\ x[2] = view[x[1]]
    BY <1>4 DEF RowsOf
  <2>4. \A x \in Logs : x[1] \in Nat
    BY NumberFacts
  <2> HIDE DEF rows
  <2> QED
    BY <1>4, <1>5, <2>1, <2>2, <2>3, <2>4 DEF Delivered
<1> QED
  BY <1>2, <1>3, <1>7, FollowsByRow

\* Remembering what was sent makes its last block the end of the window.
LEMMA FollowsRemember ==
    ASSUME RTypeOK, StepInv, Anchored, NEW view, Follows(view), Remember
    PROVE  Anchored' /\ Follows(view)'
<1>1. /\ loop = "save" /\ loop' = "poll" /\ cursor' = resp.next /\ tracker' = Record(tracker, resp)
      /\ UNCHANGED sinkVars
      /\ UNCHANGED <<running, fork, vouched, epoch, born, paused>>
  BY DEF Remember, Save, KvSet, cursorVars, chainVars, noteVars
<1>2. /\ resp.chain = view /\ resp.first = cursor /\ cursor < resp.next /\ resp.next = resp.scanned
      /\ FromBlock <= cursor
  BY <1>1, FollowsByRow DEF SourceFollows, Holding, StepInv, Anchored
<1>3. /\ cursor \in Nat /\ resp.next \in Nat /\ FromBlock \in Nat /\ tracker \in HashWindow
      /\ resp.chain \in [Numbers -> Epochs] /\ resp.scanned \in Blocks
  BY NumberFacts DEF RTypeOK
<1>4. \A b \in Known(tracker) : FromBlock - 1 <= b /\ b < cursor /\ tracker[b] = view[b]
  BY FollowsByRow DEF SourceFollows, Anchored
<1>5. /\ \A b \in Known(tracker') :
            \/ b \in Known(tracker) /\ tracker'[b] = tracker[b]
            \/ b >= cursor - 1 /\ b < resp.next /\ tracker'[b] = view[b]
      /\ resp.next - 1 \in Known(tracker')
  BY <1>1, <1>2, <1>3, <1>4, RecordOrigin, RecordEnds
<1>6. \A b \in Known(tracker') : FromBlock - 1 <= b /\ b < cursor' /\ tracker'[b] = view[b]
  <2>1. \A b \in Known(tracker') : b \in Nat
    BY NumberFacts DEF Known
  <2> QED
    BY <1>1, <1>2, <1>3, <1>4, <1>5, <2>1
<1>7. Anchored'
  BY <1>1, <1>2, <1>3, <1>5, <1>6 DEF Anchored, Holding
<1>8. SourceFollows(view)'
  BY <1>1, <1>6, FollowsByRow DEF SourceFollows, SharePast, Holding
<1>9. \A s \in Sinks \ paused' : Delivered(view, s)'
  <2>1. Sent' = Sent
    BY <1>1 DEF Sent
  <2> QED
    BY <1>1, <2>1, FollowsByRow, DeliveredStays DEF RTypeOK
<1> QED
  BY <1>7, <1>8, <1>9, FollowsByRow

\* The fork is a block of the window, or the window is dropped and nothing is
\* claimed of what is below it.
LEMMA FollowsLocate ==
    ASSUME RTypeOK, RTypeOK', Anchored, NEW view, Follows(view), LocateFork
    PROVE  Anchored' /\ Follows(view)'
<1>1. PICK upto \in 0..cursor :
        LET matching == Matching(tracker, born, upto) IN
        /\ fork' = IF matching = {} THEN Coarse(tracker) ELSE CHOOSE b \in matching : IsLast(b, matching)
        /\ vouched' = IF matching = {} THEN Greatest(vouched, fork') ELSE vouched
  BY DEF LocateFork
<1>2. /\ loop = "locate" /\ loop' = "rollback" /\ tracker' = PurgeAfter(tracker, fork')
      /\ UNCHANGED sinkVars
      /\ UNCHANGED <<running, cursor, epoch, born, paused>>
  BY DEF LocateFork, Save, KvSet, cursorVars, chainVars
<1>3. cursor \in Nat /\ vouched \in Int /\ fork' \in Nat /\ Known(tracker) \subseteq Nat
  BY NumberFacts DEF RTypeOK, Known
<1>4. /\ Known(tracker') = {b \in Known(tracker) : b <= fork'}
      /\ \A b \in Known(tracker') : tracker'[b] = tracker[b]
  BY <1>2, PurgeFacts
<1>5. /\ fork' < cursor /\ vouched <= vouched'
      /\ fork' \in Known(tracker') \/ (Known(tracker') = {} /\ fork' <= vouched')
  <2> DEFINE matching == Matching(tracker, born, upto)
  <2>1. matching \in SUBSET Numbers /\ Known(tracker) \in SUBSET Numbers
    BY DEF Matching, Known
  <2>2. CASE matching # {}
    <3>1. fork' \in matching /\ vouched' = vouched
      BY <1>1, <2>1, <2>2, LastExists
    <3>2. fork' \in Known(tracker) /\ fork' < cursor
      BY <3>1 DEF Matching, Anchored
    <3> QED
      BY <1>3, <1>4, <3>1, <3>2
  <2>3. CASE matching = {}
    <3> DEFINE first == CHOOSE b \in Known(tracker) : IsFirst(b, Known(tracker))
    <3>1. Known(tracker) # {}
      BY <1>2 DEF Anchored
    <3>2. first \in Known(tracker) /\ \A b \in Known(tracker) : first <= b
      BY <2>1, <3>1, FirstExists
    <3>3. fork' = Greatest(first - 1, 0) /\ vouched' = Greatest(vouched, fork')
      BY <1>1, <2>3, <3>1 DEF Coarse
    <3>4. first < cursor /\ first \in Nat
      BY <1>3, <3>2 DEF Anchored
    <3> HIDE DEF first
    <3>5. vouched <= vouched' /\ fork' <= vouched'
      BY <1>3, <3>3 DEF Greatest
    <3>6. CASE first = 0
      <4>1. fork' = 0
        BY <3>3, <3>6 DEF Greatest
      <4>2. fork' \in Known(tracker')
        BY <1>4, <3>2, <3>6, <4>1
      <4> QED
        BY <3>4, <3>5, <3>6, <4>1, <4>2
    <3>7. CASE first # 0
      <4>1. fork' = first - 1
        BY <3>3, <3>4, <3>7 DEF Greatest
      <4>2. Known(tracker') = {}
        BY <1>3, <1>4, <3>2, <3>4, <4>1
      <4>3. fork' < cursor
        BY <1>3, <3>4, <4>1
      <4> QED
        BY <3>5, <4>2, <4>3
    <3> QED
      BY <3>6, <3>7
  <2> QED
    BY <2>2, <2>3
<1>6. Anchored'
  <2>1. FromBlock - 1 <= vouched'
    BY <1>3, <1>5, NumberFacts DEF Anchored, RTypeOK
  <2> QED
    BY <1>2, <1>4, <1>5, <2>1 DEF Anchored, Holding
<1>7. SourceFollows(view)'
  BY <1>2, <1>4, FollowsByRow DEF SourceFollows, SharePast, Holding
<1>8. \A s \in Sinks \ paused' : Delivered(view, s)'
  <2>1. Sent' = Sent
    BY <1>2 DEF Sent
  <2>2. vouched \in Int /\ vouched' \in Int
    BY DEF RTypeOK
  <2> QED
    BY <1>2, <1>5, <2>1, <2>2, FollowsByRow, DeliveredStays
<1> QED
  BY <1>6, <1>7, <1>8, FollowsByRow

\* The rollback voids what the cursor will deliver again.
LEMMA FollowsRollback ==
    ASSUME RTypeOK, StepInv, Anchored, NEW view, Follows(view), SendRollback
    PROVE  Anchored' /\ Follows(view)'
<1>1. /\ loop = "rollback" /\ loop' = "poll" /\ cursor' = Greatest(fork + 1, FromBlock)
      /\ UNCHANGED <<stage, table>>
      /\ UNCHANGED <<running, tracker, trackerAt, vouched, epoch, born, paused>>
  BY DEF SendRollback, vars, cursorVars, chainVars, noteVars
<1>2. fork \in Nat /\ cursor \in Nat /\ vouched \in Int /\ FromBlock \in Nat /\ Known(tracker) \subseteq Nat
  BY NumberFacts DEF RTypeOK, Known
<1>3. /\ fork < cursor /\ FromBlock - 1 <= vouched
      /\ \A b \in Known(tracker) : b <= fork /\ FromBlock - 1 <= b
      /\ fork \in Known(tracker) \/ (Known(tracker) = {} /\ fork <= vouched)
  BY <1>1 DEF Anchored
<1>4. cursor' \in Nat /\ FromBlock <= cursor' /\ fork + 1 <= cursor' /\ (cursor' = fork + 1 \/ cursor' = FromBlock)
  BY <1>1, <1>2 DEF Greatest
<1>5. \A b \in Known(tracker) : FromBlock - 1 <= b /\ b < cursor'
  BY <1>2, <1>3, <1>4
<1>6. cursor' - 1 \in Known(tracker) \/ (Known(tracker) = {} /\ cursor' - 1 <= vouched)
  <2>1. CASE fork \in Known(tracker)
    <3>1. cursor' - 1 = fork
      BY <1>1, <1>2, <1>3, <2>1 DEF Greatest
    <3> QED
      BY <2>1, <3>1
  <2>2. CASE Known(tracker) = {} /\ fork <= vouched
    <3>1. cursor' = fork + 1 => cursor' - 1 <= vouched
      BY <1>2, <2>2
    <3>2. cursor' = FromBlock => cursor' - 1 <= vouched
      BY <1>3
    <3> QED
      BY <1>4, <2>2, <3>1, <3>2
  <2> QED
    BY <1>3, <2>1, <2>2
<1>7. Anchored'
  BY <1>1, <1>4, <1>5, <1>6, Zenon DEF Anchored, Holding, Known
<1>8. SourceFollows(view)'
  BY <1>1, FollowsByRow DEF SourceFollows, SharePast, Holding, Known
<1>9. ASSUME NEW s \in Sinks \ paused' PROVE Delivered(view, s)'
  <2>1. Applied(s)' = Surviving(Applied(s), fork)
    BY <1>1, AppliedRollback
  <2>2. Delivered(view, s) /\ Sent = cursor /\ Sent' = cursor' /\ vouched' = vouched
    BY <1>1, FollowsByRow DEF Sent
  <2>3. \A x \in Logs : x[1] \in Nat
    BY NumberFacts
  <2>4. ASSUME NEW x \in Logs
        PROVE  (FromBlock <= x[1] /\ x[1] < cursor' <=> FromBlock <= x[1] /\ x[1] < cursor /\ x[1] <= fork)
    BY <1>2, <1>3, <1>4, <2>3
  <2>5. \A x \in Logs : x \in Applied(s)' <=> x \in Applied(s) /\ x[1] <= fork
    BY <2>1 DEF Surviving
  <2> QED
    BY <2>2, <2>4, <2>5 DEF Delivered
<1> QED
  BY <1>7, <1>8, <1>9, FollowsByRow

\* A sink's own steps do not change what its table will hold, or pause it.
LEMMA AppliedSinkStep ==
    ASSUME RTypeOK, StepInv, NEW s \in Sinks, SinkStep(s)
    PROVE  /\ \A t \in Sinks \ paused' : Applied(t)' = Applied(t)
           /\ paused \subseteq paused'
<1> DEFINE Rest == \A t \in Sinks : t # s => Applied(t)' = Applied(t)
<1>1. CASE Write(s)
  <2>1. Rest
    BY <1>1, AppliedFrame DEF Write, RTypeOK
  <2> QED
    BY <1>1, <2>1, AppliedWrite DEF Write, vars, cursorVars
<1>2. CASE AckBatch(s)
  <2>1. Rest
    BY <1>2, AppliedFrame DEF AckBatch, Finish, RTypeOK
  <2>2. stage[s] # "recv" /\ Finish(s) /\ UNCHANGED table /\ paused' = paused
    BY <1>2 DEF AckBatch, Ack
  <2> QED
    BY <2>1, <2>2, AppliedFinish
<1>3. CASE BeginRewind(s)
  <2>1. Rest
    BY <1>3, AppliedFrame DEF BeginRewind, RTypeOK
  <2> QED
    BY <1>3, <2>1, AppliedBeginRewind DEF BeginRewind, RewindMemory
<1>4. CASE EndRewind(s)
  <2>1. Rest
    BY <1>4, AppliedFrame DEF EndRewind, Finish, RTypeOK
  <2>2. stage[s] # "recv" /\ Finish(s) /\ UNCHANGED table /\ paused' = paused
    BY <1>4 DEF EndRewind, RewindUpdate
  <2> QED
    BY <2>1, <2>2, AppliedFinish
<1>5. CASE GiveUp(s)
  <2>1. Rest
    BY <1>5, AppliedFrame DEF GiveUp, RTypeOK
  <2>2. paused' = paused \cup {s}
    BY <1>5 DEF GiveUp, Pause
  <2> QED
    BY <2>1, <2>2
<1> QED
  BY <1>1, <1>2, <1>3, <1>4, <1>5 DEF SinkStep

\* While the process has not crashed it runs, and no step but a crash ends that.
LEMMA Uncrashed ==
    ASSUME RTypeOK, [RNext]_rvars, confirmations' = 0 /\ crashes' = 0
    PROVE  confirmations = 0 /\ crashes = 0 /\ ~Kill
<1>1. crashes \in Nat
  BY DEF RTypeOK, TypeOK
<1>2. ~Kill
  BY <1>1 DEF Kill, Crash
<1>3. confirmations' = confirmations
  BY DEF RNext, Mine, Reorg, LoadMiss, Load, Poll, EmitRows, Remember, LocateFork, SendRollback,
         SinkStep, Write, AckBatch, BeginRewind, EndRewind, GiveUp, Tick, Drain, Kill, Restart, Memory,
         chainVars, sourceVars, rvars
<1>4. UNCHANGED vars => crashes' = crashes
  BY DEF vars, historyVars
<1>5. CASE (\E s \in Sinks : SinkStep(s)) \/ Restart
  BY <1>2, <1>3, <1>4, <1>5 DEF SinkStep, Write, AckBatch, BeginRewind, EndRewind, GiveUp, Ack, RewindMemory,
                                RewindUpdate, Pause, Restart, Open, historyVars
<1>6. CASE Tick \/ Drain
  BY <1>2, <1>3, <1>6 DEF Tick, Drain, Snapshot, ReadFloor, InsertRow, Commit, PersistBegin, historyVars
<1>7. CASE LoadMiss \/ Load \/ Remember \/ LocateFork
  BY <1>2, <1>3, <1>7 DEF LoadMiss, Load, Remember, LocateFork, Save, KvSet, KvGetMiss, KvGetFill, historyVars
<1>8. CASE Mine \/ (\E f \in 1..height : Reorg(f)) \/ Poll \/ EmitRows \/ SendRollback \/ UNCHANGED rvars
  BY <1>2, <1>3, <1>4, <1>8 DEF Mine, Reorg, Poll, EmitRows, SendRollback, rvars
<1> QED
  BY <1>2, <1>3, <1>5, <1>6, <1>7, <1>8 DEF RNext

\* Every step keeps FollowInv.
LEMMA FollowStep ==
    ASSUME RTypeOK, StepInv, RTypeOK', FollowInv, [RNext]_rvars
    PROVE  FollowInv'
<1> SUFFICES ASSUME confirmations' = 0 /\ crashes' = 0
             PROVE  Anchored' /\ \E view \in [Numbers -> Epochs] : Follows(view)'
  BY DEF FollowInv
<1>1. confirmations = 0 /\ crashes = 0 /\ ~Kill
  BY Uncrashed
<1>2. Anchored /\ \E view \in [Numbers -> Epochs] : Follows(view)
  BY <1>1 DEF FollowInv
<1>3. PICK view \in [Numbers -> Epochs] : Follows(view)
  BY <1>2
<1>4. ~Restart
  BY <1>2 DEF Restart, Open, Anchored
<1>5. ASSUME UNCHANGED <<running, epoch, born, loop, cursor, resp, fork, tracker, trackerAt, vouched>>,
             paused \subseteq paused', \A s \in Sinks \ paused' : Applied(s)' = Applied(s)
      PROVE  Anchored' /\ Follows(view)'
  <2>1. Anchored'
    BY <1>2, <1>5 DEF Anchored, Holding, Known
  <2> QED
    BY <1>3, <1>5, <2>1, FollowsStays
<1>6. ASSUME UNCHANGED <<running, epoch, born, loop, cursor, resp, fork, tracker, trackerAt, vouched, paused>>,
             UNCHANGED sinkVars
      PROVE  Anchored' /\ Follows(view)'
  BY <1>5, <1>6, AppliedFrame DEF sinkVars
<1>7. CASE Mine \/ UNCHANGED rvars
  BY <1>3, <1>6, <1>7 DEF Mine, rvars, vars, cursorVars, chainVars, sourceVars, noteVars
<1>8. CASE LoadMiss
  BY <1>3, <1>6, <1>8 DEF LoadMiss, KvGetMiss, cursorVars, chainVars, sourceVars, noteVars
<1>9. CASE Tick
  BY <1>3, <1>6, <1>9
     DEF Tick, Snapshot, ReadFloor, InsertRow, Commit, cursorVars, chainVars, sourceVars, noteVars
<1>10. CASE Drain
  BY <1>3, <1>6, <1>10 DEF Drain, PersistBegin, cursorVars, chainVars, sourceVars
<1>11. ASSUME NEW s \in Sinks, SinkStep(s) PROVE Anchored' /\ Follows(view)'
  <2>1. UNCHANGED <<running, epoch, born, loop, cursor, resp, fork, tracker, trackerAt, vouched>>
    BY <1>11 DEF SinkStep, Write, AckBatch, BeginRewind, EndRewind, GiveUp, Ack, RewindMemory,
                 RewindUpdate, Pause, vars, chainVars, sourceVars, noteVars
  <2> QED
    BY <1>5, <1>11, <2>1, AppliedSinkStep
<1>12. ASSUME NEW f \in 1..height, Reorg(f) PROVE Anchored' /\ Follows(view)'
  <2>1. \A b \in Numbers : born'[b] <= epoch'
    <3>1. /\ epoch \in Nat /\ epoch' = epoch + 1 /\ \A b \in Numbers : born[b] \in Nat /\ born[b] <= epoch
          /\ born' = [b \in Numbers |-> IF b >= f THEN epoch + 1 ELSE born[b]]
      BY <1>2, <1>12, NumberFacts DEF Reorg, RTypeOK, Anchored
    <3> QED
      BY <3>1
  <2>2. Anchored'
    BY <1>2, <1>12, <2>1 DEF Anchored, Reorg, vars, sourceVars, noteVars, Holding, Known
  <2> QED
    BY <1>3, <1>12, <2>2, FollowsReorg
<1>13. CASE Poll
  <2>1. loop' = "locate" \/ loop' = "emit"
    BY <1>13 DEF Poll
  <2> QED
    BY <1>1, <1>2, <1>3, <1>13, <2>1, FollowsConflict, FollowsPoll
<1>14. CASE Load \/ EmitRows \/ Remember \/ LocateFork \/ SendRollback
  BY <1>2, <1>3, <1>14, FollowsLoad, FollowsEmit, FollowsRemember, FollowsLocate, FollowsRollback
<1> QED
  BY <1>1, <1>3, <1>4, <1>7, <1>8, <1>9, <1>10, <1>11, <1>12, <1>13, <1>14 DEF RNext

\* It holds at the start: nothing is delivered.
LEMMA FollowInit == RInit => FollowInv
<1> SUFFICES ASSUME RInit PROVE Anchored /\ \E view \in [Numbers -> Epochs] : Follows(view)
  BY DEF FollowInv
<1>1. Known(tracker) = {} /\ loop = "load" /\ cursor = FromBlock /\ vouched = FromBlock - 1
  BY DEF RInit, Known, NoHashes
<1>2. Anchored
  <2>1. running
    BY DEF RInit, Init
  <2>2. \A b \in Numbers : born[b] <= epoch
    BY DEF RInit
  <2>3. \A v \in Version : trackerAt[v] = NoHashes
    BY DEF RInit
  <2> QED
    BY <1>1, <2>1, <2>2, <2>3, NumberFacts DEF Anchored, Holding
<1>3. PICK view \in [Numbers -> Epochs] : view = [b \in Numbers |-> 0]
  BY NumberFacts
<1>4. SourceFollows(view)
  BY <1>1, <1>3 DEF SourceFollows, SharePast, Holding, RInit
<1>5. ASSUME NEW s \in Sinks PROVE Delivered(view, s)
  <2>1. Applied(s) = {}
    BY ChannelEmpty DEF Applied, Pending, RInit
  <2>2. Sent = FromBlock /\ FromBlock \in Nat /\ \A x \in Logs : x[1] \in Nat
    BY <1>1, NumberFacts DEF Sent
  <2> QED
    BY <2>1, <2>2 DEF Delivered
<1> QED
  BY <1>2, <1>4, <1>5, FollowsByRow

\* It gives the property: the block before the cursor tells the whole past.
LEMMA FollowImplies ==
    ASSUME RTypeOK, FollowInv
    PROVE  SinkMatchesChain
<1> SUFFICES ASSUME confirmations = 0, crashes = 0, NothingNoticed, NEW s \in Sinks, CaughtUp(s)
             PROVE  Vouched(table[s]) = Canonical
  BY DEF SinkMatchesChain, TablesAreCanonical
<1>1. PICK view \in [Numbers -> Epochs] : Anchored /\ Follows(view)
  BY DEF FollowInv
<1>2. inbox[s] = <<>> /\ s \notin paused /\ loop = "poll"
  BY DEF CaughtUp, NothingNoticed
<1>3. Applied(s) = table[s]
  <2>1. Pending(s) = {}
    BY <1>2, ChannelEmpty DEF Pending
  <2> QED
    BY <2>1, SinkFacts DEF Applied, Survives
<1>4. Sent = cursor /\ Delivered(view, s)
  BY <1>1, <1>2, FollowsByRow DEF Sent
<1>5. ASSUME NEW x \in Logs, x[1] > vouched, x[1] < cursor PROVE view[x[1]] = born[x[1]]
  <2>1. x[1] \in Numbers /\ x[1] \in Nat /\ cursor \in Nat /\ vouched \in Int
    BY NumberFacts DEF RTypeOK
  <2>2. cursor - 1 \in Known(tracker) /\ x[1] <= cursor - 1
    BY <1>1, <1>2, <1>5, <2>1 DEF Anchored
  <2>3. tracker[cursor - 1] = born[cursor - 1] /\ cursor - 1 \in Numbers
    <3>1. cursor > 0
      BY <1>5, <2>1
    <3> QED
      BY <2>2, <3>1 DEF NothingNoticed, Known
  <2>4. tracker[cursor - 1] = view[cursor - 1] /\ SharePast(view, born)
    BY <1>1, <2>2, FollowsByRow DEF SourceFollows
  <2> QED
    BY <2>1, <2>2, <2>3, <2>4 DEF SharePast
<1>6. table[s] \subseteq Logs
  BY SinkFacts
<1> QED
  BY <1>3, <1>4, <1>5, <1>6 DEF Delivered, Vouched, Canonical, RowsOf

\* SinkMatchesChain: however reorgs, polls, batches, rollbacks and rewinds fall,
\* whenever the window agrees with the chain at the block before the cursor,
\* every sink that has caught up holds exactly the rows of the chain below the
\* cursor (HyperSyncSource::run, ReorgTracker, sink_task).
THEOREM ReorgSinkMatchesChain == RSpec => []SinkMatchesChain
<1>1. RTypeOK /\ StepInv /\ FollowInv /\ [RNext]_rvars => FollowInv'
  BY FollowStep, RTypeStep
<1>2. RTypeOK /\ FollowInv => SinkMatchesChain
  BY FollowImplies
<1> QED
  BY <1>1, <1>2, FollowInit, RTypedAlways, PTL DEF RSpec

==============================================================================
