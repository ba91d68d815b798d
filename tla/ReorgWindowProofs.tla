-------------------------- MODULE ReorgWindowProofs --------------------------
(* Proofs about ReorgSource, continued: the window of hashes across saves,
   ticks, crashes and restarts (WindowInv), and what the source's steps leave of
   what holds below a sink's cursor (Keeps). *)
EXTENDS ReorgSourceProofs

-----------------------------------------------------------------------------
(* Windows.                                                                  *)

\* Block numbers are finite in number, and so are the blocks of a window.
LEMMA KnownFinite ==
    ASSUME NEW t, NEW T \in SUBSET Known(t)
    PROVE  IsFiniteSet(T) /\ Cardinality(T) \in Nat
<1>1. IsFiniteSet(Numbers)
  BY NumberFacts, FS_Interval DEF Numbers
<1>2. T \subseteq Numbers
  BY DEF Known
<1> QED
  BY <1>1, <1>2, FS_Subset, FS_CardinalityType

\* Fewer blocks of a window are no more.
LEMMA KnownCard ==
    ASSUME NEW t, NEW T \in SUBSET Known(t), NEW U \in SUBSET T
    PROVE  /\ Cardinality(U) <= Cardinality(T)
           /\ U # T => Cardinality(U) < Cardinality(T)
<1>1. IsFiniteSet(T) /\ Cardinality(T) \in Nat
  BY KnownFinite
<1>2. /\ IsFiniteSet(U) /\ Cardinality(U) <= Cardinality(T)
      /\ Cardinality(T) = Cardinality(U) => T = U
  BY <1>1, FS_Subset
<1>3. Cardinality(U) \in Nat
  BY <1>2, FS_CardinalityType
<1> QED
  BY <1>1, <1>2, <1>3

\* One element more is at most one more.
LEMMA OneMore ==
    ASSUME NEW T, IsFiniteSet(T), NEW e
    PROVE  IsFiniteSet(T \cup {e}) /\ Cardinality(T \cup {e}) <= Cardinality(T) + 1
<1>1. Cardinality(T) \in Nat /\ IsFiniteSet(T \cup {e})
  BY FS_CardinalityType, FS_AddElement
<1>2. CASE e \in T
  <2>1. T \cup {e} = T
    BY <1>2
  <2>2. Cardinality(T \cup {e}) = Cardinality(T)
    BY <2>1
  <2> QED
    BY <1>1, <2>2
<1>3. CASE e \notin T
  <2>1. Cardinality(T \cup {e}) = Cardinality(T) + 1
    BY <1>3, FS_AddElement
  <2> QED
    BY <1>1, <2>1
<1> QED
  BY <1>2, <1>3

\* From a later block on there are no more.
LEMMA FromOn ==
    ASSUME NEW t, NEW a \in Int, NEW b \in Int, a <= b
    PROVE  Cardinality({c \in Known(t) : c >= b}) <= Cardinality({c \in Known(t) : c >= a})
<1>1. \A c \in Known(t) : c \in Nat
  BY NumberFacts DEF Known
<1>2. {c \in Known(t) : c >= b} \in SUBSET {c \in Known(t) : c >= a}
  BY <1>1
<1> QED
  BY <1>2, KnownCard

\* A trimmed window keeps to its size.
LEMMA TrimBounds ==
    ASSUME NEW t
    PROVE  Cardinality(Known(Trim(t))) <= Window
<1> DEFINE K == Known(Trim(t))
<1>1. K \in SUBSET Known(t) /\ K \in SUBSET Numbers
  BY TrimForgets DEF Known
<1>2. CASE K = {}
  BY <1>2, FS_EmptySet, LimitFacts
<1>3. CASE K # {}
  <2>1. PICK m \in K : \A c \in K : m <= c
    BY <1>1, <1>3, NumberFacts, LeastElement
  <2>2. Cardinality({c \in Known(t) : c >= m}) <= Window
    BY <2>1 DEF Trim, Known, Absent
  <2>3. K \in SUBSET {c \in Known(t) : c >= m}
    <3>1. \A c \in K : c \in Nat
      BY <1>1, NumberFacts
    <3> QED
      BY <1>1, <2>1, <3>1
  <2> HIDE DEF K
  <2>4. Cardinality(K) <= Cardinality({c \in Known(t) : c >= m})
    BY <2>3, KnownCard
  <2>5. Cardinality(K) \in Nat /\ Cardinality({c \in Known(t) : c >= m}) \in Nat
    BY <1>1, KnownFinite
  <2> QED
    BY <2>2, <2>4, <2>5, LimitFacts DEF K
<1> QED
  BY <1>2, <1>3

\* Trimming a window that keeps to its size changes nothing.
LEMMA TrimIdle ==
    ASSUME NEW t \in HashWindow, Cardinality(Known(t)) <= Window
    PROVE  Trim(t) = t
<1>1. ASSUME NEW b \in Numbers PROVE Cardinality({c \in Known(t) : c >= b}) <= Window
  <2>1. Cardinality({c \in Known(t) : c >= b}) <= Cardinality(Known(t))
    BY KnownCard
  <2>2. Cardinality({c \in Known(t) : c >= b}) \in Nat /\ Cardinality(Known(t)) \in Nat
    BY KnownFinite
  <2> QED
    BY <2>1, <2>2, LimitFacts
<1> QED
  BY <1>1 DEF Trim, HashWindow

\* A block that is trimmed is below all that are kept, and some are.
LEMMA TrimmedIsBelow ==
    ASSUME NEW t \in HashWindow, NEW b \in Known(t), b \notin Known(Trim(t))
    PROVE  Known(Trim(t)) # {} /\ \A c \in Known(Trim(t)) : b < c
<1>1. Known(t) \in SUBSET Numbers /\ Known(t) # {} /\ b \in Nat
  BY NumberFacts DEF Known
<1>2. PICK l \in Known(t) : \A c \in Known(t) : c <= l
  BY <1>1, LastExists
<1>3. l \in Known(Trim(t))
  BY <1>2, TrimKeepsLast
<1>4. ~(Cardinality({c \in Known(t) : c >= b}) <= Window)
  BY DEF Trim, Known
<1>5. ASSUME NEW d \in Known(Trim(t)) PROVE b < d
  <2>1. d \in Nat /\ Cardinality({c \in Known(t) : c >= d}) <= Window
    BY NumberFacts DEF Trim, Known
  <2>2. CASE d <= b
    <3>1. Cardinality({c \in Known(t) : c >= b}) <= Cardinality({c \in Known(t) : c >= d})
      BY <1>1, <2>1, <2>2, FromOn
    <3>2. Cardinality({c \in Known(t) : c >= b}) \in Nat /\ Cardinality({c \in Known(t) : c >= d}) \in Nat
      BY KnownFinite
    <3> QED
      BY <1>4, <2>1, <3>1, <3>2, LimitFacts
  <2> QED
    BY <1>1, <2>1, <2>2
<1> QED
  BY <1>3, <1>5

-----------------------------------------------------------------------------
(* What a window is good for: Rooted and Remembers.                          *)

\* Claiming less keeps a block rooted.
LEMMA RootedGrows ==
    ASSUME NEW b \in Int, NEW t, NEW v \in Int, NEW w \in Int, v <= w, Rooted(b, t, v)
    PROVE  Rooted(b, t, w)
BY DEF Rooted

\* A block below the response stays rooted when the response is remembered.
LEMMA RootedRecord ==
    ASSUME NEW t \in HashWindow, NEW r, r.chain \in [Numbers -> Epochs],
           r.first \in Nat, r.scanned \in Blocks, r.next = r.scanned, r.first < r.next,
           NEW v \in Int, r.first - 1 \in Known(t) \/ r.first - 1 <= v,
           NEW b \in Numbers, b < r.first, Rooted(b, t, v)
    PROVE  Rooted(b, Record(t, r), v)
<1>1. PICK u \in HashWindow :
        /\ Record(t, r) = Trim(u)
        /\ Known(t) \subseteq Known(u)
        /\ r.next - 1 \in Known(u)
        /\ \A c \in Known(u) : c \in Known(t) \/ c >= r.first - 1
  BY RecordParts
<1>2. Known(Trim(u)) \subseteq Known(u)
  BY TrimForgets
<1>3. b \in Nat /\ \A c \in Known(u) : c \in Nat
  BY NumberFacts DEF Known
<1>4. ASSUME b \in Known(u) PROVE Rooted(b, Trim(u), v)
  BY <1>4, TrimmedIsBelow DEF Rooted
<1>5. CASE b \in Known(t)
  BY <1>1, <1>4, <1>5
<1>6. CASE b <= v
  BY <1>6 DEF Rooted
<1>7. CASE Known(t) # {} /\ \A c \in Known(t) : b < c
  <2>1. CASE b = r.first - 1
    BY <1>3, <1>7, <2>1 DEF Rooted
  <2>2. CASE b # r.first - 1
    <3>1. \A c \in Known(u) : b < c
      BY <1>1, <1>3, <1>7, <2>2
    <3>2. Known(Trim(u)) # {}
      BY <1>1, TrimmedIsBelow
    <3> QED
      BY <1>1, <1>2, <3>1, <3>2 DEF Rooted
  <2> QED
    BY <2>1, <2>2
<1> QED
  BY <1>5, <1>6, <1>7 DEF Rooted

\* Where hashes from the end of the response on leave room, its last block is
\* remembered, and they still do.
LEMMA RecordKeepsEnd ==
    ASSUME NEW t \in HashWindow, NEW r, r.chain \in [Numbers -> Epochs],
           r.first \in Nat, r.scanned \in Blocks, r.next = r.scanned, r.first < r.next,
           Cardinality({c \in Known(t) : c >= r.next}) < Window
    PROVE  /\ r.next - 1 \in Known(Record(t, r))
           /\ Cardinality({c \in Known(Record(t, r)) : c >= r.next}) < Window
<1>1. PICK u \in HashWindow :
        /\ Record(t, r) = Trim(u)
        /\ r.next - 1 \in Known(u)
        /\ \A c \in Known(u) : c \in Known(t) \/ c < r.next
  BY RecordParts
<1>2. r.next \in Nat /\ Known(u) \subseteq Nat
  BY NumberFacts DEF Known
<1> DEFINE A == {c \in Known(t) : c >= r.next}
           B == {c \in Known(u) : c >= r.next - 1}
<1>3. IsFiniteSet(A) /\ Cardinality(A) \in Nat /\ Cardinality(A) < Window /\ Window \in Nat
  BY KnownFinite, LimitFacts
<1>4. B \subseteq A \cup {r.next - 1}
  BY <1>1, <1>2
<1>5. Cardinality(B) <= Window
  <2>1. IsFiniteSet(A \cup {r.next - 1}) /\ Cardinality(A \cup {r.next - 1}) <= Cardinality(A) + 1
    <3> HIDE DEF A
    <3> QED
      BY <1>3, OneMore
  <2>2. Cardinality(B) <= Cardinality(A \cup {r.next - 1})
    <3> HIDE DEF A, B
    <3> QED
      BY <1>4, <2>1, FS_Subset
  <2>3. Cardinality(B) \in Nat /\ Cardinality(A \cup {r.next - 1}) \in Nat
    BY <2>1, KnownFinite, FS_CardinalityType
  <2> HIDE DEF A, B
  <2> QED
    BY <1>3, <2>1, <2>2, <2>3
<1>6. r.next - 1 \in Known(Trim(u))
  BY <1>1, <1>5 DEF Trim, Known
<1>7. {c \in Known(Trim(u)) : c >= r.next} \in SUBSET A
  BY <1>1, <1>2, TrimForgets
<1>8. Cardinality({c \in Known(Trim(u)) : c >= r.next}) <= Cardinality(A)
  BY <1>7, KnownCard
<1>9. Cardinality({c \in Known(Trim(u)) : c >= r.next}) \in Nat
  BY KnownFinite
<1> HIDE DEF A
<1> QED
  BY <1>1, <1>3, <1>6, <1>8, <1>9

\* A block that a purge keeps stays rooted, when the fork is a block of the
\* window or nothing is claimed of it.
LEMMA RootedPurge ==
    ASSUME NEW t, NEW f \in Numbers, NEW v \in Int, NEW w \in Int, v <= w, f \in Known(t) \/ f <= w,
           NEW b \in Numbers, b <= f, Rooted(b, t, v)
    PROVE  Rooted(b, PurgeAfter(t, f), w)
<1>1. b \in Nat /\ f \in Nat
  BY NumberFacts
<1>2. Known(PurgeAfter(t, f)) = {c \in Known(t) : c <= f}
  BY PurgeFacts
<1> QED
  BY <1>1, <1>2 DEF Rooted

\* Reorgs contradict windows and change nothing that is not contradicted.
LEMMA RemembersReorg ==
    ASSUME RTypeOK, NEW f \in 1..height, Reorg(f), NEW view \in [Numbers -> Epochs],
           NEW t \in HashWindow, \A b \in Numbers : t[b] <= epoch, Remembers(view, t, born, epoch)
    PROVE  Remembers(view, t, born', epoch')
<1>1. epoch \in Nat /\ f \in Nat /\ \A b \in Numbers : view[b] \in Nat /\ b \in Nat /\ t[b] \in Int
  <2>1. epoch \in Epochs /\ height \in Numbers /\ \A b \in Numbers : view[b] \in Epochs /\ t[b] \in Epochs \cup {Absent}
    BY DEF RTypeOK, HashWindow
  <2>2. Epochs \subseteq Nat /\ Numbers \subseteq Nat /\ Absent \in Int
    BY NumberFacts, LimitFacts
  <2>3. f \in Nat
    BY <2>1, <2>2
  <2>4. \A b \in Numbers : t[b] \in Nat \/ t[b] = Absent
    BY <2>1, <2>2
  <2>5. \A b \in Numbers : t[b] \in Int
    BY <2>2, <2>4
  <2> QED
    BY <2>1, <2>2, <2>3, <2>5
<1>2. epoch' = epoch + 1 /\ born' = [b \in Numbers |-> IF b >= f THEN epoch + 1 ELSE born[b]]
  BY DEF Reorg
<1>3. /\ \A b \in Numbers : view[b] <= epoch
      /\ SharePast(view, born)
      /\ \A b \in Numbers : t[b] = born[b] => view[b] = born[b]
  BY DEF Remembers
<1>4. SharePast(view, born')
  <2>1. ASSUME NEW b \in Numbers, view[b] = born'[b], NEW a \in Numbers, a <= b PROVE view[a] = born'[a]
    <3>1. b < f /\ view[b] = born[b]
      BY <1>1, <1>2, <1>3, <2>1
    <3>2. a < f
      BY <1>1, <2>1, <3>1
    <3>3. view[a] = born[a]
      BY <1>3, <2>1, <3>1 DEF SharePast
    <3> QED
      BY <1>1, <1>2, <3>2, <3>3
  <2> QED
    BY <2>1 DEF SharePast
<1>5. \A b \in Numbers : view[b] <= epoch'
  BY <1>1, <1>2, <1>3
<1>6. ASSUME NEW b \in Numbers, t[b] = born'[b] PROVE view[b] = born'[b]
  <2>1. b < f
    BY <1>1, <1>2, <1>6
  <2> QED
    BY <1>1, <1>2, <1>3, <1>6, <2>1
<1> QED
  BY <1>4, <1>5, <1>6 DEF Remembers

\* Remembering a response of the version that a window is of.
LEMMA RemembersRecord ==
    ASSUME NEW t \in HashWindow, NEW r, r.chain \in [Numbers -> Epochs],
           r.first \in Nat, r.scanned \in Blocks, r.next = r.scanned, r.first < r.next,
           NEW chain \in [Numbers -> Epochs], NEW reorgs, Remembers(r.chain, t, chain, reorgs)
    PROVE  Remembers(r.chain, Record(t, r), chain, reorgs)
<1>1. ASSUME NEW b \in Numbers, Record(t, r)[b] = chain[b] PROVE r.chain[b] = chain[b]
  <2>1. chain[b] # Absent
    BY NumberFacts, LimitFacts
  <2>2. b \in Known(Record(t, r))
    BY <1>1, <2>1 DEF Known
  <2>3. Record(t, r)[b] = t[b] \/ Record(t, r)[b] = r.chain[b]
    BY <2>2, RecordOrigin
  <2> QED
    BY <1>1, <2>3 DEF Remembers
<1> QED
  BY <1>1 DEF Remembers

\* Purging forgets and changes nothing.
LEMMA RemembersPurge ==
    ASSUME NEW t, NEW f, NEW chain \in [Numbers -> Epochs], NEW view, NEW reorgs, Remembers(view, t, chain, reorgs)
    PROVE  Remembers(view, PurgeAfter(t, f), chain, reorgs)
<1>1. ASSUME NEW b \in Numbers, PurgeAfter(t, f)[b] = chain[b] PROVE t[b] = chain[b]
  <2>1. chain[b] # Absent
    BY NumberFacts, LimitFacts
  <2> QED
    BY <1>1, <2>1 DEF PurgeAfter
<1> QED
  BY <1>1 DEF Remembers

-----------------------------------------------------------------------------
(* Steps of the source, seen from the cursors of one sink.                   *)

\* What a step leaves of what holds below a cursor: blocks stay sent and rooted
\* unless a rollback takes them back, and no version saved before changes.
Keeps(s) ==
    /\ vouched <= vouched'
    /\ \A b \in Numbers, i \in {0} \cup DOMAIN inbox[s] :
          Stays(s, b, i)' =>
             /\ Stays(s, b, i)
             /\ b < Sent => b < Sent'
             /\ b < cursor => b < cursor'
             /\ Reached(b) => Reached(b)'
    /\ \A b \in Numbers : (b \in Known(Latest') \cup Forks(s)' /\ (running => b < cursor)) =>
          b \in Known(Latest) \cup Forks(s) \/ b <= vouched'
    /\ \A w \in Version : w <= kvLast[Hashes] => trackerAt'[w] = trackerAt[w]

\* What the types say of the numbers involved.
LEMMA SourceFacts ==
    ASSUME RTypeOK
    PROVE  /\ cursor \in Nat /\ vouched \in Int /\ fork \in Nat /\ fork \in Numbers /\ FromBlock \in Nat
           /\ resp.next \in Nat /\ resp.first \in Nat /\ resp.scanned \in Blocks
           /\ resp.chain \in [Numbers -> Epochs] /\ born \in [Numbers -> Epochs]
           /\ tracker \in HashWindow /\ kvLast[Hashes] \in Version /\ Latest \in HashWindow
           /\ Numbers \subseteq Nat /\ Known(tracker) \subseteq Nat /\ Known(Latest) \subseteq Nat
           /\ Sent \in Nat
<1>1. kvLast[Hashes] \in Version
  BY LimitFacts DEF RTypeOK, TypeOK
<1>2. Latest \in HashWindow
  BY <1>1 DEF Latest, RTypeOK
<1>3. Known(tracker) \subseteq Nat /\ Known(Latest) \subseteq Nat
  BY NumberFacts DEF Known
<1>4. /\ cursor \in Nat /\ fork \in Nat /\ resp.next \in Nat /\ resp.first \in Nat
      /\ resp.chain \in [Numbers -> Epochs] /\ resp.scanned \in Blocks
  BY NumberFacts DEF RTypeOK
<1> QED
  BY <1>1, <1>2, <1>3, <1>4, NumberFacts DEF RTypeOK, Sent

\* A step that sends nothing and leaves the cursor and the window alone.
LEMMA KeepsStill ==
    ASSUME RTypeOK, RTypeOK', NEW s \in Sinks, inbox'[s] = inbox[s], vouched <= vouched',
           UNCHANGED <<cursor, trackerAt, fork>>, kvLast'[Hashes] = kvLast[Hashes],
           loop' = "rollback" <=> loop = "rollback", loop' = "save" <=> loop = "save",
           loop = "save" => resp' = resp
    PROVE  Keeps(s)
<1>1. /\ Latest' = Latest /\ Sent' = Sent /\ Forks(s)' = Forks(s)
      /\ \A b, i : Stays(s, b, i)' <=> Stays(s, b, i)
  BY DEF Latest, Sent, Forks, Stays
<1>2. ASSUME NEW b \in Numbers, Reached(b) PROVE Reached(b)'
  <2>1. b \in Int /\ vouched \in Int /\ vouched' \in Int
    BY NumberFacts DEF RTypeOK
  <2>2. Rooted(b, Latest, vouched) => Rooted(b, Latest, vouched')
    BY <2>1, RootedGrows
  <2> QED
    BY <1>1, <1>2, <2>2 DEF Reached
<1> QED
  BY <1>1, <1>2 DEF Keeps

\* The rows of a response are sent.
LEMMA KeepsEmit ==
    ASSUME RTypeOK, StepInv, NEW s \in Sinks, EmitRows
    PROVE  Keeps(s)
<1>1. /\ loop = "emit" /\ loop' = "save"
      /\ UNCHANGED <<cursor, trackerAt, fork, vouched, resp, kvLast, running>>
  BY DEF EmitRows, vars, historyVars, noteVars
<1>2. Latest' = Latest /\ Sent = cursor /\ Sent' = resp.next /\ cursor < resp.next
  BY <1>1 DEF Latest, Sent, StepInv, Holding
<1>3. \/ inbox'[s] = inbox[s]
      \/ \E m : m.fork = Absent /\ inbox'[s] = Append(inbox[s], m)
  BY DEF EmitRows, Send
<1>4. ASSUME NEW m, m.fork = Absent, inbox'[s] = Append(inbox[s], m)
      PROVE  /\ \A b, i : Stays(s, b, i)' => Stays(s, b, i)
             /\ \A b \in Numbers : b \in Forks(s)' => b \in Forks(s)
  <2>1. /\ inbox[s] \in Seq(Message)
        /\ Len(inbox[s]) \in Nat /\ DOMAIN inbox[s] = 1..Len(inbox[s])
        /\ DOMAIN inbox'[s] = 1..(Len(inbox[s]) + 1)
        /\ \A i \in DOMAIN inbox[s] : inbox'[s][i] = inbox[s][i]
        /\ inbox'[s][Len(inbox[s]) + 1] = m
    BY <1>4, SinkFacts, AppendProperties, LenProperties
  <2>2. ASSUME NEW b, NEW i, Stays(s, b, i)' PROVE Stays(s, b, i)
    BY <1>1, <2>1, <2>2 DEF Stays
  <2>3. ASSUME NEW b \in Numbers, b \in Forks(s)' PROVE b \in Forks(s)
    <3>1. b # Absent
      BY NumberFacts, LimitFacts
    <3>2. PICK i \in 1..(Len(inbox[s]) + 1) : b = inbox'[s][i].fork
      BY <1>1, <2>1, <2>3 DEF Forks
    <3>3. i \in DOMAIN inbox[s]
      BY <1>4, <2>1, <3>1, <3>2
    <3> QED
      BY <2>1, <3>2, <3>3 DEF Forks
  <2> QED
    BY <2>2, <2>3
<1>5. /\ \A b, i : Stays(s, b, i)' => Stays(s, b, i)
      /\ \A b \in Numbers : b \in Forks(s)' => b \in Forks(s)
  <2>1. CASE inbox'[s] = inbox[s]
    BY <1>1, <2>1 DEF Stays, Forks
  <2> QED
    BY <1>3, <1>4, <2>1
<1>6. \A b : Reached(b) => Reached(b)'
  BY <1>1, <1>2 DEF Reached
<1>7. \A b \in Numbers : b < Sent => b < Sent'
  BY <1>2, SourceFacts
<1>8. vouched <= vouched'
  BY <1>1, SourceFacts
<1> QED
  BY <1>1, <1>2, <1>5, <1>6, <1>7, <1>8 DEF Keeps

\* The value saved is the latest, and those before it stay.
LEMMA SaveFacts ==
    ASSUME RTypeOK, NEW t, Save(t)
    PROVE  /\ kvLast[Hashes] \in Nat /\ kvLast'[Hashes] = kvLast[Hashes] + 1 /\ kvLast'[Hashes] \in Version
           /\ trackerAt'[kvLast'[Hashes]] = t /\ Latest' = t
           /\ \A w \in Version : w <= kvLast[Hashes] => trackerAt'[w] = trackerAt[w]
           /\ \A w \in Version : trackerAt'[w] = trackerAt[w] \/ trackerAt'[w] = t
           /\ running /\ UNCHANGED <<running, cursorVars, persistVars, kvDisk, kvTxn, stale, staleTxn, kvDropped>>
<1>1. /\ kvLast[Hashes] \in Version /\ kvLast[Hashes] < MaxVersion
      /\ kvLast' = [kvLast EXCEPT ![Hashes] = @ + 1] /\ kvLast \in [Keys -> Version]
      /\ trackerAt' = [trackerAt EXCEPT ![kvLast[Hashes] + 1] = t] /\ trackerAt \in [Version -> HashWindow]
  BY LimitFacts DEF Save, KvSet, RTypeOK, TypeOK
<1>2. kvLast[Hashes] \in Nat /\ kvLast[Hashes] + 1 \in Version /\ \A w \in Version : w \in Nat
  BY <1>1, BoundsAssumption DEF Version
<1>3. kvLast'[Hashes] = kvLast[Hashes] + 1
  BY <1>1, LimitFacts
<1>4. trackerAt'[kvLast[Hashes] + 1] = t /\ \A w \in Version : w # kvLast[Hashes] + 1 => trackerAt'[w] = trackerAt[w]
  BY <1>1, <1>2
<1>5. \A w \in Version : w <= kvLast[Hashes] => w # kvLast[Hashes] + 1
  BY <1>2
<1>6. running /\ UNCHANGED <<running, cursorVars, persistVars, kvDisk, kvTxn, stale, staleTxn, kvDropped>>
  BY DEF Save, KvSet
<1> QED
  BY <1>2, <1>3, <1>4, <1>5, <1>6 DEF Latest

\* What holds of a response that is being handled.
LEMMA HoldingFacts ==
    ASSUME RTypeOK, StepInv, LoopInv, Holding
    PROVE  /\ resp.first = cursor /\ cursor < resp.next /\ resp.next = resp.scanned
           /\ resp.scanned \in Blocks /\ resp.next \in Nat /\ resp.first \in Nat
           /\ resp.chain \in [Numbers -> Epochs] /\ resp.first < resp.next
           /\ tracker = Latest /\ tracker \in HashWindow
           /\ cursor - 1 \in Known(tracker) \/ cursor - 1 <= vouched
           /\ RoomAt(cursor) \/ \A b \in Known(tracker) : b <= vouched
BY SourceFacts DEF Holding, StepInv, LoopInv

\* Hashes are remembered and the cursor goes on.
LEMMA KeepsRemember ==
    ASSUME RTypeOK, StepInv, LoopInv, LoopInv', NEW s \in Sinks, Remember
    PROVE  Keeps(s)
<1>1. /\ loop = "save" /\ loop' = "poll" /\ cursor' = resp.next /\ tracker' = Record(tracker, resp)
      /\ Save(tracker') /\ UNCHANGED <<fork, vouched, inbox>>
  BY DEF Remember, sinkVars, noteVars
<1>2. Latest' = tracker' /\ \A w \in Version : w <= kvLast[Hashes] => trackerAt'[w] = trackerAt[w]
  BY <1>1, SaveFacts
<1>3. /\ resp.first = cursor /\ cursor < resp.next /\ resp.next = resp.scanned
      /\ resp.scanned \in Blocks /\ resp.next \in Nat /\ resp.first \in Nat
      /\ resp.chain \in [Numbers -> Epochs] /\ resp.first < resp.next
      /\ tracker = Latest /\ tracker \in HashWindow
      /\ cursor - 1 \in Known(tracker) \/ cursor - 1 <= vouched
  BY <1>1, HoldingFacts DEF Holding
<1>4. vouched \in Int /\ cursor \in Nat /\ Numbers \subseteq Nat
  BY SourceFacts
<1>5. Sent = resp.next /\ Sent' = resp.next
  BY <1>1 DEF Sent
<1>6. ASSUME NEW b \in Numbers, Reached(b) PROVE Reached(b)'
  <2>1. CASE b < cursor /\ Rooted(b, Latest, vouched)
    <3>1. Rooted(b, Record(tracker, resp), vouched)
      BY <1>3, <1>4, <2>1, RootedRecord
    <3>2. b < resp.next
      BY <1>3, <1>4, <2>1
    <3> QED
      BY <1>1, <1>2, <3>1, <3>2 DEF Reached
  <2>2. CASE b = resp.next - 1
    <3>1. b < cursor' /\ b = cursor' - 1
      BY <1>1, <1>3, <2>2
    <3>2. b \in Known(Latest') \/ b <= vouched'
      BY <1>1, <1>2, <3>1 DEF LoopInv
    <3> QED
      BY <3>1, <3>2 DEF Reached, Rooted
  <2> QED
    BY <1>6, <2>1, <2>2 DEF Reached
<1>7. \A b, i : Stays(s, b, i)' <=> Stays(s, b, i)
  BY <1>1 DEF Stays
<1>8. ASSUME NEW b \in Numbers, b \in Known(Latest'), b < cursor PROVE b \in Known(Latest) \/ b <= vouched
  <2>1. b \in Known(tracker) \/ b >= cursor - 1
    BY <1>1, <1>2, <1>3, <1>8, RecordOrigin
  <2>2. CASE b >= cursor - 1
    <3>1. b = cursor - 1
      BY <1>4, <1>8, <2>2
    <3> QED
      BY <1>3, <3>1
  <2> QED
    BY <1>3, <2>1, <2>2
<1>9. Forks(s)' = Forks(s) /\ running
  BY <1>1, SaveFacts DEF Forks
<1>10. \A b \in Numbers : b < cursor => b < cursor'
  BY <1>1, <1>3, <1>4
<1>11. vouched <= vouched' /\ vouched' = vouched
  BY <1>1, <1>4
<1> QED
  BY <1>2, <1>5, <1>6, <1>7, <1>8, <1>9, <1>10, <1>11 DEF Keeps

\* What locate_fork finds: a block of the window below the cursor, or nothing is
\* claimed of the fork.
LEMMA ForkFacts ==
    ASSUME RTypeOK, RTypeOK', LocateFork
    PROVE  /\ fork' \in Numbers /\ vouched' \in Int /\ vouched <= vouched'
           /\ fork' <= vouched' \/ (fork' \in Known(tracker) /\ fork' < cursor)
<1>1. PICK upto \in 0..cursor :
        LET matching == Matching(tracker, born, upto) IN
        /\ fork' = IF matching = {} THEN Coarse(tracker) ELSE CHOOSE b \in matching : IsLast(b, matching)
        /\ vouched' = IF matching = {} THEN Greatest(vouched, fork') ELSE vouched
  BY DEF LocateFork
<1>2. vouched \in Int /\ vouched' \in Int /\ fork' \in Numbers /\ fork' \in Nat /\ cursor \in Nat
  BY NumberFacts DEF RTypeOK
<1> DEFINE matching == Matching(tracker, born, upto)
<1>3. CASE matching = {}
  <2>1. vouched' = Greatest(vouched, fork')
    BY <1>1, <1>3
  <2> QED
    BY <1>2, <2>1 DEF Greatest
<1>4. CASE matching # {}
  <2>1. matching \in SUBSET Numbers
    BY DEF Matching, Known
  <2>2. fork' \in matching /\ vouched' = vouched
    BY <1>1, <1>4, <2>1, LastExists
  <2>3. fork' \in Known(tracker) /\ fork' < upto
    BY <2>2 DEF Matching
  <2> QED
    BY <1>2, <2>2, <2>3
<1> QED
  BY <1>3, <1>4

\* The fork is found and the window purged.
LEMMA KeepsLocate ==
    ASSUME RTypeOK, RTypeOK', LoopInv, NEW s \in Sinks, LocateFork
    PROVE  Keeps(s)
<1>1. /\ loop = "locate" /\ loop' = "rollback" /\ tracker' = PurgeAfter(tracker, fork')
      /\ Save(tracker') /\ UNCHANGED <<cursor, inbox>>
  BY DEF LocateFork, sinkVars
<1>2. Latest' = tracker' /\ running /\ \A w \in Version : w <= kvLast[Hashes] => trackerAt'[w] = trackerAt[w]
  BY <1>1, SaveFacts
<1>3. tracker = Latest
  BY <1>1 DEF LoopInv
<1>4. /\ fork' \in Numbers /\ vouched' \in Int /\ vouched <= vouched' /\ vouched \in Int
      /\ fork' <= vouched' \/ fork' \in Known(tracker)
  BY ForkFacts, SourceFacts
<1>5. Sent' = Sent
  BY <1>1 DEF Sent
<1>6. ASSUME NEW b \in Numbers, NEW i, Stays(s, b, i)' PROVE Stays(s, b, i) /\ b <= fork'
  BY <1>1, <1>6 DEF Stays
<1>7. ASSUME NEW b \in Numbers, b <= fork', Reached(b) PROVE Reached(b)'
  <2>1. b < cursor /\ Rooted(b, Latest, vouched)
    BY <1>1, <1>7 DEF Reached
  <2>2. Rooted(b, PurgeAfter(tracker, fork'), vouched')
    BY <1>3, <1>4, <1>7, <2>1, RootedPurge
  <2> QED
    BY <1>1, <1>2, <2>1, <2>2 DEF Reached
<1>8. Known(Latest') \subseteq Known(Latest)
  BY <1>1, <1>2, <1>3, PurgeFacts
<1>9. \A b \in Forks(s)' : b \in Forks(s) \/ b = fork'
  BY <1>1 DEF Forks
<1> QED
  BY <1>1, <1>2, <1>3, <1>4, <1>5, <1>6, <1>7, <1>8, <1>9 DEF Keeps

\* The rollback is sent, to every sink or not all stand at one point.
LEMMA RollbackSent ==
    ASSUME RTypeOK, NEW s \in Sinks, SendRollback, ~torn'
    PROVE  /\ paused = {} /\ loop = "rollback" /\ loop' = "poll" /\ cursor' = Greatest(fork + 1, FromBlock)
           /\ cursor' \in Nat /\ fork < cursor'
           /\ Len(inbox[s]) \in Nat /\ DOMAIN inbox[s] = 1..Len(inbox[s])
           /\ DOMAIN inbox'[s] = 1..(Len(inbox[s]) + 1)
           /\ \A i \in DOMAIN inbox[s] : inbox'[s][i] = inbox[s][i]
           /\ inbox'[s][Len(inbox[s]) + 1].fork = fork /\ inbox'[s][Len(inbox[s]) + 1].rows = {}
           /\ fork # Absent
           /\ UNCHANGED <<vars, epoch, born, resp, tracker, trackerAt, stage, table, vouched>>
<1> DEFINE m == [rows |-> {}, ack |-> fork, fork |-> fork]
<1>1. /\ paused = {} /\ loop = "rollback" /\ loop' = "poll" /\ cursor' = Greatest(fork + 1, FromBlock)
      /\ UNCHANGED <<vars, epoch, born, resp, tracker, trackerAt, stage, table, vouched>>
      /\ Send(m)
  BY DEF SendRollback, chainVars
<1>2. m \in Message /\ m.fork = fork /\ m.fork # Absent /\ m.rows = {} /\ fork \in Nat /\ FromBlock \in Nat
  BY NumberFacts, LimitFacts DEF Message, RTypeOK
<1> HIDE DEF m
<1>3. inbox'[s] = Append(inbox[s], m) /\ inbox[s] \in Seq(Message)
  BY <1>1, SinkFacts DEF Send
<1>4. cursor' \in Nat /\ fork < cursor'
  BY <1>1, <1>2 DEF Greatest
<1> QED
  BY <1>1, <1>2, <1>3, <1>4, ChannelAppend

\* The rollback is sent and the cursor goes back behind it.
LEMMA KeepsRollback ==
    ASSUME RTypeOK, NEW s \in Sinks, SendRollback, ~torn'
    PROVE  Keeps(s)
<1> DEFINE n == Len(inbox[s])
<1>1. /\ loop = "rollback" /\ loop' = "poll" /\ cursor' \in Nat /\ fork < cursor' /\ fork # Absent
      /\ n \in Nat /\ DOMAIN inbox[s] = 1..n /\ DOMAIN inbox'[s] = 1..(n + 1)
      /\ \A i \in DOMAIN inbox[s] : inbox'[s][i] = inbox[s][i]
      /\ inbox'[s][n + 1].fork = fork
      /\ UNCHANGED <<trackerAt, vouched>>
  BY RollbackSent
<1>2. kvLast' = kvLast /\ Latest' = Latest
  BY RollbackSent DEF vars, historyVars, Latest
<1>3. Sent = cursor /\ Sent' = cursor' /\ fork \in Nat /\ Numbers \subseteq Nat /\ vouched \in Int
  BY <1>1, SourceFacts DEF Sent
<1> HIDE DEF n
<1>4. ASSUME NEW b \in Numbers, NEW i \in {0} \cup DOMAIN inbox[s], Stays(s, b, i)'
      PROVE  Stays(s, b, i) /\ b <= fork
  <2>1. n + 1 \in DOMAIN inbox'[s] /\ n + 1 > i
    BY <1>1
  <2>2. b <= fork
    BY <1>1, <1>4, <2>1 DEF Stays
  <2>3. \A j \in DOMAIN inbox[s] : j \in DOMAIN inbox'[s]
    BY <1>1
  <2> QED
    BY <1>1, <1>4, <2>2, <2>3 DEF Stays
<1>5. ASSUME NEW b \in Numbers, b <= fork PROVE b < cursor' /\ (Reached(b) => Reached(b)')
  <2>1. b < cursor'
    BY <1>1, <1>3, <1>5
  <2> QED
    BY <1>1, <1>2, <2>1 DEF Reached
<1>6. ASSUME NEW b \in Numbers, b \in Forks(s)' PROVE b \in Forks(s)
  <2>1. PICK i \in 1..(n + 1) : b = inbox'[s][i].fork
    BY <1>1, <1>6 DEF Forks
  <2>2. CASE i = n + 1
    BY <1>1, <2>1, <2>2 DEF Forks
  <2>3. CASE i # n + 1
    <3>1. i \in DOMAIN inbox[s]
      BY <1>1, <2>3
    <3> QED
      BY <1>1, <2>1, <3>1 DEF Forks
  <2> QED
    BY <2>2, <2>3
<1>7. vouched <= vouched' /\ \A w \in Version : trackerAt'[w] = trackerAt[w]
  BY <1>1, <1>3
<1>8. \A b \in Numbers, i \in {0} \cup DOMAIN inbox[s] :
        Stays(s, b, i)' => Stays(s, b, i) /\ b < Sent' /\ b < cursor' /\ (Reached(b) => Reached(b)')
  BY <1>3, <1>4, <1>5
<1> QED
  BY <1>2, <1>6, <1>7, <1>8 DEF Keeps

-----------------------------------------------------------------------------
(* LoopInv, step by step.                                                    *)

\* A step that leaves the source alone.
LEMMA LoopStill ==
    ASSUME LoopInv, UNCHANGED <<cursor, vouched, loop, resp, tracker, fork, trackerAt>>,
           kvLast'[Hashes] = kvLast[Hashes],
           loop = "load" => \A s \in Sinks : inbox'[s] = inbox[s]
    PROVE  LoopInv'
<1>1. Latest' = Latest
  BY DEF Latest
<1>2. RoomAt(cursor)' <=> RoomAt(cursor)
  BY DEF RoomAt
<1> QED
  BY <1>1, <1>2 DEF LoopInv, Holding

\* A start loads the window that was saved last, whole.
LEMMA LoadFacts ==
    ASSUME RTypeOK, RTypeOK', KvSerialInv(Hashes), VersionInv, Load
    PROVE  /\ tracker' = Latest /\ Latest' = Latest /\ loop = "load" /\ loop' = "poll"
           /\ vouched <= vouched'
           /\ (Known(Latest) # {} /\ \A b \in Known(Latest) : b >= cursor) =>
                 \A b \in Known(Latest) : b <= vouched'
           /\ UNCHANGED <<cursor, resp, fork, trackerAt, kvLast, inbox, running>>
<1>1. filling[Hashes] = kvLast[Hashes]
  BY DEF Load, KvGetFill, KvSerialInv
<1>2. /\ tracker' = Trim(Latest) /\ loop = "load" /\ loop' = "poll"
      /\ vouched' = IF Known(Latest) # {} /\ \A b \in Known(Latest) : b >= cursor
                    THEN Greatest(vouched, CHOOSE b \in Known(Latest) : IsLast(b, Known(Latest)))
                    ELSE vouched
      /\ UNCHANGED <<cursor, resp, fork, trackerAt, kvLast, inbox, running>>
  BY <1>1 DEF Load, Loaded, Latest, KvGetFill, historyVars, sinkVars
<1>3. Latest \in HashWindow /\ Cardinality(Known(Latest)) <= Window
  BY SourceFacts DEF Latest, VersionInv
<1>4. Trim(Latest) = Latest
  BY <1>3, TrimIdle
<1>5. Latest' = Latest
  BY <1>2 DEF Latest
<1>6. /\ vouched <= vouched'
      /\ (Known(Latest) # {} /\ \A b \in Known(Latest) : b >= cursor) =>
            \A b \in Known(Latest) : b <= vouched'
  <2>1. vouched \in Int
    BY DEF RTypeOK
  <2>2. CASE Known(Latest) # {} /\ \A b \in Known(Latest) : b >= cursor
    <3> DEFINE newest == CHOOSE b \in Known(Latest) : IsLast(b, Known(Latest))
    <3>1. Known(Latest) \in SUBSET Numbers /\ Known(Latest) # {}
      BY <2>2 DEF Known
    <3>2. newest \in Known(Latest) /\ \A b \in Known(Latest) : b <= newest
      BY <3>1, LastExists
    <3>3. vouched' = Greatest(vouched, newest)
      BY <1>2, <2>2
    <3> HIDE DEF newest
    <3>4. newest \in Nat /\ \A b \in Known(Latest) : b \in Nat
      BY <3>2, SourceFacts
    <3>5. vouched <= vouched' /\ newest <= vouched' /\ vouched' \in Int
      BY <2>1, <3>3, <3>4 DEF Greatest
    <3> QED
      BY <3>2, <3>4, <3>5
  <2>3. CASE ~(Known(Latest) # {} /\ \A b \in Known(Latest) : b >= cursor)
    BY <1>2, <2>1, <2>3
  <2> QED
    BY <2>2, <2>3
<1> QED
  BY <1>2, <1>4, <1>5, <1>6

\* The window loaded reaches the cursor, or nothing is claimed below it.
LEMMA LoopLoad ==
    ASSUME RTypeOK, RTypeOK', KvSerialInv(Hashes), VersionInv, LoopInv, Load
    PROVE  LoopInv'
<1>1. /\ tracker' = Latest /\ Latest' = Latest /\ loop = "load" /\ loop' = "poll"
      /\ vouched <= vouched'
      /\ (Known(Latest) # {} /\ \A b \in Known(Latest) : b >= cursor) =>
            \A b \in Known(Latest) : b <= vouched'
      /\ cursor' = cursor
  BY LoadFacts
<1>2. /\ cursor \in Nat /\ vouched \in Int /\ vouched' \in Int /\ FromBlock \in Nat
      /\ Known(Latest) \subseteq Nat
  BY SourceFacts DEF RTypeOK
<1>3. FromBlock <= cursor' /\ FromBlock - 1 <= vouched'
  BY <1>1, <1>2 DEF LoopInv
<1>4. cursor - 1 \in Known(Latest) \/ cursor - 1 <= vouched'
  <2>1. Rooted(cursor - 1, Latest, vouched)
    BY <1>1 DEF LoopInv
  <2>2. CASE Known(Latest) # {} /\ \A c \in Known(Latest) : cursor - 1 < c
    <3>1. PICK c \in Known(Latest) : TRUE
      BY <2>2
    <3>2. \A b \in Known(Latest) : b >= cursor
      BY <1>2, <2>2
    <3>3. c <= vouched' /\ c \in Nat /\ cursor - 1 < c
      BY <1>1, <1>2, <2>2, <3>1, <3>2
    <3> QED
      BY <1>2, <3>3
  <2> QED
    BY <1>1, <1>2, <2>1, <2>2 DEF Rooted
<1>5. Cardinality({b \in Known(Latest) : b >= cursor}) < Window \/ \A b \in Known(Latest) : b <= vouched'
  <2> DEFINE A == {b \in Known(Latest) : b >= cursor}
  <2>1. Cardinality(Known(Latest)) <= Window
    BY SourceFacts DEF Latest, VersionInv
  <2>2. CASE A # Known(Latest)
    <3>1. Cardinality(A) < Cardinality(Known(Latest))
      BY <2>2, KnownCard
    <3>2. Cardinality(A) \in Nat /\ Cardinality(Known(Latest)) \in Nat
      BY KnownFinite
    <3> HIDE DEF A
    <3>3. Cardinality(A) < Window
      BY <2>1, <3>1, <3>2, LimitFacts
    <3> QED
      BY <3>3 DEF A
  <2>3. CASE A = Known(Latest)
    BY <1>1, <2>3
  <2> QED
    BY <2>2, <2>3
<1>6. RoomAt(cursor)' \/ \A b \in Known(tracker') : b <= vouched'
  BY <1>1, <1>5 DEF RoomAt
<1> QED
  BY <1>1, <1>3, <1>4, <1>6 DEF LoopInv, Holding

\* A query moves neither the cursor nor the window.
LEMMA LoopPoll ==
    ASSUME RTypeOK, LoopInv, confirmations = 0, Poll
    PROVE  LoopInv'
<1>1. /\ loop = "poll" /\ loop' \in {"locate", "emit"}
      /\ UNCHANGED <<cursor, vouched, tracker, trackerAt, kvLast, fork>>
  BY DEF Poll, vars, historyVars, noteVars
<1>2. loop' = "emit" => resp'.next = resp'.scanned
  <2> SUFFICES ASSUME loop' = "emit" PROVE resp'.next = resp'.scanned
    OBVIOUS
  <2>1. PICK scanned \in (cursor + 1) .. Least(cursor + MaxPage, height + 1), archive \in {height, Absent} :
          resp' = [first |-> cursor, scanned |-> scanned, next |-> PlanStep(scanned, archive), chain |-> born]
    BY DEF Poll
  <2>2. cursor \in Nat /\ height \in Nat /\ MaxPage \in Nat
    BY NumberFacts, LimitFacts DEF RTypeOK
  <2>3. PlanStep(scanned, archive) = scanned
    BY <2>2 DEF Least, PlanStep
  <2> QED
    BY <2>1, <2>3
<1>3. Latest' = Latest /\ (RoomAt(cursor)' <=> RoomAt(cursor))
  BY <1>1 DEF Latest, RoomAt
<1> QED
  BY <1>1, <1>2, <1>3 DEF LoopInv, Holding

\* Nor does sending what it brought.
LEMMA LoopEmit ==
    ASSUME LoopInv, EmitRows
    PROVE  LoopInv'
<1>1. /\ loop = "emit" /\ loop' = "save"
      /\ UNCHANGED <<cursor, vouched, tracker, trackerAt, kvLast, fork, resp>>
  BY DEF EmitRows, vars, historyVars, noteVars
<1>2. Latest' = Latest /\ (RoomAt(cursor)' <=> RoomAt(cursor))
  BY <1>1 DEF Latest, RoomAt
<1> QED
  BY <1>1, <1>2 DEF LoopInv, Holding

\* The block before the new cursor is remembered, unless the window has no room.
LEMMA LoopRemember ==
    ASSUME RTypeOK, StepInv, LoopInv, Remember
    PROVE  LoopInv'
<1>1. /\ loop = "save" /\ loop' = "poll" /\ cursor' = resp.next /\ tracker' = Record(tracker, resp)
      /\ Save(tracker') /\ vouched' = vouched
  BY DEF Remember, noteVars
<1>2. Latest' = tracker'
  BY <1>1, SaveFacts
<1>3. /\ resp.first = cursor /\ cursor < resp.next /\ resp.next = resp.scanned
      /\ resp.scanned \in Blocks /\ resp.next \in Nat /\ resp.first \in Nat
      /\ resp.chain \in [Numbers -> Epochs] /\ resp.first < resp.next
      /\ tracker = Latest /\ tracker \in HashWindow
      /\ RoomAt(cursor) \/ \A b \in Known(tracker) : b <= vouched
  BY <1>1, HoldingFacts DEF Holding
<1>4. /\ vouched \in Int /\ cursor \in Nat /\ FromBlock \in Nat /\ Known(tracker) \subseteq Nat
      /\ FromBlock <= cursor /\ FromBlock - 1 <= vouched
  BY SourceFacts DEF LoopInv
<1>5. CASE RoomAt(resp.next)
  <2>1. /\ resp.next - 1 \in Known(Record(tracker, resp))
        /\ Cardinality({c \in Known(Record(tracker, resp)) : c >= resp.next}) < Window
    BY <1>3, <1>5, RecordKeepsEnd DEF RoomAt
  <2>2. cursor' - 1 \in Known(tracker') /\ RoomAt(cursor)'
    BY <1>1, <2>1 DEF RoomAt
  <2> QED
    BY <1>1, <1>2, <1>3, <1>4, <2>2 DEF LoopInv, Holding
<1>6. CASE ~RoomAt(resp.next)
  <2>1. ~RoomAt(cursor)
    <3>1. Cardinality({c \in Known(tracker) : c >= resp.next}) <= Cardinality({c \in Known(tracker) : c >= cursor})
      BY <1>3, <1>4, FromOn
    <3>2. /\ Cardinality({c \in Known(tracker) : c >= resp.next}) \in Nat
          /\ Cardinality({c \in Known(tracker) : c >= cursor}) \in Nat
      BY KnownFinite
    <3> QED
      BY <1>6, <3>1, <3>2, LimitFacts DEF RoomAt
  <2>2. \A b \in Known(tracker) : b <= vouched
    BY <1>3, <2>1
  <2>3. {c \in Known(tracker) : c >= resp.next} # {}
    <3>1. Cardinality({}) = 0 /\ 0 < Window
      BY FS_EmptySet, LimitFacts
    <3> QED
      BY <1>6, <3>1 DEF RoomAt
  <2>4. resp.next <= vouched
    <3>1. PICK c \in Known(tracker) : c >= resp.next
      BY <2>3
    <3> QED
      BY <1>3, <1>4, <2>2, <3>1
  <2>5. \A b \in Known(tracker') : b <= vouched
    <3>1. \A b \in Known(tracker') : b \in Nat /\ (b \in Known(tracker) \/ b < resp.next)
      BY <1>1, <1>3, RecordOrigin, NumberFacts DEF Known
    <3> QED
      BY <1>3, <1>4, <2>2, <2>4, <3>1
  <2>6. cursor' - 1 <= vouched' /\ FromBlock <= cursor'
    BY <1>1, <1>3, <1>4, <2>4
  <2> QED
    BY <1>1, <1>2, <1>4, <2>5, <2>6 DEF LoopInv, Holding
<1> QED
  BY <1>5, <1>6

\* The window is purged down to the fork.
LEMMA LoopLocate ==
    ASSUME RTypeOK, RTypeOK', LoopInv, LocateFork
    PROVE  LoopInv'
<1>1. /\ loop = "locate" /\ loop' = "rollback" /\ tracker' = PurgeAfter(tracker, fork')
      /\ Save(tracker') /\ cursor' = cursor
  BY DEF LocateFork
<1>2. Latest' = tracker'
  BY <1>1, SaveFacts
<1>3. /\ fork' \in Numbers /\ vouched' \in Int /\ vouched <= vouched' /\ vouched \in Int /\ FromBlock \in Nat
      /\ fork' <= vouched' \/ (fork' \in Known(tracker) /\ fork' < cursor)
  BY ForkFacts, SourceFacts
<1>4. Known(tracker') = {b \in Known(tracker) : b <= fork'}
  BY <1>1, PurgeFacts
<1>5. fork' \in Known(tracker) => fork' \in Known(tracker')
  BY <1>3, <1>4, NumberFacts
<1>6. FromBlock <= cursor' /\ FromBlock - 1 <= vouched'
  BY <1>1, <1>3 DEF LoopInv
<1> QED
  BY <1>1, <1>2, <1>3, <1>4, <1>5, <1>6 DEF LoopInv, Holding

\* The cursor follows the fork.
LEMMA LoopRollback ==
    ASSUME RTypeOK, LoopInv, SendRollback
    PROVE  LoopInv'
<1>1. /\ loop = "rollback" /\ loop' = "poll" /\ cursor' = Greatest(fork + 1, FromBlock)
      /\ UNCHANGED <<tracker, trackerAt, vouched, kvLast>>
  BY DEF SendRollback, vars, historyVars
<1>2. fork \in Nat /\ FromBlock \in Nat /\ vouched \in Int /\ Known(tracker) \subseteq Nat
  BY SourceFacts
<1>3. /\ tracker = Latest /\ FromBlock - 1 <= vouched
      /\ \A b \in Known(tracker) : b <= fork
      /\ fork <= vouched \/ fork \in Known(tracker)
  BY <1>1 DEF LoopInv
<1>4. cursor' \in Nat /\ FromBlock <= cursor' /\ fork < cursor' /\ (cursor' - 1 = fork \/ cursor' - 1 = FromBlock - 1)
  BY <1>1, <1>2 DEF Greatest
<1>5. RoomAt(cursor)'
  <2>1. {b \in Known(tracker) : b >= cursor'} = {}
    BY <1>2, <1>3, <1>4
  <2>2. Cardinality({}) = 0 /\ 0 < Window
    BY FS_EmptySet, LimitFacts
  <2> QED
    BY <1>1, <2>1, <2>2 DEF RoomAt
<1>6. Latest' = Latest
  BY <1>1 DEF Latest
<1> QED
  BY <1>1, <1>3, <1>4, <1>5, <1>6 DEF LoopInv, Holding

\* Where a restart resumes: at the configured start, or where every sink stands.
LEMMA RestartFacts ==
    ASSUME RTypeOK, Restart, ~torn'
    PROVE  /\ FromBlock <= cursor' /\ cursor' \in Nat
           /\ \A s \in Sinks : disk[Pair(s)] <= cursor'
           /\ cursor' = FromBlock \/ (Sinks # {} /\ \A s \in Sinks : cursor' = disk[Pair(s)])
           /\ ~running /\ running' /\ cursors' = disk
           /\ loop' = "load" /\ inbox' = [s \in Sinks |-> <<>>] /\ stage' = [s \in Sinks |-> "recv"]
           /\ UNCHANGED <<disk, rewinding, paused, persistVars, kvVars, historyVars>>
           /\ UNCHANGED <<chainVars, trackerAt, table, vouched>>
<1> DEFINE saved == RestoreFrom(disk, Src, Sinks)
<1>1. cursor' = RestartPoint(saved)
  BY DEF Restart, Memory
<1>2. FromBlock <= cursor' /\ cursor' \in Nat
  BY <1>1, RestartPointType, NumberFacts DEF RTypeOK
<1>3. \A s \in Sinks : disk[Pair(s)] \in Int /\ disk[Pair(s)] <= cursor'
  <2>1. \A s \in Sinks : ~(disk[Pair(s)] > cursor') /\ disk[Pair(s)] \in Int
    BY PairFacts, CursorIsInt DEF Restart, RTypeOK, TypeOK
  <2> QED
    BY <1>2, <2>1
<1>4. cursor' = FromBlock \/ (Sinks # {} /\ \A s \in Sinks : cursor' = disk[Pair(s)])
  <2>1. CASE Sinks = {} \/ \E s \in Sinks : disk[<<Src, s>>] = Absent
    <3>1. saved = Absent
      BY <2>1 DEF RestoreFrom
    <3> HIDE DEF saved
    <3> QED
      BY <1>1, <3>1 DEF RestartPoint
  <2>2. CASE ~(Sinks = {} \/ \E s \in Sinks : disk[<<Src, s>>] = Absent)
    <3> DEFINE T == {disk[<<Src, s>>] : s \in Sinks}
    <3>1. \A s \in Sinks : disk[<<Src, s>>] \in Blocks
      BY <2>2, PairFacts DEF RTypeOK, TypeOK, Cursor, Pair
    <3>2. T # {} /\ T \in SUBSET Nat
      BY <2>2, <3>1, NumberFacts
    <3>3. \E n \in T : \A m \in T : n <= m
      BY <3>2, LeastElement
    <3>4. \E n \in T : \A s \in Sinks : n <= disk[<<Src, s>>]
      BY <3>3
    <3>5. saved = CHOOSE n \in T : \A s \in Sinks : n <= disk[<<Src, s>>]
      BY <2>2 DEF RestoreFrom
    <3>6. saved \in T /\ \A s \in Sinks : saved <= disk[<<Src, s>>]
      BY <3>4, <3>5
    <3>7. saved \in Nat
      BY <3>2, <3>6
    <3> HIDE DEF saved, T
    <3>8. cursor' = FromBlock \/ cursor' = saved
      BY <1>1 DEF RestartPoint, Greatest
    <3>9. cursor' = saved => \A s \in Sinks : cursor' = disk[Pair(s)]
      BY <1>3, <3>6, <3>7 DEF Pair
    <3> QED
      BY <2>2, <3>8, <3>9
  <2> QED
    BY <2>1, <2>2
<1>5. /\ ~running /\ running' /\ cursors' = disk
      /\ loop' = "load" /\ inbox' = [s \in Sinks |-> <<>>] /\ stage' = [s \in Sinks |-> "recv"]
      /\ UNCHANGED <<disk, rewinding, paused, persistVars, kvVars, historyVars>>
      /\ UNCHANGED <<chainVars, trackerAt, table, vouched>>
  BY DEF Restart, Open, Memory
<1> QED
  BY <1>2, <1>3, <1>4, <1>5

\* The block before one that may be acked is a block.
LEMMA BlockBefore ==
    ASSUME NEW n \in Blocks, n > 0
    PROVE  n - 1 \in Numbers /\ n - 1 < n
<1>1. n \in Nat /\ n <= MaxHeight + 1 /\ MaxHeight \in Nat
  BY NumberFacts
<1> QED
  BY <1>1 DEF Numbers

\* With no rollback on its way every block stays.
LEMMA AllStay ==
    ASSUME NEW s, inbox[s] = <<>>, loop # "rollback"
    PROVE  \A b, i : Stays(s, b, i)
BY ChannelEmpty DEF Stays

\* A start is from rows that fit the window on disk.
LEMMA LoopRestart ==
    ASSUME RTypeOK, RTypeOK', LoopInv, DownInv, \A s \in Sinks : DurableInv(s), Restart, ~torn'
    PROVE  LoopInv'
<1>1. /\ FromBlock <= cursor' /\ cursor' \in Nat
      /\ cursor' = FromBlock \/ (Sinks # {} /\ \A s \in Sinks : cursor' = disk[Pair(s)])
      /\ ~running /\ loop' = "load" /\ inbox' = [s \in Sinks |-> <<>>]
      /\ UNCHANGED <<trackerAt, vouched, kvLast>>
  BY RestartFacts DEF historyVars
<1>2. Latest' = Latest /\ Latest = trackerAt[kvDisk[Hashes]] /\ stale = {} /\ loop = "load"
  BY <1>1 DEF Latest, DownInv
<1>3. FromBlock - 1 <= vouched /\ vouched \in Int /\ FromBlock \in Nat
  BY SourceFacts DEF LoopInv
<1>4. Rooted(cursor' - 1, Latest, vouched)
  <2>1. CASE cursor' = FromBlock
    BY <1>3, <2>1 DEF Rooted
  <2>2. CASE cursor' # FromBlock
    <3>1. PICK s \in Sinks : cursor' = disk[Pair(s)]
      BY <1>1, <2>2
    <3>2. cursor' - 1 \in Numbers /\ cursor' - 1 < cursor'
      <4>1. cursor' \in Blocks
        BY DEF RTypeOK
      <4>2. cursor' > 0
        BY <1>1, <1>3, <2>2
      <4> QED
        BY <4>1, <4>2, BlockBefore
    <3>3. \A b : Stays(s, b, 0)
      BY <1>2, AllStay DEF LoopInv
    <3>4. Fits(s, disk[Pair(s)], kvDisk[Hashes])
      <4>1. disk[Pair(s)] \in Cursor /\ kvDisk[Hashes] \in Version
        BY PairFacts, LimitFacts DEF RTypeOK, TypeOK
      <4>2. Durable(s, disk[Pair(s)], kvDisk[Hashes])
        BY <1>2 DEF Durable
      <4> QED
        BY <4>1, <4>2 DEF DurableInv
    <3> QED
      BY <1>2, <3>1, <3>2, <3>3, <3>4 DEF Fits
  <2> QED
    BY <2>1, <2>2
<1> QED
  BY <1>1, <1>2, <1>3, <1>4 DEF LoopInv, Holding

\* What a kill leaves, when no rollback is under way.
LEMMA KillFacts ==
    ASSUME Kill, ~torn'
    PROVE  /\ running /\ ~running' /\ cursors' = NoRows /\ paused' = {} /\ ckpt' = "idle"
           /\ stale = {} /\ stale' = {} /\ kvLast' = kvDisk /\ kvTxn' = NoVersions /\ kvDropped' = {}
           /\ loop # "rollback" /\ \A s \in Sinks : ~AwaitsRollback(s)
           /\ loop' = "load" /\ cursor' = FromBlock
           /\ inbox' = [s \in Sinks |-> <<>>] /\ stage' = [s \in Sinks |-> "recv"]
           /\ hand' = NoRows
           /\ UNCHANGED <<disk, kvDisk, chainVars, trackerAt, table, vouched>>
BY DEF Kill, Crash, Halt, Memory, RollbackUnderWay

\* A process that is down has the loop of one about to start.
LEMMA LoopKill ==
    ASSUME RTypeOK, LoopInv, Kill, ~torn'
    PROVE  LoopInv'
<1>1. loop' = "load" /\ cursor' = FromBlock /\ inbox' = [s \in Sinks |-> <<>>] /\ vouched' = vouched
  BY KillFacts
<1>2. FromBlock - 1 <= vouched /\ FromBlock \in Nat
  BY SourceFacts DEF LoopInv
<1> QED
  BY <1>1, <1>2 DEF LoopInv, Holding, Rooted

-----------------------------------------------------------------------------
(* What the other steps leave alone; VersionInv and DownInv.                 *)

\* Sinks and ticks leave the source alone.
LEMMA SourceFrame ==
    ASSUME (\E s \in Sinks : SinkStep(s)) \/ Tick \/ Drain
    PROVE  /\ UNCHANGED <<chainVars, sourceVars, vouched, kvLast>>
           /\ running /\ running'
<1>1. ASSUME NEW s \in Sinks, SinkStep(s)
      PROVE  UNCHANGED <<chainVars, sourceVars, vouched, kvLast>> /\ running /\ running'
  BY <1>1 DEF SinkStep, Write, AckBatch, BeginRewind, EndRewind, GiveUp, Ack, RewindMemory, RewindUpdate, Pause,
              SinkFree, vars, historyVars, noteVars
<1>2. CASE Tick
  BY <1>2 DEF Tick, Snapshot, ReadFloor, InsertRow, Commit, historyVars, noteVars
<1>3. CASE Drain
  BY <1>3 DEF Drain, PersistBegin, historyVars
<1> QED
  BY <1>1, <1>2, <1>3

\* The steps of the source that touch neither the window nor the cursor, and the
\* start of the process, leave the versions alone.
LEMMA VersionFrame ==
    ASSUME \/ Mine \/ (\E f \in 1..height : Reorg(f)) \/ LoadMiss \/ Load \/ Poll \/ EmitRows \/ SendRollback
           \/ (\E s \in Sinks : SinkStep(s)) \/ (Tick /\ ~Commit) \/ Restart
    PROVE  UNCHANGED <<kvDisk, kvLast, kvTxn, kvDropped>>
<1>1. UNCHANGED vars => UNCHANGED <<kvDisk, kvLast, kvTxn, kvDropped>>
  BY DEF vars, kvVars, historyVars
<1>2. CASE Mine \/ (\E f \in 1..height : Reorg(f)) \/ Poll \/ EmitRows \/ SendRollback
  BY <1>1, <1>2 DEF Mine, Reorg, Poll, EmitRows, SendRollback
<1>3. CASE LoadMiss \/ Load
  BY <1>3 DEF LoadMiss, Load, KvGetMiss, KvGetFill, historyVars
<1>4. ASSUME NEW s \in Sinks, SinkStep(s) PROVE UNCHANGED <<kvDisk, kvLast, kvTxn, kvDropped>>
  BY <1>1, <1>4 DEF SinkStep, Write, AckBatch, BeginRewind, EndRewind, GiveUp, Ack, RewindMemory, RewindUpdate,
                    Pause, kvVars, historyVars
<1>5. CASE Tick /\ ~Commit
  BY <1>5 DEF Tick, Snapshot, ReadFloor, InsertRow, kvVars, historyVars
<1>6. CASE Restart
  BY <1>6 DEF Restart, Open, kvVars, historyVars
<1> QED
  BY <1>2, <1>3, <1>4, <1>5, <1>6

\* The order of the versions.
LEMMA VersionOrder ==
    ASSUME RTypeOK, StepInv, KvRowInv(Hashes), VersionInv, RNext, ~torn'
    PROVE  kvDisk'[Hashes] <= kvLast'[Hashes] /\ kvTxn'[Hashes] <= kvLast'[Hashes] /\ kvDropped' = {}
<1>1. /\ kvLast[Hashes] \in Nat /\ kvDisk[Hashes] \in Nat /\ kvTxn[Hashes] \in Int /\ kvDirty[Hashes] \in Int
      /\ Hashes \in Keys
  BY KvTypes, LimitFacts DEF RTypeOK
<1>2. kvDisk[Hashes] <= kvLast[Hashes] /\ kvTxn[Hashes] <= kvLast[Hashes] /\ kvDropped = {}
  BY DEF VersionInv
<1>3. CASE UNCHANGED <<kvDisk, kvLast, kvTxn, kvDropped>>
  BY <1>2, <1>3
<1>4. CASE Remember \/ LocateFork
  <2>1. PICK t : Save(t)
    BY <1>4 DEF Remember, LocateFork
  <2>2. kvLast'[Hashes] = kvLast[Hashes] + 1 /\ UNCHANGED <<kvDisk, kvTxn, kvDropped>>
    BY <2>1, SaveFacts
  <2> QED
    BY <1>1, <1>2, <2>2
<1>5. CASE Commit
  <2>1. /\ kvDisk'[Hashes] = IF kvTxn[Hashes] = Absent THEN kvDisk[Hashes] ELSE kvTxn[Hashes]
        /\ kvTxn'[Hashes] = Absent /\ kvLast' = kvLast /\ kvDropped' = {}
    BY <1>1, <1>2, <1>5 DEF Commit, NoVersions
  <2> QED
    BY <1>1, <1>2, <2>1, LimitFacts
<1>6. CASE Drain
  <2>1. kvTxn' = kvDirty /\ UNCHANGED <<kvDisk, kvLast, kvDropped>>
    BY <1>6 DEF Drain, PersistBegin, historyVars
  <2>2. kvDirty[Hashes] = Absent \/ kvDirty[Hashes] = kvLast[Hashes]
    BY DEF KvRowInv
  <2> QED
    BY <1>1, <1>2, <2>1, <2>2, LimitFacts
<1>7. CASE Kill
  <2>1. kvLast' = kvDisk /\ kvDisk' = kvDisk /\ kvTxn'[Hashes] = Absent /\ kvDropped' = {}
    BY <1>1, <1>7, KillFacts DEF NoVersions
  <2> QED
    BY <1>1, <2>1, LimitFacts
<1> QED
  BY <1>3, <1>4, <1>5, <1>6, <1>7, VersionFrame DEF RNext

\* A window that is saved is of blocks that have been, and within the size.
LEMMA VersionSaved ==
    ASSUME RTypeOK, StepInv, VersionInv, LoopInv, Remember \/ LocateFork
    PROVE  /\ \A b \in Numbers : tracker'[b] <= epoch
           /\ Cardinality(Known(tracker')) <= Window
<1>1. tracker = Latest
  BY DEF LoopInv, Remember, LocateFork
<1>2. /\ \A b \in Numbers : tracker[b] <= epoch
      /\ Cardinality(Known(tracker)) <= Window
  BY <1>1, SourceFacts DEF Latest, VersionInv
<1>3. epoch \in Nat /\ Absent <= epoch
  BY NumberFacts, LimitFacts DEF RTypeOK
<1>4. CASE Remember
  <2>1. loop = "save" /\ tracker' = Record(tracker, resp)
    BY <1>4 DEF Remember
  <2>2. Cardinality(Known(tracker')) <= Window
    BY <2>1, TrimBounds DEF Record
  <2>3. \A b \in Numbers : resp.chain[b] <= epoch
    BY <2>1 DEF VersionInv, Holding
  <2>4. /\ resp.next = resp.scanned
        /\ resp.scanned \in Blocks /\ resp.first \in Nat
        /\ resp.chain \in [Numbers -> Epochs] /\ resp.first < resp.next
        /\ tracker \in HashWindow
    BY <2>1, HoldingFacts DEF Holding
  <2>5. ASSUME NEW b \in Numbers PROVE tracker'[b] <= epoch
    <3>1. CASE b \in Known(tracker')
      <4>1. tracker'[b] = tracker[b] \/ tracker'[b] = resp.chain[b]
        BY <2>1, <2>4, <3>1, RecordOrigin
      <4> QED
        BY <1>2, <2>3, <4>1
    <3>2. CASE b \notin Known(tracker')
      BY <1>3, <3>2 DEF Known
    <3> QED
      BY <3>1, <3>2
  <2> QED
    BY <2>2, <2>5
<1>5. CASE LocateFork
  <2>1. tracker' = PurgeAfter(tracker, fork')
    BY <1>5 DEF LocateFork
  <2>2. Known(tracker') \in SUBSET Known(tracker) /\ \A b \in Known(tracker') : tracker'[b] = tracker[b]
    BY <2>1, PurgeFacts
  <2>3. \A b \in Numbers : tracker'[b] <= epoch
    <3>1. ASSUME NEW b \in Numbers PROVE tracker'[b] <= epoch
      BY <1>2, <1>3, <2>2 DEF Known
    <3> QED
      BY <3>1
  <2>4. Cardinality(Known(tracker')) <= Cardinality(Known(tracker))
    BY <2>2, KnownCard
  <2>5. Cardinality(Known(tracker')) \in Nat /\ Cardinality(Known(tracker)) \in Nat
    BY KnownFinite
  <2> QED
    BY <1>2, <2>3, <2>4, <2>5, LimitFacts
<1> QED
  BY <1>4, <1>5

\* Every step keeps the versions in order.
LEMMA VersionStep ==
    ASSUME RTypeOK, RTypeOK', StepInv, KvRowInv(Hashes), VersionInv, LoopInv, RNext, ~torn'
    PROVE  VersionInv'
<1>1. kvDisk'[Hashes] <= kvLast'[Hashes] /\ kvTxn'[Hashes] <= kvLast'[Hashes] /\ kvDropped' = {}
  BY VersionOrder
<1> DEFINE Rest == /\ \A b \in Numbers : born'[b] <= epoch' /\ \A v \in Version : trackerAt'[v][b] <= epoch'
                   /\ Holding' => \A b \in Numbers : resp'.chain[b] <= epoch'
                   /\ \A v \in Version : Cardinality(Known(trackerAt'[v])) <= Window
<1>2. /\ \A b \in Numbers : born[b] <= epoch /\ \A v \in Version : trackerAt[v][b] <= epoch
      /\ Holding => \A b \in Numbers : resp.chain[b] <= epoch
      /\ \A v \in Version : Cardinality(Known(trackerAt[v])) <= Window
  BY DEF VersionInv
<1>3. ASSUME UNCHANGED <<born, epoch, trackerAt>>, Holding' => Holding /\ resp' = resp PROVE Rest
  BY <1>2, <1>3
<1>4. ASSUME Mine \/ LoadMiss \/ Load \/ EmitRows \/ SendRollback \/ Kill \/ Restart PROVE Rest
  <2>1. UNCHANGED <<born, epoch, trackerAt>> /\ (Holding' => Holding /\ resp' = resp)
    BY <1>4 DEF Mine, LoadMiss, Load, EmitRows, SendRollback, Kill, Restart, Memory, chainVars, sourceVars, Holding
  <2> QED
    BY <1>3, <2>1
<1>5. ASSUME (\E s \in Sinks : SinkStep(s)) \/ Tick \/ Drain PROVE Rest
  <2>1. UNCHANGED <<born, epoch, trackerAt, loop, resp>>
    BY <1>5, SourceFrame DEF chainVars, sourceVars
  <2> QED
    BY <1>3, <2>1 DEF Holding
<1>6. ASSUME Poll PROVE Rest
  <2>1. UNCHANGED <<born, epoch, trackerAt>> /\ (Holding' => resp'.chain = born)
    BY <1>6 DEF Poll, chainVars, Holding
  <2> QED
    BY <1>2, <2>1
<1>7. ASSUME Remember \/ LocateFork PROVE Rest
  <2>1. UNCHANGED <<born, epoch>> /\ ~Holding' /\ Save(tracker')
    BY <1>7 DEF Remember, LocateFork, chainVars, Holding
  <2>2. \A w \in Version : trackerAt'[w] = trackerAt[w] \/ trackerAt'[w] = tracker'
    BY <2>1, SaveFacts
  <2>3. /\ \A b \in Numbers : tracker'[b] <= epoch
        /\ Cardinality(Known(tracker')) <= Window
    BY <1>7, VersionSaved
  <2>4. ASSUME NEW v \in Version
        PROVE  Cardinality(Known(trackerAt'[v])) <= Window /\ \A b \in Numbers : trackerAt'[v][b] <= epoch
    BY <1>2, <2>2, <2>3
  <2> QED
    BY <1>2, <2>1, <2>4
<1>8. ASSUME NEW f \in 1..height, Reorg(f) PROVE Rest
  <2>1. /\ epoch \in Nat /\ epoch' = epoch + 1 /\ \A b \in Numbers : born[b] \in Nat
        /\ born' = [b \in Numbers |-> IF b >= f THEN epoch + 1 ELSE born[b]]
        /\ UNCHANGED <<trackerAt, loop, resp>>
    BY <1>8, NumberFacts DEF Reorg, RTypeOK, sourceVars
  <2>2. \A b \in Numbers : born'[b] <= epoch'
    BY <1>2, <2>1
  <2>3. ASSUME NEW v \in Version, NEW b \in Numbers PROVE trackerAt'[v][b] <= epoch'
    <3>1. trackerAt[v] \in HashWindow
      BY DEF RTypeOK
    <3>2. trackerAt[v][b] \in Nat \/ trackerAt[v][b] = Absent
      BY <3>1, NumberFacts DEF HashWindow
    <3>3. trackerAt[v][b] \in Int
      BY <3>2, LimitFacts
    <3>4. trackerAt[v][b] <= epoch /\ trackerAt' = trackerAt
      BY <1>2, <2>1
    <3> QED
      BY <2>1, <3>3, <3>4
  <2>4. Holding' => \A b \in Numbers : resp'.chain[b] <= epoch'
    <3>1. \A b \in Numbers : resp.chain[b] \in Nat
      BY SourceFacts, NumberFacts
    <3> QED
      BY <1>2, <2>1, <3>1 DEF Holding
  <2> QED
    BY <1>2, <2>1, <2>2, <2>3, <2>4
<1>9. Rest
  BY <1>4, <1>5, <1>6, <1>7, <1>8 DEF RNext
<1> QED
  BY <1>1, <1>9 DEF VersionInv

\* A process goes down only by Kill and up only by Restart.
LEMMA DownStep ==
    ASSUME DownInv, RNext, ~torn'
    PROVE  DownInv'
<1>1. CASE Mine \/ (\E f \in 1..height : Reorg(f))
  BY <1>1, Zenon DEF Mine, Reorg, vars, sourceVars, cursorVars, kvVars, historyVars, DownInv
<1>2. CASE LoadMiss \/ Load \/ Poll \/ EmitRows \/ Remember \/ LocateFork \/ SendRollback
  <2>1. running'
    BY <1>2 DEF LoadMiss, Load, Poll, EmitRows, Remember, LocateFork, SendRollback, Send, Save,
                KvGetMiss, KvGetFill, KvSet, vars
  <2> QED
    BY <2>1 DEF DownInv
<1>3. CASE (\E s \in Sinks : SinkStep(s)) \/ Tick \/ Drain
  BY <1>3, SourceFrame DEF DownInv
<1>4. CASE Kill
  BY <1>4, KillFacts DEF DownInv
<1>5. CASE Restart
  BY <1>5 DEF Restart, Open, DownInv
<1> QED
  BY <1>1, <1>2, <1>3, <1>4, <1>5 DEF RNext

\* A sink works only on what it was sent, and nothing is sent before the window
\* is loaded.
LEMMA SinkStepIsLater ==
    ASSUME StepInv, LoopInv, NEW s \in Sinks, SinkStep(s)
    PROVE  loop # "load"
<1>1. inbox[s] # <<>>
  BY DEF SinkStep, Write, AckBatch, BeginRewind, EndRewind, GiveUp, StepInv
<1> QED
  BY <1>1 DEF LoopInv

\* Every step keeps WindowInv.
LEMMA WindowStep ==
    ASSUME RTypeOK, RTypeOK', StepInv, KvRowInv(Hashes), KvSerialInv(Hashes), confirmations = 0,
           WindowInv, \A s \in Sinks : DurableInv(s), RNext, ~torn'
    PROVE  WindowInv'
<1>1. VersionInv /\ DownInv /\ LoopInv
  BY DEF WindowInv
<1>2. VersionInv' /\ DownInv'
  BY <1>1, VersionStep, DownStep
<1>3. CASE Mine \/ (\E f \in 1..height : Reorg(f))
  <2>1. UNCHANGED <<cursor, vouched, loop, resp, tracker, fork, trackerAt, kvLast, inbox>>
    BY <1>3 DEF Mine, Reorg, vars, historyVars, sourceVars, sinkVars, noteVars
  <2> QED
    BY <1>1, <1>2, <2>1, LoopStill DEF WindowInv
<1>4. CASE LoadMiss
  <2>1. UNCHANGED <<cursor, vouched, loop, resp, tracker, fork, trackerAt, kvLast, inbox>>
    BY <1>4 DEF LoadMiss, KvGetMiss, historyVars, sourceVars, sinkVars, noteVars
  <2> QED
    BY <1>1, <1>2, <2>1, LoopStill DEF WindowInv
<1>5. CASE Tick \/ Drain
  <2>1. UNCHANGED <<cursor, vouched, loop, resp, tracker, fork, trackerAt, kvLast>>
    BY <1>5, SourceFrame DEF sourceVars
  <2>2. UNCHANGED inbox
    BY <1>5 DEF Tick, Drain, sinkVars
  <2> QED
    BY <1>1, <1>2, <2>1, <2>2, LoopStill DEF WindowInv
<1>6. ASSUME NEW s \in Sinks, SinkStep(s) PROVE LoopInv'
  <2>1. UNCHANGED <<cursor, vouched, loop, resp, tracker, fork, trackerAt, kvLast>>
    BY <1>6, SourceFrame DEF sourceVars
  <2>2. loop # "load"
    BY <1>1, <1>6, SinkStepIsLater
  <2> QED
    BY <1>1, <2>1, <2>2, LoopStill
<1>7. CASE Load \/ Poll \/ EmitRows \/ Remember
  BY <1>1, <1>2, <1>7, LoopLoad, LoopPoll, LoopEmit, LoopRemember DEF WindowInv
<1>8. CASE LocateFork \/ SendRollback \/ Kill \/ Restart
  BY <1>1, <1>2, <1>8, LoopLocate, LoopRollback, LoopKill, LoopRestart DEF WindowInv
<1> QED
  BY <1>2, <1>3, <1>4, <1>5, <1>6, <1>7, <1>8 DEF RNext, WindowInv

\* The steps of the source and of the chain.
SourceStep ==
    \/ Mine \/ (\E f \in 1..height : Reorg(f)) \/ LoadMiss \/ Load \/ Poll
    \/ EmitRows \/ Remember \/ LocateFork \/ SendRollback

\* Every step of the source keeps what holds below a cursor.
LEMMA KeepsSource ==
    ASSUME RTypeOK, RTypeOK', StepInv, KvSerialInv(Hashes), WindowInv, WindowInv', NEW s \in Sinks,
           SourceStep, ~torn'
    PROVE  Keeps(s)
<1>1. vouched \in Int /\ VersionInv /\ LoopInv /\ LoopInv'
  BY DEF RTypeOK, WindowInv
<1>2. CASE Mine \/ (\E f \in 1..height : Reorg(f))
  <2>1. UNCHANGED <<cursor, vouched, loop, resp, fork, trackerAt, kvLast, inbox>>
    BY <1>2 DEF Mine, Reorg, vars, historyVars, sourceVars, sinkVars, noteVars
  <2> QED
    BY <1>1, <2>1, KeepsStill
<1>3. CASE LoadMiss
  <2>1. UNCHANGED <<cursor, vouched, loop, resp, fork, trackerAt, kvLast, inbox>>
    BY <1>3 DEF LoadMiss, KvGetMiss, historyVars, sourceVars, sinkVars, noteVars
  <2> QED
    BY <1>1, <2>1, KeepsStill
<1>4. CASE Load
  <2>1. loop = "load" /\ loop' = "poll" /\ UNCHANGED <<cursor, fork, trackerAt, kvLast, inbox>> /\ vouched <= vouched'
    BY <1>1, <1>4, LoadFacts
  <2> QED
    BY <2>1, KeepsStill
<1>5. CASE Poll
  <2>1. /\ loop = "poll" /\ loop' \in {"locate", "emit"}
        /\ UNCHANGED <<cursor, fork, trackerAt, kvLast, inbox, vouched>>
    BY <1>5 DEF Poll, vars, historyVars, sinkVars, noteVars
  <2> QED
    BY <1>1, <2>1, KeepsStill
<1>6. CASE EmitRows \/ Remember \/ LocateFork \/ SendRollback
  BY <1>1, <1>6, KeepsEmit, KeepsRemember, KeepsLocate, KeepsRollback
<1> QED
  BY <1>2, <1>3, <1>4, <1>5, <1>6 DEF SourceStep

==============================================================================
