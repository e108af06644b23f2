----------------------- MODULE AttackDetectionProofs -----------------------
(***************************************************************************)
(* Proofs about AttackDetection.  The invariant is in four parts: what is  *)
(* in the queue, the stages, the alarm, and the histories and the          *)
(* analyzer.                                                               *)
(***************************************************************************)
EXTENDS AttackDetection, SequenceTheorems, WellFoundedInduction, TLAPS

Values == {"none", "normal", "abnormal"}

\* What holds of every message on its way.  The watch, its items and the trees
\* do not change while there is one, but for the message of the timer.
Sound(m) ==
    /\ m.type = "ALERT" => m.data \in 1..3
    /\ m.type = "ALERT" /\ m.kind = "RAISE" /\ m.data = 1 =>
          /\ m_lastSuspicious # None
          /\ \E a \in Aggregates : items[a].saveMode
    /\ m.type = "WATCH_VALUES" => m.data = traffic
    /\ m.type = "DISTRIBUTION" /\ m.kind = "reply" =>
          m.data = m_addressDistributions
    /\ m.type = "SUSPICIOUS" => m_lastSuspicious # None
    /\ m.type = "SUSPICIOUS" /\ m.kind = "reply" => m.data = m_lastSuspicious
    /\ m.type = "INTERVAL_VALUES" => m_lastSuspicious # None
    /\ m.type = "INTERVAL_VALUES" /\ m.kind = "request" =>
          m.data = m_lastSuspicious

\* Only the first message can be from the timer or have the values of Watch; the
\* message of the timer is alone.
Quiet(m) == m.type \notin {"TIMER", "WATCH_VALUES"}

IsSeq(s) == s \in Seq(Range(s))

QueueInv ==
    /\ IsSeq(m_queue)
    /\ \A m \in Range(m_queue) : Sound(m)
    /\ m_queue # <<>> => \A m \in Range(Tail(m_queue)) : Quiet(m)
    /\ m_queue # <<>> /\ Head(m_queue).type = "TIMER" => Tail(m_queue) = <<>>

\* The stages.
StageInv ==
    /\ StagesContiguous
    /\ m_intervals \in Seq([Aggregates -> Values])
    /\ m_currentStageLevel > 1 => m_lastSuspicious # None

\* The alarm: when it is off, the message that unloads the stages is on its way.
AlarmInv ==
    /\ m_currentStageLevel > 1 /\ (\A a \in Aggregates : ~items[a].saveMode) =>
          \E m \in Range(m_queue) : m.type = "ALERT" /\ m.kind = "LOWER" /\ m.data = 1

\* m_intervals, with the values that are on their way to it.
Intervals ==
    IF m_queue # <<>> /\ Head(m_queue).type = "WATCH_VALUES"
    THEN Push(m_intervals, traffic)
    ELSE m_intervals

\* An item that was made later has counted nothing; in the learning phase no
\* excess is counted.
ItemInv(item) ==
    /\ ~item.exists => item.intervalNo = 0
    /\ item.intervalNo <= LearningIntervals =>
          item.exceedCounter = 0 /\ ~item.saveMode

\* The intervals that an item has counted.
Counted(item) ==
    IF item.intervalNo <= LearningIntervals
    THEN item.intervalNo
    ELSE LearningIntervals + item.exceedCounter

\* The histories: there is a tree for every interval.  An item has a value for
\* every interval that it has counted, and the suspicious one for all of them.
HistoryInv ==
    /\ Len(m_addressDistributions) = Len(Intervals)
    /\ m_queue # <<>> /\ Head(m_queue).type = "TIMER" =>
          \A a \in Aggregates : items[a].exists <=> traffic[a] # "none"
    /\ \A a \in Aggregates : ItemInv(items[a])
    /\ \A a \in Aggregates : \A i \in 1..Len(Intervals) :
          i > Len(Intervals) - Counted(items[a]) => Intervals[i][a] # "none"
    /\ m_lastSuspicious # None =>
          /\ items[m_lastSuspicious].exists
          /\ \A i \in 1..Len(Intervals) : Intervals[i][m_lastSuspicious] # "none"

AnalyzerState == [aggregate : Aggregates \cup {None}, haveValues : BOOLEAN,
                  values : Seq(BOOLEAN), haveTrees : BOOLEAN,
                  trees : Seq(Tree), verdict : {"NONE", "RAISE", "LOWER"}]

TreesOnTheWay == \E m \in Range(m_queue) : m.type = "DISTRIBUTION"

\* As many values as trees, at least.
Enough(values) ==
    values \in Seq(BOOLEAN) /\ Len(m_addressDistributions) <= Len(values)

\* The analyzer: while it has no trees, they are on their way; the values it
\* gets are as many as the trees at least.
AnalyzerInv ==
    /\ analyzer \in AnalyzerState
    /\ "Analyzer" \notin loaded => analyzer = NewAnalyzer
    /\ analyzer.haveTrees => Len(analyzer.trees) <= Len(m_addressDistributions)
    /\ analyzer.haveTrees /\ analyzer.haveValues =>
          Len(analyzer.trees) <= Len(analyzer.values)
    /\ analyzer.haveValues /\ TreesOnTheWay =>
          Len(m_addressDistributions) <= Len(analyzer.values)
    /\ "Analyzer" \in loaded /\ ~analyzer.haveTrees => TreesOnTheWay
    /\ \A m \in Range(m_queue) : m.type = "INTERVAL_VALUES" /\ m.kind = "reply" =>
          Enough(m.data)

-----------------------------------------------------------------------------
(* The queue.                                                              *)

\* The first message, and the others.
LEMMA HeadAndTail ==
    ASSUME NEW s, IsSeq(s), s # <<>>
    PROVE  /\ IsSeq(Tail(s))
           /\ Range(s) = {Head(s)} \cup Range(Tail(s))
<1> DEFINE S == Range(s)
<1>1. s \in Seq(S)
  BY DEF IsSeq
<1> HIDE DEF S
<1>2. /\ Len(s) \in Nat \ {0} /\ DOMAIN s = 1..Len(s) /\ Head(s) = s[1]
      /\ Tail(s) \in Seq(S) /\ DOMAIN Tail(s) = 1..(Len(s) - 1)
      /\ \A i \in 1..(Len(s) - 1) : Tail(s)[i] = s[i + 1]
  BY <1>1, HeadTailProperties, LenProperties, EmptySeq
<1>3. Range(s) = {Head(s)} \cup Range(Tail(s))
  <2>1. ASSUME NEW x \in Range(s) PROVE x \in {Head(s)} \cup Range(Tail(s))
    <3>1. PICK i \in 1..Len(s) : x = s[i]
      BY <1>2 DEF Range
    <3>2. CASE i = 1
      BY <1>2, <3>1, <3>2
    <3>3. CASE i # 1
      <4>1. i - 1 \in 1..(Len(s) - 1) /\ (i - 1) + 1 = i
        BY <1>2, <3>3
      <4>2. Tail(s)[i - 1] = x
        BY <1>2, <3>1, <4>1
      <4> QED
        BY Zenon, <1>2, <4>1, <4>2 DEF Range
    <3> QED
      BY <3>2, <3>3
  <2>2. ASSUME NEW x \in Range(Tail(s)) PROVE x \in Range(s)
    <3>1. PICK i \in 1..(Len(s) - 1) : x = Tail(s)[i]
      BY <1>2 DEF Range
    <3> QED
      BY <1>2, <3>1 DEF Range
  <2>3. Head(s) \in Range(s)
    BY <1>2 DEF Range
  <2> QED
    BY <2>1, <2>2, <2>3
<1>4. IsSeq(Tail(s))
  BY Zenon, <1>2, SeqOfRange DEF IsSeq
<1> QED
  BY <1>3, <1>4

\* What is in the queue after a delivery.
LEMMA SendResult ==
    ASSUME NEW messages, IsSeq(messages), IsSeq(m_queue), m_queue # <<>>,
           Send(messages)
    PROVE  /\ IsSeq(m_queue')
           /\ Range(m_queue') = Range(Tail(m_queue)) \cup Range(messages)
<1> DEFINE t == Tail(m_queue)
           S == Range(t) \cup Range(messages)
<1>1. t \in Seq(Range(t)) /\ messages \in Seq(Range(messages))
  BY HeadAndTail DEF IsSeq
<1> HIDE DEF t
<1>2. t \in Seq(S) /\ messages \in Seq(S)
  BY <1>1, SeqMonotonic
<1>3. t \o messages \in Seq(S)
  BY <1>2, ConcatProperties
<1>4. Range(t \o messages) = S
  BY <1>2, RangeConcatenation
<1>5. m_queue' = t \o messages
  BY DEF Send, t
<1> QED
  BY <1>3, <1>4, <1>5, SeqOfRange DEF IsSeq, t

\* Short lists of messages.
LEMMA ShortLists ==
    /\ IsSeq(<<>>) /\ Range(<<>>) = {}
    /\ \A x : IsSeq(<<x>>) /\ Range(<<x>>) = {x}
    /\ \A x, y : IsSeq(<<x, y>>) /\ Range(<<x, y>>) = {x, y}
<1>1. IsSeq(<<>>) /\ Range(<<>>) = {}
  BY DEF IsSeq, Range
<1>2. ASSUME NEW x PROVE IsSeq(<<x>>) /\ Range(<<x>>) = {x}
  BY DEF IsSeq, Range
<1>3. ASSUME NEW x, NEW y PROVE IsSeq(<<x, y>>) /\ Range(<<x, y>>) = {x, y}
  BY DEF IsSeq, Range
<1> QED
  BY <1>1, <1>2, <1>3

\* A concatenation.
LEMMA Concatenated ==
    ASSUME NEW s, NEW t, IsSeq(s), IsSeq(t)
    PROVE  IsSeq(s \o t) /\ Range(s \o t) = Range(s) \cup Range(t)
<1> DEFINE S == Range(s) \cup Range(t)
<1>1. s \in Seq(S) /\ t \in Seq(S)
  BY SeqMonotonic DEF IsSeq
<1>2. s \o t \in Seq(S) /\ Range(s \o t) = S
  BY <1>1, ConcatProperties, RangeConcatenation
<1> QED
  BY <1>2, SeqOfRange DEF IsSeq

\* A message in front of two lists.
LEMMA Prefixed ==
    ASSUME NEW m, NEW s, NEW t, IsSeq(s), IsSeq(t)
    PROVE  /\ <<m>> \o s \o t # <<>> /\ Head(<<m>> \o s \o t) = m
           /\ Tail(<<m>> \o s \o t) = s \o t
<1> DEFINE S == {m} \cup Range(s) \cup Range(t)
<1>1. m \in S /\ s \in Seq(S) /\ t \in Seq(S)
  BY SeqMonotonic DEF IsSeq
<1> HIDE DEF S
<1> QED
  BY <1>1

\* A message appended.
LEMMA Appended ==
    ASSUME NEW s, NEW m, IsSeq(s)
    PROVE  IsSeq(Append(s, m)) /\ Range(Append(s, m)) = Range(s) \cup {m}
<1>1. s \in Seq(Range(s) \cup {m}) /\ m \in Range(s) \cup {m}
  BY SeqMonotonic DEF IsSeq
<1>2. Append(s, m) = s \o <<m>>
  BY <1>1, AppendIsConcat
<1> QED
  BY <1>2, ShortLists, Concatenated

\* A delivery that leaves the watch and the trees alone keeps the queue sound,
\* if the messages it sends are.
LEMMA SendKeepsQueue ==
    ASSUME QueueInv, m_queue # <<>>,
           NEW messages, IsSeq(messages), Send(messages),
           UNCHANGED <<watch, m_addressDistributions>>,
           \A m \in Range(messages) : Sound(m) /\ Quiet(m)
    PROVE  /\ QueueInv'
           /\ Range(m_queue') = Range(Tail(m_queue)) \cup Range(messages)
           /\ Range(m_queue) = {Head(m_queue)} \cup Range(Tail(m_queue))
           /\ \A m \in Range(m_queue') : Quiet(m)
<1>1. /\ IsSeq(m_queue')
      /\ Range(m_queue') = Range(Tail(m_queue)) \cup Range(messages)
  BY SendResult DEF QueueInv
<1>2. Range(m_queue) = {Head(m_queue)} \cup Range(Tail(m_queue))
  BY HeadAndTail DEF QueueInv
<1>3. \A m \in Range(m_queue') : Sound(m) /\ Quiet(m)
  BY <1>1, <1>2 DEF QueueInv
<1>4. \A m : Sound(m) => Sound(m)'
  BY DEF Sound, watch
<1>5. m_queue' # <<>> => /\ Range(m_queue') = {Head(m_queue')} \cup Range(Tail(m_queue'))
                         /\ Head(m_queue').type # "TIMER"
  BY <1>1, <1>3, HeadAndTail DEF Quiet
<1>6. \A m : Quiet(m)' <=> Quiet(m)
  BY DEF Quiet
<1> QED
  BY <1>1, <1>2, <1>3, <1>4, <1>5, <1>6 DEF QueueInv

-----------------------------------------------------------------------------
(* The stages.                                                             *)

\* The settings.
LEMMA StageValues ==
    /\ DOMAIN Stage = {"Timer", "Watch", "Thresholds", "Addresses", "Analyzer",
                       "Anomaly"}
    /\ Stage["Timer"] = 1 /\ Stage["Watch"] = 1 /\ Stage["Thresholds"] = 1
    /\ Stage["Addresses"] = 1 /\ Stage["Analyzer"] = 2 /\ Stage["Anomaly"] = 3
    /\ \A m \in DOMAIN Stage : Stage[m] \in 1..3
    /\ \A s : OfStage(s) # {} => s \in 1..3
<1>1. /\ DOMAIN Stage = {"Timer", "Watch", "Thresholds", "Addresses", "Analyzer",
                         "Anomaly"}
      /\ Stage["Timer"] = 1 /\ Stage["Watch"] = 1 /\ Stage["Thresholds"] = 1
      /\ Stage["Addresses"] = 1 /\ Stage["Analyzer"] = 2 /\ Stage["Anomaly"] = 3
  BY DEF Stage
<1>2. \A m \in DOMAIN Stage : Stage[m] \in 1..3
  BY <1>1
<1> QED
  BY <1>1, <1>2 DEF OfStage

\* The first message is delivered.
LEMMA DeliveredFirst ==
    ASSUME NEW type, Delivered(type)
    PROVE  deadCall' = deadCall /\ m_queue # <<>> /\ Head(m_queue).type = type
BY DEF Delivered

\* The first message is sound.
LEMMA HeadSound ==
    ASSUME QueueInv, m_queue # <<>>
    PROVE  Sound(Head(m_queue))
BY HeadAndTail DEF QueueInv

\* ModuleManager::startup loads the lowest stage, with an empty queue.
LEMMA InitBase == Init => QueueInv /\ StageInv
<1> SUFFICES ASSUME Init PROVE QueueInv /\ StageInv
  OBVIOUS
<1>1. QueueInv
  BY ShortLists DEF Init, QueueInv
<1>2. TypeOK
  <2>1. \A a \in Aggregates : NewItem(a \in FrameSizes) \in
           [exists : BOOLEAN, intervalNo : 0..(LearningIntervals + 1),
            exceedCounter : 0..(ExceedThreshold + 1),
            saveMode : BOOLEAN, n_1_Exceeded : BOOLEAN]
    BY DetectionAssumption DEF NewItem
  <2>2. /\ m_currentStageLevel \in 1..3 /\ failing \subseteq DOMAIN Stage
        /\ loaded \subseteq DOMAIN Stage /\ subscribed \subseteq DOMAIN Stage
    BY DEF Init, OfStage, m_lowestStageLevel
  <2>3. /\ Len(m_intervals) <= HistoryLength
        /\ Len(m_addressDistributions) <= HistoryLength
        /\ m_addressDistributions \in Seq(Tree)
    BY DetectionAssumption DEF Init
  <2> QED
    BY Zenon, <2>1, <2>2, <2>3 DEF Init, TypeOK
<1>3. loaded = {m \in DOMAIN Stage : Stage[m] <= m_currentStageLevel}
  BY StageValues DEF Init, OfStage, m_lowestStageLevel
<1>4. m_intervals \in Seq([Aggregates -> Values])
  BY DEF Init
<1> QED
  BY <1>1, <1>2, <1>3, <1>4 DEF StageInv, StagesContiguous, Init,
     m_lowestStageLevel

\* The timer finds the queue empty.
LEMMA TimerEventBase ==
    ASSUME QueueInv, StageInv, TimerEvent
    PROVE  QueueInv' /\ StageInv'
<1> DEFINE msg == Message("TIMER", "reply", None)
<1>1. QueueInv'
  <2>1. m_queue' = <<msg>>
    BY DEF TimerEvent
  <2>2. Sound(msg)'
    BY DEF Sound, Message
  <2>3. /\ IsSeq(m_queue') /\ Range(m_queue') = {msg} /\ Tail(m_queue') = <<>>
    BY <2>1, ShortLists
  <2> QED
    BY <2>1, <2>2, <2>3, ShortLists DEF QueueInv
<1>2. TypeOK'
  <2>1. items' \in [Aggregates -> [exists : BOOLEAN,
                                   intervalNo : 0..(LearningIntervals + 1),
                                   exceedCounter : 0..(ExceedThreshold + 1),
                                   saveMode : BOOLEAN, n_1_Exceeded : BOOLEAN]]
    <3> DEFINE R == [exists : BOOLEAN, intervalNo : 0..(LearningIntervals + 1),
                     exceedCounter : 0..(ExceedThreshold + 1),
                     saveMode : BOOLEAN, n_1_Exceeded : BOOLEAN]
    <3>1. \A r \in R : \A b \in BOOLEAN : [r EXCEPT !.exists = b] \in R
      OBVIOUS
    <3>2. items \in [Aggregates -> R]
      BY DEF StageInv, StagesContiguous, TypeOK
    <3>3. items' = [a \in Aggregates |->
                       [items[a] EXCEPT !.exists = traffic'[a] # "none"]]
      BY DEF TimerEvent
    <3> HIDE DEF R
    <3>4. \A a \in Aggregates : [items[a] EXCEPT !.exists = traffic'[a] # "none"] \in R
      BY Zenon, <3>1, <3>2
    <3>5. items' \in [Aggregates -> R]
      BY <3>3, <3>4
    <3> QED
      BY <3>5 DEF R
  <2> QED
    BY <2>1 DEF TimerEvent, StageInv, StagesContiguous, TypeOK, settings, stages,
       collected
<1> QED
  BY <1>1, <1>2 DEF StageInv, StagesContiguous, TimerEvent, stages, collected

\* The alert of Anomaly is the only message.
LEMMA AnomalyEventBase ==
    ASSUME QueueInv, StageInv, AnomalyEvent
    PROVE  QueueInv' /\ StageInv'
<1> DEFINE msg == Alert("RAISE", Stage["Anomaly"])
<1>1. QueueInv'
  <2>1. m_queue' = <<msg>>
    BY DEF AnomalyEvent
  <2>2. msg.type = "ALERT" /\ msg.data = 3
    BY StageValues DEF Alert, Message
  <2>3. Sound(msg)'
    BY <2>2 DEF Sound
  <2>4. /\ IsSeq(m_queue') /\ Range(m_queue') = {msg} /\ Tail(m_queue') = <<>>
    BY <2>1, ShortLists
  <2> QED
    BY <2>1, <2>2, <2>3, <2>4, ShortLists DEF QueueInv
<1> QED
  BY <1>1 DEF StageInv, StagesContiguous, TypeOK, AnomalyEvent, settings, stages,
     collected, watch
\* The bounded histories: the entry is the last one, the others keep their order.
LEMMA PushResult ==
    ASSUME NEW S, NEW h \in Seq(S), NEW e \in S, Len(h) <= HistoryLength
    PROVE  LET p == Push(h, e)
               full == Len(h) >= HistoryLength
           IN  /\ p \in Seq(S)
               /\ Len(p) = IF full THEN HistoryLength ELSE Len(h) + 1
               /\ Len(p) <= HistoryLength
               /\ p[Len(p)] = e
               /\ \A i \in 1..(Len(p) - 1) : p[i] = IF full THEN h[i + 1] ELSE h[i]
<1>1. CASE Len(h) >= HistoryLength
  <2> DEFINE t == Tail(h)
  <2>1. h # <<>> /\ Len(h) = HistoryLength
    BY <1>1, DetectionAssumption, EmptySeq
  <2>2. /\ t \in Seq(S) /\ Len(t) = HistoryLength - 1
        /\ \A i \in 1..Len(t) : t[i] = h[i + 1]
    BY <2>1, HeadTailProperties
  <2> HIDE DEF t
  <2>3. /\ Append(t, e) \in Seq(S) /\ Len(Append(t, e)) = HistoryLength
        /\ \A i \in 1..Len(t) : Append(t, e)[i] = t[i]
        /\ Append(t, e)[HistoryLength] = e
    BY <2>2, AppendProperties, DetectionAssumption
  <2>4. Push(h, e) = Append(t, e)
    BY <1>1 DEF Push, t
  <2> QED
    BY <1>1, <2>2, <2>3, <2>4, DetectionAssumption
<1>2. CASE ~(Len(h) >= HistoryLength)
  <2>1. Push(h, e) = Append(h, e)
    BY <1>2 DEF Push
  <2>2. Len(h) \in Nat /\ Len(h) + 1 <= HistoryLength
    BY <1>2, LenProperties, DetectionAssumption
  <2>3. /\ Append(h, e) \in Seq(S) /\ Len(Append(h, e)) = Len(h) + 1
        /\ \A i \in 1..Len(h) : Append(h, e)[i] = h[i]
        /\ Append(h, e)[Len(h) + 1] = e
    BY AppendProperties
  <2> QED
    BY <1>2, <2>1, <2>2, <2>3
<1> QED
  BY <1>1, <1>2

Item == [exists : BOOLEAN, intervalNo : 0..(LearningIntervals + 1),
         exceedCounter : 0..(ExceedThreshold + 1),
         saveMode : BOOLEAN, n_1_Exceeded : BOOLEAN]

\* AGGREGATE_WATCH_ITEM::exceeded: an item counts one interval at most, and it
\* raises the alarm with more than ExceedThreshold intervals after the learning
\* phase only.
LEMMA ExceededResult ==
    ASSUME NEW item \in Item, NEW above \in BOOLEAN
    PROVE  /\ exceeded(item, above) \in Item
           /\ exceeded(item, above).exists = item.exists
           /\ ~item.exists => exceeded(item, above) = item
           /\ ItemInv(item) =>
                 /\ ItemInv(exceeded(item, above))
                 /\ Counted(exceeded(item, above)) <= Counted(item) + 1
                 /\ exceeded(item, above).saveMode /\ ~item.saveMode =>
                       Counted(exceeded(item, above))
                          = LearningIntervals + ExceedThreshold + 1
<1>0. LearningIntervals \in Nat /\ ExceedThreshold \in Nat
  BY DetectionAssumption
<1>1. PICK e \in BOOLEAN, i \in 0..(LearningIntervals + 1),
           c \in 0..(ExceedThreshold + 1), s \in BOOLEAN, n \in BOOLEAN :
         item = [exists |-> e, intervalNo |-> i, exceedCounter |-> c,
                 saveMode |-> s, n_1_Exceeded |-> n]
  BY DEF Item
<1> DEFINE no == Cap(i + 1, LearningIntervals + 1)
           count == Cap(c + 1, ExceedThreshold + 1)
           new == exceeded(item, above)
<1>2. /\ no \in 1..(LearningIntervals + 1) /\ count \in 1..(ExceedThreshold + 1)
      /\ no <= i + 1 /\ count <= c + 1
      /\ no <= LearningIntervals => no = i + 1
      /\ no > LearningIntervals => i >= LearningIntervals
      /\ count > ExceedThreshold => count = ExceedThreshold + 1
  BY <1>0 DEF Cap
<1>3. /\ item.exists = e /\ item.intervalNo = i /\ item.exceedCounter = c
      /\ item.saveMode = s /\ item.n_1_Exceeded = n
  BY <1>1
<1>4. CASE ~e
  <2>1. new = item
    BY <1>3, <1>4 DEF exceeded
  <2> QED
    BY <1>0, <1>3, <2>1 DEF Counted
<1> DEFINE next == [item EXCEPT !.intervalNo = no]
<1>n. next = [exists |-> e, intervalNo |-> no, exceedCounter |-> c,
              saveMode |-> s, n_1_Exceeded |-> n]
  BY <1>1
<1> HIDE DEF no, count
<1>t. PICK on \in BOOLEAN : on = TRUE
  BY Zenon
<1>f. PICK off \in BOOLEAN : off = FALSE
  BY Zenon
<1>r. PICK raise \in BOOLEAN : raise = (s \/ count > ExceedThreshold)
  BY Zenon
<1>s. raise => s \/ count > ExceedThreshold
  BY <1>r
<1>g. ~off
  BY <1>f
<1>5. CASE e /\ no <= LearningIntervals
  <2>1. new = next
    BY <1>3, <1>n, <1>5 DEF exceeded, no, count
  <2> HIDE DEF next, new
  <2>2. new = [exists |-> e, intervalNo |-> no, exceedCounter |-> c,
               saveMode |-> s, n_1_Exceeded |-> n]
    BY <1>n, <2>1
  <2>3. new \in Item
    BY <1>2, <2>2 DEF Item
  <2>4. /\ new.exists = e /\ new.intervalNo = no
        /\ new.exceedCounter = c /\ new.saveMode = s
    BY <2>2
  <2> QED
    BY <1>0, <1>2, <1>3, <1>s, <1>g, <1>5, <2>3, <2>4 DEF ItemInv, Counted, new
<1>6. CASE e /\ ~(no <= LearningIntervals) /\ above
  <2>1. new = [next EXCEPT !.exceedCounter = count, !.n_1_Exceeded = on,
                           !.saveMode = raise]
    BY Zenon, <1>3, <1>n, <1>6, <1>t, <1>r DEF exceeded, no, count
  <2> HIDE DEF next, new
  <2>2. new = [exists |-> e, intervalNo |-> no, exceedCounter |-> count,
               saveMode |-> raise, n_1_Exceeded |-> on]
    BY Zenon, <1>n, <2>1
  <2>3. new \in Item
    BY <1>2, <2>2 DEF Item
  <2>4. /\ new.exists = e /\ new.intervalNo = no
        /\ new.exceedCounter = count /\ new.saveMode = raise
    BY <2>2
  <2>5. Counted(new) = LearningIntervals + count
    BY <1>0, <1>2, <1>6, <2>4 DEF Counted
  <2>6. /\ Counted(item) \in Nat /\ Counted(item) >= LearningIntervals
        /\ (ItemInv(item) => LearningIntervals + c <= Counted(item))
    BY <1>0, <1>2, <1>3, <1>6 DEF Counted, ItemInv
  <2>7. ItemInv(new)
    BY <1>0, <1>2, <1>6, <2>4 DEF ItemInv
  <2>8. ItemInv(item) => Counted(new) <= Counted(item) + 1
    BY <1>0, <1>2, <2>5, <2>6
  <2>9. new.saveMode /\ ~item.saveMode =>
           Counted(new) = LearningIntervals + ExceedThreshold + 1
    BY <1>0, <1>2, <1>3, <1>s, <1>g, <2>4, <2>5
  <2> QED
    BY Zenon, <1>3, <1>6, <2>3, <2>4, <2>7, <2>8, <2>9 DEF new
<1>7. CASE e /\ ~(no <= LearningIntervals) /\ ~above /\ n
  <2>1. new = [next EXCEPT !.n_1_Exceeded = off]
    BY Zenon, <1>3, <1>n, <1>7, <1>f DEF exceeded, no, count
  <2> HIDE DEF next, new
  <2>2. new = [exists |-> e, intervalNo |-> no, exceedCounter |-> c,
               saveMode |-> s, n_1_Exceeded |-> off]
    BY <1>n, <2>1
  <2>3. new \in Item
    BY <1>2, <2>2 DEF Item
  <2>4. /\ new.exists = e /\ new.intervalNo = no
        /\ new.exceedCounter = c /\ new.saveMode = s
    BY <2>2
  <2> QED
    BY <1>0, <1>2, <1>3, <1>s, <1>g, <1>7, <2>3, <2>4 DEF ItemInv, Counted, new
<1>8. CASE e /\ ~(no <= LearningIntervals) /\ ~above /\ ~n
  <2>1. new = [next EXCEPT !.exceedCounter = 0, !.saveMode = off]
    BY Zenon, <1>3, <1>n, <1>8, <1>f DEF exceeded, no, count
  <2> HIDE DEF next, new
  <2>2. new = [exists |-> e, intervalNo |-> no, exceedCounter |-> 0,
               saveMode |-> off, n_1_Exceeded |-> n]
    BY Zenon, <1>n, <2>1
  <2>3. new \in Item
    BY <1>0, <1>2, <2>2 DEF Item
  <2>4. /\ new.exists = e /\ new.intervalNo = no
        /\ new.exceedCounter = 0 /\ new.saveMode = off
    BY <2>2
  <2>5. Counted(new) = LearningIntervals
    BY <1>0, <1>2, <1>8, <2>4 DEF Counted
  <2>6. /\ Counted(item) \in Nat /\ Counted(item) >= LearningIntervals
        /\ (ItemInv(item) => LearningIntervals + c <= Counted(item))
    BY <1>0, <1>2, <1>3, <1>8 DEF Counted, ItemInv
  <2>7. ItemInv(new)
    BY <1>0, <1>2, <1>8, <2>4 DEF ItemInv
  <2>8. ItemInv(item) => Counted(new) <= Counted(item) + 1
    BY <1>0, <1>2, <2>5, <2>6
  <2>9. new.saveMode /\ ~item.saveMode =>
           Counted(new) = LearningIntervals + ExceedThreshold + 1
    BY <1>0, <1>2, <1>3, <1>s, <1>g, <2>4, <2>5
  <2> QED
    BY <1>3, <1>8, <2>3, <2>4, <2>7, <2>8, <2>9 DEF new
<1> QED
  BY <1>4, <1>5, <1>6, <1>7, <1>8

\* Addresses: the tree of the new interval follows the trees of the others.
LEMMA TreesPushed ==
    ASSUME m_addressDistributions \in Seq(Tree),
           Len(m_addressDistributions) <= HistoryLength
    PROVE  LET complete == [ended |-> TRUE,
                            abnormal |-> {a \in Aggregates : traffic[a] = "abnormal"}]
               trees == IF m_addressDistributions = <<>> THEN <<>>
                        ELSE [m_addressDistributions EXCEPT
                                ![Len(m_addressDistributions)] = complete]
           IN  /\ Push(trees, NewTree) \in Seq(Tree)
               /\ Len(Push(trees, NewTree)) <= HistoryLength
               /\ Len(Push(trees, NewTree))
                     = IF Len(m_addressDistributions) >= HistoryLength
                       THEN HistoryLength ELSE Len(m_addressDistributions) + 1
<1> DEFINE complete == [ended |-> TRUE,
                        abnormal |-> {a \in Aggregates : traffic[a] = "abnormal"}]
           trees == IF m_addressDistributions = <<>> THEN <<>>
                    ELSE [m_addressDistributions EXCEPT
                            ![Len(m_addressDistributions)] = complete]
<1>1. complete \in Tree /\ NewTree \in Tree
  BY DEF Tree, NewTree
<1> HIDE DEF complete
<1>2. trees \in Seq(Tree) /\ Len(trees) = Len(m_addressDistributions)
  <2>1. CASE m_addressDistributions = <<>>
    BY <2>1
  <2>2. CASE m_addressDistributions # <<>>
    <3>1. Len(m_addressDistributions) \in 1..Len(m_addressDistributions)
      BY <2>2, LenProperties, EmptySeq
    <3> QED
      BY <1>1, <2>2, <3>1, ExceptSeq
  <2> QED
    BY <2>1, <2>2
<1> HIDE DEF trees
<1>3. /\ Push(trees, NewTree) \in Seq(Tree)
      /\ Len(Push(trees, NewTree)) <= HistoryLength
      /\ Len(Push(trees, NewTree)) = IF Len(trees) >= HistoryLength
                                     THEN HistoryLength ELSE Len(trees) + 1
  BY Zenon, <1>1, <1>2, PushResult
<1> QED
  BY <1>2, <1>3 DEF trees, complete

\* The interval that ends: Watch sends its values and its alerts.
LEMMA HandleTimerBase ==
    ASSUME QueueInv, StageInv, HandleTimer
    PROVE  /\ QueueInv' /\ StageInv'
           /\ m_queue' # <<>> /\ Head(m_queue').type = "WATCH_VALUES"
           /\ \A m \in Range(m_queue') : m.type \in {"WATCH_VALUES", "ALERT"}
           /\ (\E a \in Aggregates : ~items'[a].saveMode /\ items[a].saveMode) =>
                 \E m \in Range(m_queue') :
                    m.type = "ALERT" /\ m.kind = "LOWER" /\ m.data = 1
<1> DEFINE next == [a \in Aggregates |-> exceeded(items[a], traffic[a] = "abnormal")]
           raised == {a \in Aggregates : next[a].saveMode /\ ~items[a].saveMode}
           lowered == {a \in Aggregates : ~next[a].saveMode /\ items[a].saveMode}
           complete == [ended |-> TRUE,
                        abnormal |-> {a \in Aggregates : traffic[a] = "abnormal"}]
           trees == IF m_addressDistributions = <<>> THEN <<>>
                    ELSE [m_addressDistributions EXCEPT
                            ![Len(m_addressDistributions)] = complete]
           values == Message("WATCH_VALUES", "reply", traffic)
           up == IF raised = {} THEN <<>> ELSE <<Alert("RAISE", Stage["Watch"])>>
           down == IF lowered = {} THEN <<>> ELSE <<Alert("LOWER", Stage["Watch"])>>
<1>1. /\ m_queue # <<>> /\ Head(m_queue).type = "TIMER" /\ deadCall' = deadCall
      /\ items' = next
      /\ IF raised = {} THEN UNCHANGED m_lastSuspicious
                        ELSE m_lastSuspicious' \in raised
      /\ m_addressDistributions' = Push(trees, NewTree)
      /\ Send(<<values>> \o up \o down)
      /\ UNCHANGED <<settings, stages, traffic, m_intervals, analyzer>>
  BY Zenon, DeliveredFirst DEF HandleTimer
<1>2. \A a \in Aggregates : items[a] \in Item /\ next[a] \in Item
  BY Zenon, ExceededResult DEF StageInv, StagesContiguous, TypeOK, Item
<1>3. /\ m_lastSuspicious' \in Aggregates \cup {None}
      /\ m_lastSuspicious # None \/ raised # {} => m_lastSuspicious' # None
  BY Zenon, <1>1, DetectionAssumption DEF StageInv, StagesContiguous, TypeOK, Aggregates
<1>4. raised # {} => \E a \in Aggregates : items'[a].saveMode
  BY <1>1
<1>5. TypeOK'
  <2>1. /\ m_addressDistributions' \in Seq(Tree)
        /\ Len(m_addressDistributions') <= HistoryLength
    BY <1>1, TreesPushed DEF StageInv, StagesContiguous, TypeOK
  <2>2. items' \in [Aggregates -> Item]
    BY <1>1, <1>2
  <2> QED
    BY Zenon, <1>1, <1>3, <2>1, <2>2 DEF TypeOK, StageInv, StagesContiguous, Item,
       settings, stages
<1>6. StageInv'
  BY <1>1, <1>3, <1>5 DEF StageInv, StagesContiguous, stages
<1>7. IsSeq(up) /\ IsSeq(down) /\ IsSeq(<<values>>)
  BY ShortLists
<1>8. \A m \in Range(up) \cup Range(down) :
         Sound(m)' /\ Quiet(m) /\ m.type = "ALERT"
  <2>1. ASSUME NEW m \in Range(up) PROVE Sound(m)' /\ Quiet(m) /\ m.type = "ALERT"
    <3>1. raised # {} /\ m = Alert("RAISE", Stage["Watch"])
      BY <2>1, ShortLists
    <3>2. m.type = "ALERT" /\ m.data = 1
      BY <3>1, StageValues DEF Alert, Message
    <3>3. /\ m_lastSuspicious' # None
          /\ \E a \in Aggregates : items'[a].saveMode
      BY <1>3, <1>4, <3>1
    <3> HIDE DEF next, raised, lowered, complete, trees, values, up, down
    <3> QED
      BY <3>2, <3>3 DEF Sound, Quiet
  <2>2. ASSUME NEW m \in Range(down) PROVE Sound(m)' /\ Quiet(m) /\ m.type = "ALERT"
    <3>1. m = Alert("LOWER", Stage["Watch"])
      BY <2>2, ShortLists
    <3>2. m.type = "ALERT" /\ m.kind = "LOWER" /\ m.data = 1
      BY <3>1, StageValues DEF Alert, Message
    <3> QED
      BY <3>2 DEF Sound, Quiet
  <2> QED
    BY Zenon, <2>1, <2>2
<1>9. values.type = "WATCH_VALUES" /\ \A m : m = values => Sound(m)'
  <2>1. values.type = "WATCH_VALUES" /\ values.data = traffic
    BY DEF Message
  <2> QED
    BY <1>1, <2>1 DEF Sound
<1>10. /\ IsSeq(m_queue') /\ m_queue' # <<>> /\ Head(m_queue') = values
       /\ Range(Tail(m_queue')) = Range(up) \cup Range(down)
       /\ Range(m_queue') = {values} \cup Range(up) \cup Range(down)
  <2> HIDE DEF values, up, down
  <2>1. Tail(m_queue) = <<>>
    BY <1>1 DEF QueueInv
  <2>2. IsSeq(up \o down) /\ Range(up \o down) = Range(up) \cup Range(down)
    BY <1>7, Concatenated
  <2>3. /\ m_queue' = <<values>> \o up \o down
        /\ IsSeq(m_queue')
        /\ Range(m_queue') = {values} \cup Range(up) \cup Range(down)
    <3>1. IsSeq(<<values>> \o up) /\ Range(<<values>> \o up) = {values} \cup Range(up)
      BY <1>7, Concatenated, ShortLists
    <3>2. /\ IsSeq(<<values>> \o up \o down)
          /\ Range(<<values>> \o up \o down) = {values} \cup Range(up) \cup Range(down)
      BY <1>7, <3>1, Concatenated
    <3>3. m_queue' = <<values>> \o up \o down
      <4>1. <<>> \o (<<values>> \o up \o down) = <<values>> \o up \o down
        BY <3>2, ConcatEmptySeq DEF IsSeq
      <4> QED
        BY Zenon, <1>1, <2>1, <4>1 DEF Send
    <3> QED
      BY <3>2, <3>3
  <2>4. Head(m_queue') = values /\ Tail(m_queue') = up \o down /\ m_queue' # <<>>
    <3> DEFINE all == <<values>> \o up \o down
    <3>1. all # <<>> /\ Head(all) = values /\ Tail(all) = up \o down
      BY SMTT(30), <1>7, Prefixed
    <3>2. m_queue' = all
      BY Zenon, <2>3
    <3> HIDE DEF all
    <3> QED
      BY Zenon, <3>1, <3>2
  <2> QED
    BY Zenon, <2>2, <2>3, <2>4
<1>l. (\E a \in Aggregates : ~items'[a].saveMode /\ items[a].saveMode) =>
         \E m \in Range(m_queue') : m.type = "ALERT" /\ m.kind = "LOWER" /\ m.data = 1
  <2> SUFFICES ASSUME \E a \in Aggregates : ~items'[a].saveMode /\ items[a].saveMode
               PROVE  \E m \in Range(m_queue') :
                         m.type = "ALERT" /\ m.kind = "LOWER" /\ m.data = 1
    OBVIOUS
  <2> DEFINE alert == Alert("LOWER", Stage["Watch"])
  <2>1. lowered # {}
    BY Zenon, <1>1
  <2>2. alert \in Range(down)
    BY Zenon, <2>1, ShortLists
  <2>3. alert.type = "ALERT" /\ alert.kind = "LOWER" /\ alert.data = 1
    BY StageValues DEF Alert, Message
  <2> QED
    BY Zenon, <1>10, <2>2, <2>3
<1> HIDE DEF next, raised, lowered, complete, trees, values, up, down
<1>11. QueueInv'
  <2>1. \A m \in Range(m_queue') : Sound(m)'
    BY <1>8, <1>9, <1>10
  <2>2. \A m \in Range(Tail(m_queue')) : Quiet(m)
    BY <1>8, <1>10
  <2>3. Head(m_queue').type # "TIMER"
    BY <1>9, <1>10
  <2>4. \A m \in Range(Tail(m_queue')) : Quiet(m)'
    BY <2>2 DEF Quiet
  <2> QED
    BY <1>10, <2>1, <2>3, <2>4, Zenon DEF QueueInv
<1>12. \A m \in Range(m_queue') : m.type \in {"WATCH_VALUES", "ALERT"}
  BY <1>8, <1>9, <1>10
<1> QED
  BY <1>6, <1>9, <1>10, <1>11, <1>12, <1>l

\* A delivery without an answer.
LEMMA NothingSent ==
    ASSUME QueueInv, m_queue # <<>>, Send(<<>>),
           UNCHANGED <<watch, m_addressDistributions>>
    PROVE  /\ QueueInv' /\ Range(m_queue') = Range(Tail(m_queue))
           /\ Range(m_queue) = {Head(m_queue)} \cup Range(Tail(m_queue))
           /\ \A m \in Range(m_queue') : Quiet(m)
<1>1. IsSeq(<<>>) /\ Range(<<>>) = {} /\ \A m \in Range(<<>>) : Sound(m) /\ Quiet(m)
  BY ShortLists
<1>2. /\ QueueInv'
      /\ Range(m_queue') = Range(Tail(m_queue)) \cup Range(<<>>)
      /\ Range(m_queue) = {Head(m_queue)} \cup Range(Tail(m_queue))
      /\ \A m \in Range(m_queue') : Quiet(m)
  BY <1>1, SendKeepsQueue
<1> QED
  BY <1>1, <1>2

\* Thresholds keeps the values of the interval.
LEMMA HandleWatchValuesBase ==
    ASSUME QueueInv, StageInv, HandleWatchValues
    PROVE  /\ QueueInv' /\ StageInv'
           /\ Range(m_queue) = {Head(m_queue)} \cup Range(Tail(m_queue))
           /\ Range(m_queue') = Range(Tail(m_queue))
           /\ \A m \in Range(m_queue') : Quiet(m)
           /\ Data = traffic
<1>1. /\ m_queue # <<>> /\ Head(m_queue).type = "WATCH_VALUES" /\ deadCall' = deadCall
      /\ m_intervals' = Push(m_intervals, Data) /\ Send(<<>>)
      /\ UNCHANGED <<settings, stages, watch, m_addressDistributions, analyzer>>
  BY DeliveredFirst DEF HandleWatchValues
<1>2. /\ QueueInv'
      /\ Range(m_queue) = {Head(m_queue)} \cup Range(Tail(m_queue))
      /\ Range(m_queue') = Range(Tail(m_queue))
      /\ \A m \in Range(m_queue') : Quiet(m)
  BY <1>1, NothingSent
<1>3. Data = traffic
  BY <1>1, HeadSound DEF Sound, Data
<1>4. traffic \in [Aggregates -> Values]
  BY DEF StageInv, StagesContiguous, TypeOK, Values
<1>5. /\ m_intervals' \in Seq([Aggregates -> Values])
      /\ Len(m_intervals') <= HistoryLength
  BY <1>1, <1>3, <1>4, PushResult DEF StageInv, StagesContiguous, TypeOK
<1> QED
  BY <1>1, <1>2, <1>3, <1>5 DEF StageInv, StagesContiguous, TypeOK, settings, stages,
     watch

\* A step of the modules that leaves the stages alone.
LEMMA StageKept ==
    ASSUME StageInv, deadCall' = deadCall, UNCHANGED <<settings, stages, watch, collected>>
    PROVE  StageInv'
BY DEF StageInv, StagesContiguous, TypeOK, settings, stages, watch, collected

\* The next stage has been loaded, or its modules have been deleted after they
\* registered; the analyzer asks for the trees with message m.
Loaded(m) ==
    /\ Data = m_currentStageLevel /\ m_currentStageLevel \in {1, 2}
    /\ m_currentStageLevel' \in {m_currentStageLevel, m_currentStageLevel + 1}
    /\ Range(Tail(m_queue)) \subseteq Range(m_queue')
    /\ \A x \in Range(m_queue') :
          x \in Range(Tail(m_queue)) \/ x.type \in {"SUSPICIOUS", "ANOMALY_TYPE"}
                                   \/ (m_currentStageLevel = 1 /\ x = m)
    /\ m_currentStageLevel = 1 => m \in Range(m_queue')

\* An alert that loads the next stage, or none.
LEMMA RaiseBase ==
    ASSUME QueueInv, StageInv, Delivered("ALERT"), Raise,
           UNCHANGED <<settings, watch, collected>>
    PROVE  /\ QueueInv' /\ StageInv' /\ UNCHANGED analyzer
           /\ Range(m_queue) = {Head(m_queue)} \cup Range(Tail(m_queue))
           /\ \/ UNCHANGED stages /\ Range(m_queue') = Range(Tail(m_queue))
              \/ Loaded(Request("DISTRIBUTION", None))
<1>1. /\ m_queue # <<>> /\ Head(m_queue).type = "ALERT" /\ deadCall' = deadCall
      /\ Kind = "RAISE"
  BY DeliveredFirst DEF Raise
<1>2. Sound(Head(m_queue))
  BY <1>1, HeadSound
<1>3. UNCHANGED <<watch, m_addressDistributions>>
  BY DEF collected
<1>4. CASE Data = m_currentStageLevel /\ OfStage(Data + 1) # {}
  <2> DEFINE s == Data + 1
             messages ==
                 CASE s = Stage["Analyzer"] ->
                         <<Request("DISTRIBUTION", None), Request("SUSPICIOUS", None)>>
                 [] s = Stage["Anomaly"] /\ query -> <<Request("ANOMALY_TYPE", None)>>
                 [] OTHER -> <<>>
  <2>1. /\ subscribed' = subscribed \cup OfStage(s) /\ Send(messages)
        /\ \/ loaded' = loaded \cup OfStage(s) /\ m_currentStageLevel' = s
           \/ loaded' = loaded /\ m_currentStageLevel' = m_currentStageLevel
    BY <1>4 DEF Raise, loadStage
  <2>2. /\ m_currentStageLevel \in {1, 2} /\ s = m_currentStageLevel + 1 /\ s \in 2..3
    <3>1. s \in 1..3
      BY <1>4, StageValues, Zenon
    <3>2. m_currentStageLevel \in 1..3
      BY DEF StageInv, StagesContiguous, TypeOK
    <3> QED
      BY <1>4, <3>1, <3>2
  <2>3. m_lastSuspicious # None
    <3>1. CASE m_currentStageLevel = 1
      BY <1>1, <1>2, <1>4, <3>1 DEF Sound, Kind, Data
    <3>2. CASE m_currentStageLevel = 2
      BY <3>2 DEF StageInv
    <3> QED
      BY <2>2, <3>1, <3>2
  <2>4. /\ IsSeq(messages) /\ \A m \in Range(messages) : Sound(m) /\ Quiet(m)
        /\ m_currentStageLevel = 1 => Request("DISTRIBUTION", None) \in Range(messages)
        /\ \A m \in Range(messages) :
              \/ m_currentStageLevel = 1 /\ m = Request("DISTRIBUTION", None)
              \/ m.type \in {"SUSPICIOUS", "ANOMALY_TYPE"}
    <3>1. ASSUME NEW m \in {Request("DISTRIBUTION", None), Request("SUSPICIOUS", None),
                            Request("ANOMALY_TYPE", None)}
          PROVE  /\ Sound(m) /\ Quiet(m)
                 /\ \/ m = Request("DISTRIBUTION", None)
                    \/ m.type \in {"SUSPICIOUS", "ANOMALY_TYPE"}
      BY <2>3 DEF Request, Message, Sound, Quiet
    <3>2. CASE s = 2
      <4>1. messages = <<Request("DISTRIBUTION", None), Request("SUSPICIOUS", None)>>
        BY <3>2, StageValues
      <4> QED
        BY <2>2, <3>1, <3>2, <4>1, ShortLists
    <3>3. CASE s = 3 /\ query
      <4>1. messages = <<Request("ANOMALY_TYPE", None)>>
        BY <3>3, StageValues
      <4> QED
        <5>1. Request("ANOMALY_TYPE", None).type = "ANOMALY_TYPE"
          BY DEF Request, Message
        <5> QED
          BY <2>2, <3>1, <3>3, <4>1, <5>1, ShortLists
    <3>4. CASE s = 3 /\ ~query
      <4>1. messages = <<>>
        BY <3>4, StageValues
      <4> QED
        BY <2>2, <3>4, <4>1, ShortLists
    <3> QED
      BY <2>2, <3>2, <3>3, <3>4
  <2> HIDE DEF messages, s
  <2>5. /\ QueueInv'
        /\ Range(m_queue') = Range(Tail(m_queue)) \cup Range(messages)
        /\ Range(m_queue) = {Head(m_queue)} \cup Range(Tail(m_queue))
    BY <1>1, <1>3, <2>1, <2>4, SendKeepsQueue
  <2>6. loaded' = {m \in DOMAIN Stage : Stage[m] <= m_currentStageLevel'}
    BY <2>1, <2>2, StageValues DEF StageInv, StagesContiguous, OfStage
  <2>7. loaded' \subseteq DOMAIN Stage /\ subscribed' \subseteq DOMAIN Stage
    BY <2>1, <2>6 DEF StageInv, StagesContiguous, TypeOK, OfStage
  <2>8. m_currentStageLevel' \in 1..3
    BY <2>1, <2>2
  <2>9. StageInv'
    BY <1>1, <2>3, <2>6, <2>7, <2>8
       DEF StageInv, StagesContiguous, TypeOK, settings, watch, collected
  <2>10. Loaded(Request("DISTRIBUTION", None))
    BY <1>4, <2>1, <2>2, <2>4, <2>5 DEF Loaded
  <2> QED
    BY <1>4, <2>5, <2>9, <2>10 DEF Raise, loadStage
<1>5. CASE ~(Data = m_currentStageLevel /\ OfStage(Data + 1) # {})
  <2>1. Send(<<>>) /\ UNCHANGED <<stages, analyzer>>
    BY <1>5 DEF Raise
  <2>2. /\ QueueInv' /\ Range(m_queue') = Range(Tail(m_queue))
        /\ Range(m_queue) = {Head(m_queue)} \cup Range(Tail(m_queue))
    BY <1>1, <1>3, <2>1, NothingSent
  <2> QED
    BY <1>1, <2>1, <2>2, StageKept
<1> QED
  BY <1>4, <1>5

\* An alert that unloads stages, or none.
LEMMA LowerBase ==
    ASSUME QueueInv, StageInv, Delivered("ALERT"), Lower,
           UNCHANGED <<settings, watch, collected>>
    PROVE  /\ QueueInv' /\ StageInv'
           /\ Range(m_queue) = {Head(m_queue)} \cup Range(Tail(m_queue))
           /\ Range(m_queue') = Range(Tail(m_queue))
           /\ m_currentStageLevel' <= m_currentStageLevel
           /\ Data = 1 => m_currentStageLevel' = 1
           /\ loaded' \subseteq loaded
           /\ analyzer' = IF "Analyzer" \in loaded \ loaded' THEN NewAnalyzer
                          ELSE analyzer
<1>1. /\ m_queue # <<>> /\ Head(m_queue).type = "ALERT" /\ deadCall' = deadCall
      /\ Send(<<>>)
  BY DeliveredFirst DEF Lower
<1>2. /\ QueueInv' /\ Range(m_queue') = Range(Tail(m_queue))
      /\ Range(m_queue) = {Head(m_queue)} \cup Range(Tail(m_queue))
  BY <1>1, NothingSent DEF collected
<1>3. Data \in 1..3
  BY <1>1, HeadSound DEF Sound, Data
<1>4. CASE Data > m_currentStageLevel
  <2>1. UNCHANGED <<stages, analyzer>>
    BY <1>4 DEF Lower
  <2>2. StageInv'
    BY <1>1, <2>1, StageKept
  <2>3. Data # 1 /\ m_currentStageLevel \in 1..3
    BY <1>3, <1>4 DEF StageInv, StagesContiguous, TypeOK
  <2> QED
    BY <1>2, <2>1, <2>2, <2>3 DEF stages
<1>5. CASE ~(Data > m_currentStageLevel)
  <2>1. PICK s \in 2..3 :
           /\ unloadStage(s) /\ m_currentStageLevel' = s - 1
           /\ s - 1 <= m_currentStageLevel
           /\ Data = 1 => s = 2
    <3>1. CASE Data = 1
      BY <1>3, <1>5, <3>1 DEF Lower, m_lowestStageLevel, StageInv, StagesContiguous,
         TypeOK
    <3>2. CASE Data # 1
      BY <1>3, <1>5, <3>2 DEF Lower, m_lowestStageLevel, StageInv, StagesContiguous,
         TypeOK
    <3> QED
      BY <3>1, <3>2
  <2>2. /\ loaded' = loaded \ {m \in loaded : Stage[m] >= s}
        /\ subscribed' = subscribed \ {m \in loaded : Stage[m] >= s}
        /\ analyzer' = IF "Analyzer" \in loaded \ loaded' THEN NewAnalyzer
                       ELSE analyzer
    BY <2>1 DEF unloadStage
  <2>3. loaded' = {m \in DOMAIN Stage : Stage[m] <= m_currentStageLevel'}
    BY <2>1, <2>2, StageValues DEF StageInv, StagesContiguous, TypeOK
  <2>4. loaded' \subseteq DOMAIN Stage /\ subscribed' \subseteq DOMAIN Stage
    BY <2>2, <2>3 DEF StageInv, StagesContiguous, TypeOK
  <2>5. m_currentStageLevel' \in 1..3
    BY <2>1
  <2>6. m_currentStageLevel' > 1 => m_lastSuspicious' # None
    BY <2>1 DEF StageInv, StagesContiguous, TypeOK, watch
  <2>7. StageInv'
    BY <1>1, <2>3, <2>4, <2>5, <2>6
       DEF StageInv, StagesContiguous, TypeOK, settings, watch, collected
  <2>8. /\ m_currentStageLevel' <= m_currentStageLevel
        /\ Data = 1 => m_currentStageLevel' = 1
        /\ loaded' \subseteq loaded
    BY <2>1, <2>2
  <2> QED
    BY <1>2, <2>2, <2>7, <2>8
<1> QED
  BY <1>4, <1>5

\* The module manager.
LEMMA HandleAlertBase ==
    ASSUME QueueInv, StageInv, HandleAlert
    PROVE  QueueInv' /\ StageInv'
BY RaiseBase, LowerBase DEF HandleAlert

\* The queue after a delivery: the other messages, new ones, and perhaps an alert
\* of the analyzer.
Grown(new) ==
    /\ Range(m_queue) = {Head(m_queue)} \cup Range(Tail(m_queue))
    /\ Range(Tail(m_queue)) \cup new \subseteq Range(m_queue')
    /\ \A m \in Range(m_queue') :
          \/ m \in Range(Tail(m_queue)) \cup new
          \/ m.type = "ALERT" /\ m.data = 2

\* The analyzer after a delivery that left it in state a.
Analysed(a) ==
    \/ analyzer' = a
    \/ /\ "Analyzer" \in loaded
       /\ \E verdict \in Verdicts(a) : analyzer' = [a EXCEPT !.verdict = verdict]

\* What AnalyzerReceives sends: the messages of the handler and at most an alert
\* of the second stage.
LEMMA AnalyzerSends ==
    ASSUME NEW a, NEW messages, IsSeq(messages), AnalyzerReceives(a, messages)
    PROVE  \E all :
              /\ IsSeq(all) /\ Send(all) /\ Analysed(a)
              /\ Range(messages) \subseteq Range(all)
              /\ \A m \in Range(all) :
                    m \in Range(messages) \/ (m.type = "ALERT" /\ m.data = 2)
<1>1. CASE "Analyzer" \in loaded /\ Complete(a)
  <2>1. PICK verdict \in Verdicts(a) :
           /\ analyzer' = [a EXCEPT !.verdict = verdict]
           /\ Send(Append(messages, Alert(verdict, Stage["Analyzer"])))
    BY <1>1 DEF AnalyzerReceives
  <2> DEFINE alert == Alert(verdict, Stage["Analyzer"])
             all == Append(messages, alert)
  <2>2. alert.type = "ALERT" /\ alert.data = 2
    BY StageValues DEF Alert, Message
  <2> HIDE DEF alert
  <2>3. IsSeq(all) /\ Range(all) = Range(messages) \cup {alert}
    BY Appended
  <2>4. Send(all) /\ Analysed(a)
    BY <1>1, <2>1 DEF alert, Analysed
  <2> WITNESS all
  <2> QED
    BY <2>2, <2>3, <2>4
<1>2. CASE ~("Analyzer" \in loaded /\ Complete(a))
  <2>1. Send(messages) /\ Analysed(a)
    BY <1>2 DEF AnalyzerReceives, Analysed
  <2> QED
    BY <2>1
<1> QED
  BY <1>1, <1>2

\* A step of the analyzer and the collectors.
LEMMA AnalyzerBase ==
    ASSUME QueueInv, StageInv, NEW type, Delivered(type),
           NEW a, NEW messages, IsSeq(messages), AnalyzerReceives(a, messages),
           \A m \in Range(messages) : Sound(m) /\ Quiet(m),
           UNCHANGED <<settings, stages, watch, collected>>
    PROVE  QueueInv' /\ StageInv' /\ Grown(Range(messages)) /\ Analysed(a)
<1>1. m_queue # <<>> /\ deadCall' = deadCall
  BY DeliveredFirst
<1>2. PICK all :
         /\ IsSeq(all) /\ Send(all) /\ Analysed(a)
         /\ Range(messages) \subseteq Range(all)
         /\ \A m \in Range(all) :
               m \in Range(messages) \/ (m.type = "ALERT" /\ m.data = 2)
  BY AnalyzerSends
<1>3. \A m \in Range(all) : Sound(m) /\ Quiet(m)
  BY <1>2 DEF Sound, Quiet
<1>4. /\ QueueInv'
      /\ Range(m_queue') = Range(Tail(m_queue)) \cup Range(all)
      /\ Range(m_queue) = {Head(m_queue)} \cup Range(Tail(m_queue))
  BY <1>1, <1>2, <1>3, SendKeepsQueue DEF collected
<1>5. StageInv'
  BY <1>1, StageKept
<1>6. Grown(Range(messages))
  BY <1>2, <1>4 DEF Grown
<1> QED
  BY <1>2, <1>4, <1>5, <1>6

\* The handler sends one message, or none.
LEMMA OneSent ==
    ASSUME QueueInv, StageInv, NEW type, Delivered(type),
           NEW a, NEW m, AnalyzerReceives(a, <<m>>), Sound(m), Quiet(m),
           UNCHANGED <<settings, stages, watch, collected>>
    PROVE  QueueInv' /\ StageInv' /\ Grown({m}) /\ Analysed(a)
<1>1. /\ IsSeq(<<m>>) /\ Range(<<m>>) = {m}
      /\ \A x \in Range(<<m>>) : Sound(x) /\ Quiet(x)
  BY ShortLists
<1>2. QueueInv' /\ StageInv' /\ Grown(Range(<<m>>)) /\ Analysed(a)
  BY <1>1, AnalyzerBase
<1> QED
  BY <1>1, <1>2

\* The same for a handler that sends nothing.
LEMMA NoneSent ==
    ASSUME QueueInv, StageInv, NEW type, Delivered(type),
           NEW a, AnalyzerReceives(a, <<>>),
           UNCHANGED <<settings, stages, watch, collected>>
    PROVE  QueueInv' /\ StageInv' /\ Grown({}) /\ Analysed(a)
<1>1. /\ IsSeq(<<>>) /\ Range(<<>>) = {}
      /\ \A x \in Range(<<>>) : Sound(x) /\ Quiet(x)
  BY ShortLists
<1>2. QueueInv' /\ StageInv' /\ Grown(Range(<<>>)) /\ Analysed(a)
  BY <1>1, AnalyzerBase
<1> QED
  BY Zenon, <1>1, <1>2

\* What the handlers of the second stage and the collectors do: the state of the
\* analyzer and the messages that they pass to AnalyzerReceives.
DistributionReply == Informed([analyzer EXCEPT !.haveTrees = TRUE, !.trees = Data])
SuspiciousReply == Informed([analyzer EXCEPT !.aggregate = Data])
ValuesReply == Informed([analyzer EXCEPT !.haveValues = TRUE, !.values = Data])

\* One of the messages that the analyzer waits for.
LEMMA AnalyzerMessages ==
    ASSUME QueueInv, m_queue # <<>>, m_lastSuspicious # None
    PROVE  /\ \A d : LET m == Request("INTERVAL_VALUES", d)
                     IN  d = m_lastSuspicious => Sound(m) /\ Quiet(m)
           /\ \A d : LET m == Reply("INTERVAL_VALUES", d) IN Sound(m) /\ Quiet(m)
           /\ LET m == Reply("SUSPICIOUS", m_lastSuspicious) IN Sound(m) /\ Quiet(m)
BY DEF Request, Reply, Message, Sound, Quiet

\* Addresses answers with its trees.
LEMMA HandleDistributionBase ==
    ASSUME QueueInv, StageInv, HandleDistribution
    PROVE  /\ QueueInv' /\ StageInv'
           /\ \/ /\ Kind = "request" /\ Analysed(analyzer)
                 /\ Grown({Reply("DISTRIBUTION", m_addressDistributions)})
              \/ Kind = "reply" /\ Analysed(DistributionReply) /\ Grown({})
<1>1. Delivered("DISTRIBUTION") /\ UNCHANGED <<settings, stages, watch, collected>>
  BY DEF HandleDistribution
<1>2. CASE /\ Kind = "request"
           /\ AnalyzerReceives(analyzer,
                               <<Reply("DISTRIBUTION", m_addressDistributions)>>)
  <2> DEFINE m == Reply("DISTRIBUTION", m_addressDistributions)
  <2>1. Sound(m) /\ Quiet(m)
    BY DEF Reply, Message, Sound, Quiet
  <2>2. AnalyzerReceives(analyzer, <<m>>)
    BY <1>2
  <2> HIDE DEF m
  <2>3. QueueInv' /\ StageInv' /\ Grown({m}) /\ Analysed(analyzer)
    BY <1>1, <2>1, <2>2, OneSent
  <2> QED
    BY <1>2, <2>3 DEF m
<1>3. CASE Kind = "reply" /\ AnalyzerReceives(DistributionReply, <<>>)
  BY <1>1, <1>3, NoneSent
<1> QED
  BY <1>2, <1>3 DEF HandleDistribution, DistributionReply

\* Watch answers with the suspicious aggregate, the analyzer asks for its values.
LEMMA HandleSuspiciousBase ==
    ASSUME QueueInv, StageInv, HandleSuspicious
    PROVE  /\ QueueInv' /\ StageInv'
           /\ \/ /\ Kind = "request" /\ Analysed(analyzer)
                 /\ Grown({Reply("SUSPICIOUS", m_lastSuspicious)})
              \/ /\ Kind = "reply" /\ Analysed(SuspiciousReply)
                 /\ Data = m_lastSuspicious
                 /\ Grown({Request("INTERVAL_VALUES", Data)}) \/ Grown({})
<1>1. Delivered("SUSPICIOUS") /\ UNCHANGED <<settings, stages, watch, collected>>
  BY DEF HandleSuspicious
<1>2. m_queue # <<>> /\ Head(m_queue).type = "SUSPICIOUS" /\ Sound(Head(m_queue))
  BY <1>1, DeliveredFirst, HeadSound
<1>3. m_lastSuspicious # None /\ (Kind = "reply" => Data = m_lastSuspicious)
  BY <1>2 DEF Sound, Kind, Data
<1>4. CASE /\ Kind = "request"
           /\ AnalyzerReceives(analyzer, <<Reply("SUSPICIOUS", m_lastSuspicious)>>)
  <2> DEFINE m == Reply("SUSPICIOUS", m_lastSuspicious)
  <2>1. Sound(m) /\ Quiet(m)
    BY <1>2, <1>3, AnalyzerMessages
  <2>2. AnalyzerReceives(analyzer, <<m>>)
    BY <1>4
  <2> HIDE DEF m
  <2>3. QueueInv' /\ StageInv' /\ Grown({m}) /\ Analysed(analyzer)
    BY <1>1, <2>1, <2>2, OneSent
  <2> QED
    BY <1>4, <2>3 DEF m
<1>5. CASE /\ Kind = "reply"
           /\ AnalyzerReceives(SuspiciousReply,
                               IF "Analyzer" \in loaded
                               THEN <<Request("INTERVAL_VALUES", Data)>> ELSE <<>>)
  <2> DEFINE m == Request("INTERVAL_VALUES", Data)
  <2>1. Sound(m) /\ Quiet(m)
    BY <1>2, <1>3, <1>5, AnalyzerMessages
  <2>2. AnalyzerReceives(SuspiciousReply, <<m>>)
        \/ AnalyzerReceives(SuspiciousReply, <<>>)
    BY <1>5
  <2> HIDE DEF m
  <2>3. /\ QueueInv' /\ StageInv' /\ Analysed(SuspiciousReply)
        /\ Grown({m}) \/ Grown({})
    BY <1>1, <2>1, <2>2, OneSent, NoneSent
  <2> QED
    BY <1>3, <1>5, <2>3 DEF m
<1> QED
  BY <1>4, <1>5 DEF HandleSuspicious, SuspiciousReply

\* Thresholds answers with the values of the suspicious aggregate.
LEMMA HandleIntervalValuesBase ==
    ASSUME QueueInv, StageInv, HandleIntervalValues
    PROVE  /\ QueueInv' /\ StageInv'
           /\ \/ /\ Kind = "request" /\ Analysed(analyzer)
                 /\ Data = m_lastSuspicious /\ m_lastSuspicious # None
                 /\ Grown({Reply("INTERVAL_VALUES", ValuesOf(Data))})
              \/ Kind = "reply" /\ Analysed(ValuesReply) /\ Grown({})
<1>1. Delivered("INTERVAL_VALUES") /\ UNCHANGED <<settings, stages, watch, collected>>
  BY DEF HandleIntervalValues
<1>2. /\ m_queue # <<>> /\ m_lastSuspicious # None
      /\ Kind = "request" => Data = m_lastSuspicious
  BY <1>1, DeliveredFirst, HeadSound DEF Sound, Kind, Data
<1>3. CASE /\ Kind = "request"
           /\ AnalyzerReceives(analyzer, <<Reply("INTERVAL_VALUES", ValuesOf(Data))>>)
  <2> DEFINE m == Reply("INTERVAL_VALUES", ValuesOf(Data))
  <2>1. Sound(m) /\ Quiet(m)
    BY <1>2, AnalyzerMessages
  <2>2. AnalyzerReceives(analyzer, <<m>>)
    BY <1>3
  <2> HIDE DEF m
  <2>3. QueueInv' /\ StageInv' /\ Grown({m}) /\ Analysed(analyzer)
    BY <1>1, <2>1, <2>2, OneSent
  <2> QED
    BY <1>2, <1>3, <2>3 DEF m
<1>4. CASE Kind = "reply" /\ AnalyzerReceives(ValuesReply, <<>>)
  BY <1>1, <1>4, NoneSent
<1> QED
  BY <1>3, <1>4 DEF HandleIntervalValues, ValuesReply

\* Anomaly asks for the anomalies.
LEMMA HandleAnomalyTypeBase ==
    ASSUME QueueInv, StageInv, HandleAnomalyType
    PROVE  /\ QueueInv' /\ StageInv' /\ Analysed(analyzer)
           /\ Grown({Reply("ANOMALY_TYPE", None)}) \/ Grown({})
<1> DEFINE m == Reply("ANOMALY_TYPE", None)
<1>1. /\ Delivered("ANOMALY_TYPE") /\ UNCHANGED <<settings, stages, watch, collected>>
      /\ AnalyzerReceives(analyzer, <<m>>) \/ AnalyzerReceives(analyzer, <<>>)
  BY DEF HandleAnomalyType
<1>2. Sound(m) /\ Quiet(m)
  BY DEF Reply, Message, Sound, Quiet
<1> HIDE DEF m
<1>3. /\ QueueInv' /\ StageInv' /\ Analysed(analyzer)
      /\ Grown({m}) \/ Grown({})
  BY <1>1, <1>2, OneSent, NoneSent
<1> QED
  BY <1>3 DEF m

\* Nothing but deadCall changes.
Still ==
    /\ UNCHANGED <<query, failing, m_currentStageLevel, loaded, subscribed>>
    /\ UNCHANGED <<m_queue, traffic, items, m_lastSuspicious, m_intervals>>
    /\ UNCHANGED <<m_addressDistributions, analyzer>>
    /\ deadCall' \in BOOLEAN

\* The end of the program, and a stuttering step.
LEMMA IsStill ==
    ASSUME StageInv, CallDeleted \/ UNCHANGED vars
    PROVE  Still
BY Zenon DEF StageInv, StagesContiguous, TypeOK, CallDeleted, Still, vars, settings,
   stages, watch, collected

\* Every step keeps the queue sound and the stages contiguous.
LEMMA NextBase == QueueInv /\ StageInv /\ [Next]_vars => QueueInv' /\ StageInv'
<1> SUFFICES ASSUME QueueInv, StageInv, [Next]_vars PROVE QueueInv' /\ StageInv'
  OBVIOUS
<1>1. CASE Next /\ ~CallDeleted
  BY <1>1, TimerEventBase, AnomalyEventBase, HandleTimerBase, HandleWatchValuesBase,
     HandleAlertBase, HandleDistributionBase, HandleSuspiciousBase,
     HandleIntervalValuesBase, HandleAnomalyTypeBase DEF Next, flush
<1>2. CASE Still
  <2>1. \A m : Sound(m)' <=> Sound(m)
    BY <1>2 DEF Still, Sound
  <2>2. QueueInv'
    BY <1>2, <2>1 DEF Still, QueueInv, Quiet
  <2>3. StageInv'
    BY <1>2 DEF Still, StageInv, StagesContiguous, TypeOK
  <2> QED
    BY <2>2, <2>3
<1> QED
  BY <1>1, <1>2, IsStill

\* The queue and the stages are as the invariant says.
THEOREM BaseInvariance == Spec => [](QueueInv /\ StageInv)
BY InitBase, NextBase, PTL DEF Spec

\* The stages up to the current level are loaded, and no other, in whatever order
\* the alerts of the stages arrive.
THEOREM StagesSafety == Spec => []StagesContiguous
<1>1. StageInv => StagesContiguous
  BY DEF StageInv
<1> QED
  BY <1>1, BaseInvariance, PTL

-----------------------------------------------------------------------------
(* The alarm.                                                              *)

\* A delivery of another message than an alert keeps the alerts on their way.
LEMMA AlarmKept ==
    ASSUME AlarmInv, Head(m_queue).type # "ALERT",
           Range(m_queue) = {Head(m_queue)} \cup Range(Tail(m_queue)),
           Range(Tail(m_queue)) \subseteq Range(m_queue'),
           UNCHANGED <<m_currentStageLevel, items>>
    PROVE  AlarmInv'
BY DEF AlarmInv

\* The same for the handlers of the second stage and the collectors.
LEMMA GrownAlarm ==
    ASSUME AlarmInv, NEW new, Grown(new), Head(m_queue).type # "ALERT",
           UNCHANGED <<stages, watch>>
    PROVE  AlarmInv'
<1>1. /\ Range(m_queue) = {Head(m_queue)} \cup Range(Tail(m_queue))
      /\ Range(Tail(m_queue)) \subseteq Range(m_queue')
  BY DEF Grown
<1>2. UNCHANGED <<m_currentStageLevel, items>>
  BY DEF stages, watch
<1> QED
  BY <1>1, <1>2, AlarmKept

\* Packets and the timer leave saveMode alone.
LEMMA TimerEventAlarm ==
    ASSUME StageInv, AlarmInv, TimerEvent
    PROVE  AlarmInv'
<1>1. \A a \in Aggregates : items'[a].saveMode = items[a].saveMode
  BY DEF TimerEvent, StageInv, StagesContiguous, TypeOK
<1>2. m_currentStageLevel > 1 => \E a \in Aggregates : items[a].saveMode
  BY ShortLists DEF AlarmInv, TimerEvent
<1>3. m_currentStageLevel' = m_currentStageLevel
  BY DEF TimerEvent, stages
<1>4. m_currentStageLevel' > 1 => \E a \in Aggregates : items'[a].saveMode
  BY <1>1, <1>2, <1>3
<1> QED
  BY <1>4 DEF AlarmInv

\* The interval that ends: when the last alarm goes off, Watch says so.
LEMMA HandleTimerAlarm ==
    ASSUME QueueInv, StageInv, AlarmInv, HandleTimer
    PROVE  AlarmInv'
<1>1. /\ m_queue # <<>> /\ Head(m_queue).type = "TIMER" /\ Tail(m_queue) = <<>>
      /\ UNCHANGED m_currentStageLevel
  BY DEF HandleTimer, Delivered, QueueInv, stages
<1>2. \A m \in Range(m_queue) : m.type = "TIMER"
  <2>1. Range(m_queue) = {Head(m_queue)} \cup Range(Tail(m_queue))
    BY <1>1, HeadAndTail DEF QueueInv
  <2>2. Range(Tail(m_queue)) = {}
    BY <1>1, ShortLists, Zenon
  <2> QED
    BY <1>1, <2>1, <2>2
<1>3. m_currentStageLevel > 1 => \E a \in Aggregates : items[a].saveMode
  BY <1>2 DEF AlarmInv
<1>4. (\E a \in Aggregates : ~items'[a].saveMode /\ items[a].saveMode) =>
         \E m \in Range(m_queue') : m.type = "ALERT" /\ m.kind = "LOWER" /\ m.data = 1
  BY HandleTimerBase
<1>5. (m_currentStageLevel > 1)' => m_currentStageLevel > 1
  BY <1>1
<1> QED
  BY <1>3, <1>4, <1>5, Zenon DEF AlarmInv

\* The alerts: only an alert of Watch, for which the alarm is on, loads the second
\* stage; the alert that says that the alarm is off unloads it.
LEMMA HandleAlertAlarm ==
    ASSUME QueueInv, StageInv, AlarmInv, HandleAlert
    PROVE  AlarmInv'
<1>1. /\ m_queue # <<>> /\ Head(m_queue).type = "ALERT" /\ Sound(Head(m_queue))
      /\ UNCHANGED <<settings, watch, collected>> /\ UNCHANGED items
  BY HeadSound DEF HandleAlert, Delivered, watch
<1>2. m_currentStageLevel \in 1..3
  BY DEF StageInv, StagesContiguous, TypeOK
<1>3. CASE Raise
  <2>1. Kind = "RAISE" /\ Head(m_queue).kind = "RAISE"
    BY <1>3 DEF Raise, Kind
  <2>2. /\ Range(m_queue) = {Head(m_queue)} \cup Range(Tail(m_queue))
        /\ \/ UNCHANGED stages /\ Range(m_queue') = Range(Tail(m_queue))
           \/ Loaded(Request("DISTRIBUTION", None))
    BY <1>1, <1>3, RaiseBase DEF HandleAlert
  <2>3. CASE UNCHANGED stages /\ Range(m_queue') = Range(Tail(m_queue))
    BY <1>1, <2>1, <2>2, <2>3 DEF AlarmInv, stages
  <2>4. CASE Loaded(Request("DISTRIBUTION", None))
    <3>1. /\ Data = m_currentStageLevel /\ m_currentStageLevel \in {1, 2}
          /\ Range(Tail(m_queue)) \subseteq Range(m_queue')
      BY <2>4 DEF Loaded
    <3>2. CASE m_currentStageLevel = 1
      <4>1. \E a \in Aggregates : items[a].saveMode
        BY <1>1, <2>1, <3>1, <3>2 DEF Sound, Data
      <4> QED
        BY <1>1, <4>1 DEF AlarmInv
    <3>3. CASE m_currentStageLevel = 2
      BY <1>1, <2>1, <2>2, <3>1, <3>3 DEF AlarmInv
    <3> QED
      BY <3>1, <3>2, <3>3
  <2> QED
    BY <2>2, <2>3, <2>4
<1>4. CASE Lower
  <2>1. /\ Range(m_queue) = {Head(m_queue)} \cup Range(Tail(m_queue))
        /\ Range(m_queue') = Range(Tail(m_queue))
        /\ m_currentStageLevel' <= m_currentStageLevel
        /\ Data = 1 => m_currentStageLevel' = 1
        /\ StageInv'
    BY <1>1, <1>4, LowerBase DEF HandleAlert
  <2>2. m_currentStageLevel' \in 1..3
    BY <2>1 DEF StageInv, StagesContiguous, TypeOK
  <2> QED
    BY <1>1, <1>2, <2>1, <2>2 DEF AlarmInv, Data
<1> QED
  BY <1>3, <1>4 DEF HandleAlert

\* Every step keeps the invariant of the alarm.
LEMMA NextAlarm ==
    ASSUME QueueInv, StageInv, AlarmInv, [Next]_vars
    PROVE  AlarmInv'
<1>1. CASE TimerEvent
  BY <1>1, TimerEventAlarm
<1>2. CASE AnomalyEvent
  BY <1>2, ShortLists DEF AnomalyEvent, AlarmInv, stages, watch
<1>3. CASE HandleTimer
  BY <1>3, HandleTimerAlarm
<1>4. CASE HandleWatchValues
  <2>1. Head(m_queue).type # "ALERT" /\ UNCHANGED <<m_currentStageLevel, items>>
    BY <1>4 DEF HandleWatchValues, Delivered, stages, watch
  <2> QED
    BY <1>4, <2>1, HandleWatchValuesBase, AlarmKept
<1>5. CASE HandleAlert
  BY <1>5, HandleAlertAlarm
<1>6. CASE HandleDistribution
  BY <1>6, HandleDistributionBase, GrownAlarm DEF HandleDistribution, Delivered
<1>7. CASE HandleSuspicious
  BY <1>7, HandleSuspiciousBase, GrownAlarm DEF HandleSuspicious, Delivered
<1>8. CASE HandleIntervalValues
  BY <1>8, HandleIntervalValuesBase, GrownAlarm DEF HandleIntervalValues, Delivered
<1>9. CASE HandleAnomalyType
  BY <1>9, HandleAnomalyTypeBase, GrownAlarm DEF HandleAnomalyType, Delivered
<1>10. CASE Still
  BY <1>10 DEF Still, AlarmInv
<1> QED
  BY <1>1, <1>2, <1>3, <1>4, <1>5, <1>6, <1>7, <1>8, <1>9, <1>10, IsStill
     DEF Next, flush

\* A stage above the lowest is loaded only while the alarm of some aggregate is
\* on: no order of raising and lowering leaves it behind.
THEOREM AlarmSafety == Spec => []RaisedForAnAlarm
<1>1. Init => AlarmInv
  BY DEF Init, AlarmInv, m_lowestStageLevel
<1>2. AlarmInv => RaisedForAnAlarm
  BY ShortLists DEF AlarmInv, RaisedForAnAlarm, m_lowestStageLevel
<1> QED
  BY <1>1, <1>2, NextAlarm, BaseInvariance, PTL DEF Spec

-----------------------------------------------------------------------------
(* The histories.                                                          *)

\* The histories are not longer than it takes from the first packet of an
\* aggregate to its alarm.
HistorySuffices == HistoryLength <= LearningIntervals + ExceedThreshold + 1

\* m_intervals with the values on their way is a bounded history, too.
LEMMA IntervalsType ==
    ASSUME StageInv
    PROVE  /\ Intervals \in Seq([Aggregates -> Values])
           /\ Len(Intervals) \in Nat /\ Len(Intervals) <= HistoryLength
<1>1. /\ m_intervals \in Seq([Aggregates -> Values])
      /\ Len(m_intervals) <= HistoryLength
      /\ traffic \in [Aggregates -> Values]
  BY DEF StageInv, StagesContiguous, TypeOK, Values
<1>2. /\ Push(m_intervals, traffic) \in Seq([Aggregates -> Values])
      /\ Len(Push(m_intervals, traffic)) <= HistoryLength
  BY <1>1, PushResult
<1>3. /\ Intervals \in Seq([Aggregates -> Values])
      /\ Len(Intervals) <= HistoryLength
  BY <1>1, <1>2 DEF Intervals
<1> QED
  BY <1>3, LenProperties

\* If an aggregate has values in the last c intervals of a history, it has them
\* in the last c + 1 after another interval with a value.
LEMMA PushedKnown ==
    ASSUME NEW h \in Seq([Aggregates -> Values]), Len(h) <= HistoryLength,
           NEW e \in [Aggregates -> Values], NEW a \in Aggregates,
           NEW c \in Nat, NEW d \in Nat, d <= c + 1, d > 0 => e[a] # "none",
           \A i \in 1..Len(h) : i > Len(h) - c => h[i][a] # "none"
    PROVE  \A i \in 1..Len(Push(h, e)) :
              i > Len(Push(h, e)) - d => Push(h, e)[i][a] # "none"
<1> DEFINE p == Push(h, e)
<1>1. Len(h) \in Nat /\ HistoryLength \in Nat \ {0}
  BY LenProperties, DetectionAssumption
<1>2. /\ Len(p) = IF Len(h) >= HistoryLength THEN HistoryLength ELSE Len(h) + 1
      /\ p[Len(p)] = e
      /\ \A i \in 1..(Len(p) - 1) :
            p[i] = IF Len(h) >= HistoryLength THEN h[i + 1] ELSE h[i]
  BY PushResult
<1> HIDE DEF p
<1> SUFFICES ASSUME NEW i \in 1..Len(p), i > Len(p) - d
             PROVE  p[i][a] # "none"
  BY DEF p
<1>3. CASE i = Len(p)
  BY <1>1, <1>2, <1>3
<1>4. CASE i # Len(p) /\ Len(h) >= HistoryLength
  <2>1. /\ Len(h) = HistoryLength /\ Len(p) = Len(h) /\ i \in 1..(Len(p) - 1)
        /\ i + 1 \in 1..Len(h) /\ i + 1 > Len(h) - c
    BY <1>1, <1>2, <1>4
  <2>2. p[i] = h[i + 1]
    BY <1>2, <1>4, <2>1
  <2> QED
    BY <2>1, <2>2
<1>5. CASE i # Len(p) /\ ~(Len(h) >= HistoryLength)
  <2>1. /\ Len(p) = Len(h) + 1 /\ i \in 1..(Len(p) - 1)
        /\ i \in 1..Len(h) /\ i > Len(h) - c
    BY <1>1, <1>2, <1>5
  <2>2. p[i] = h[i]
    BY <1>2, <1>5, <2>1
  <2> QED
    BY <2>1, <2>2
<1> QED
  BY <1>3, <1>4, <1>5

\* The watch and the trees are left alone, and so are the intervals.
LEMMA HistoryKept ==
    ASSUME HistoryInv, UNCHANGED <<watch, m_addressDistributions>>,
           Intervals' = Intervals,
           m_queue' # <<>> => Head(m_queue').type # "TIMER"
    PROVE  HistoryInv'
BY DEF HistoryInv, ItemInv, Counted, watch

\* The first message after a delivery is quiet, if all are.
LEMMA HeadQuiet ==
    ASSUME QueueInv', \A m \in Range(m_queue') : Quiet(m)
    PROVE  m_queue' # <<>> => Head(m_queue').type \notin {"TIMER", "WATCH_VALUES"}
<1> SUFFICES ASSUME m_queue' # <<>> PROVE Head(m_queue') \in Range(m_queue')
  BY DEF Quiet
<1>1. IsSeq(m_queue')
  BY DEF QueueInv
<1>2. Range(m_queue') = {Head(m_queue')} \cup Range(Tail(m_queue'))
  BY <1>1, HeadAndTail
<1> QED
  BY <1>2

\* A step on a queue that has no values of Watch, to one that has none either.
LEMMA HistoryQuiet ==
    ASSUME HistoryInv, QueueInv', \A m \in Range(m_queue') : Quiet(m),
           m_queue # <<>> => Head(m_queue).type # "WATCH_VALUES",
           UNCHANGED <<watch, collected>>
    PROVE  HistoryInv'
<1>1. m_queue' # <<>> => Head(m_queue').type \notin {"TIMER", "WATCH_VALUES"}
  BY HeadQuiet
<1>2. UNCHANGED <<m_intervals, m_addressDistributions>>
  BY DEF collected
<1>3. Intervals' = Intervals
  BY <1>1, <1>2 DEF Intervals
<1> QED
  BY <1>1, <1>2, <1>3, HistoryKept

\* The same for the handlers of the second stage and the collectors.
LEMMA GrownHistory ==
    ASSUME QueueInv, HistoryInv, QueueInv', NEW new, Grown(new), m_queue # <<>>,
           \A m \in new : Quiet(m), Head(m_queue).type # "WATCH_VALUES",
           UNCHANGED <<watch, collected>>
    PROVE  HistoryInv'
<1>1. \A m \in Range(m_queue') : Quiet(m)
  BY DEF Grown, Quiet, QueueInv
<1> QED
  BY <1>1, HistoryQuiet

\* At the start nothing has been counted.
LEMMA InitHistory == Init => HistoryInv
<1> SUFFICES ASSUME Init PROVE HistoryInv
  OBVIOUS
<1>1. Intervals = <<>>
  BY DEF Init, Intervals
<1>2. \A a \in Aggregates :
         items[a].intervalNo = 0 /\ items[a].exceedCounter = 0 /\ ~items[a].saveMode
  <2> SUFFICES ASSUME NEW a \in Aggregates
               PROVE  /\ items[a].intervalNo = 0 /\ items[a].exceedCounter = 0
                      /\ ~items[a].saveMode
    OBVIOUS
  <2>1. items[a] = NewItem(a \in FrameSizes)
    BY Zenon DEF Init
  <2> QED
    BY <2>1 DEF NewItem
<1> QED
  BY <1>1, <1>2 DEF Init, HistoryInv, ItemInv

\* Packets make items and never take one away.
LEMMA TimerEventHistory ==
    ASSUME StageInv, HistoryInv, TimerEvent
    PROVE  HistoryInv'
<1>1. /\ m_queue = <<>> /\ m_queue' # <<>> /\ Head(m_queue').type = "TIMER"
  BY DEF TimerEvent, Message
<1>2. /\ Intervals' = Intervals
      /\ UNCHANGED <<m_addressDistributions, m_lastSuspicious>>
  BY <1>1 DEF Intervals, TimerEvent, collected
<1>3. ASSUME NEW a \in Aggregates
      PROVE  /\ items'[a].exists <=> traffic'[a] # "none"
             /\ items[a].exists => items'[a].exists
             /\ items'[a].intervalNo = items[a].intervalNo
             /\ items'[a].exceedCounter = items[a].exceedCounter
             /\ items'[a].saveMode = items[a].saveMode
  <2>1. items'[a] = [items[a] EXCEPT !.exists = traffic'[a] # "none"]
    BY DEF TimerEvent
  <2>2. items[a] \in Item
    BY DEF StageInv, StagesContiguous, TypeOK, Item
  <2>3. items[a].exists => traffic'[a] # "none"
    BY DEF TimerEvent
  <2> QED
    BY Zenon, <2>1, <2>2, <2>3 DEF Item
<1>4. \A a \in Aggregates : ItemInv(items[a])' /\ Counted(items[a])' = Counted(items[a])
  BY Zenon, <1>3 DEF HistoryInv, ItemInv, Counted
<1>5. m_lastSuspicious # None => m_lastSuspicious \in Aggregates
  BY DEF StageInv, StagesContiguous, TypeOK
<1> QED
  BY <1>2, <1>3, <1>4, <1>5 DEF HistoryInv

\* The interval that ends: the item that raises the alarm has counted more
\* intervals than the histories have.
LEMMA HandleTimerHistory ==
    ASSUME HistorySuffices, QueueInv, StageInv, HistoryInv, HandleTimer
    PROVE  HistoryInv'
<1> DEFINE h == m_intervals
           p == Push(m_intervals, traffic)
<1>0. LearningIntervals \in Nat /\ ExceedThreshold \in Nat
  BY DetectionAssumption
<1>1. /\ m_queue # <<>> /\ Head(m_queue).type = "TIMER"
      /\ items' = [a \in Aggregates |-> exceeded(items[a], traffic[a] = "abnormal")]
      /\ \/ UNCHANGED m_lastSuspicious
         \/ /\ m_lastSuspicious' \in Aggregates
            /\ items'[m_lastSuspicious'].saveMode /\ ~items[m_lastSuspicious'].saveMode
      /\ UNCHANGED <<traffic, m_intervals>>
  BY Zenon DEF HandleTimer, Delivered
<1>2. /\ h \in Seq([Aggregates -> Values]) /\ Len(h) <= HistoryLength /\ Len(h) \in Nat
      /\ traffic \in [Aggregates -> Values]
  BY LenProperties DEF StageInv, StagesContiguous, TypeOK, Values
<1>3. m_queue' # <<>> /\ Head(m_queue').type = "WATCH_VALUES"
  BY Zenon, HandleTimerBase
<1>4. Intervals = h /\ Intervals' = p
  BY <1>1, <1>3 DEF Intervals
<1>5. /\ Len(p) = IF Len(h) >= HistoryLength THEN HistoryLength ELSE Len(h) + 1
      /\ Len(p) \in Nat /\ Len(p) <= HistoryLength
  BY <1>2, PushResult, DetectionAssumption
<1>6. Len(m_addressDistributions') = Len(p)
  <2>1. /\ Len(m_addressDistributions) = Len(h)
        /\ Len(m_addressDistributions) <= HistoryLength
        /\ m_addressDistributions \in Seq(Tree)
    BY <1>4 DEF HistoryInv, StageInv, StagesContiguous, TypeOK
  <2>2. Len(m_addressDistributions')
           = IF Len(m_addressDistributions) >= HistoryLength
             THEN HistoryLength ELSE Len(m_addressDistributions) + 1
    BY Zenon, <2>1, TreesPushed DEF HandleTimer
  <2> QED
    BY <1>5, <2>1, <2>2
<1>7. ASSUME NEW a \in Aggregates
      PROVE  /\ ItemInv(items'[a]) /\ items'[a].exists = items[a].exists
             /\ items[a].exists <=> traffic[a] # "none"
             /\ Counted(items[a]) \in Nat /\ Counted(items'[a]) \in Nat
             /\ Counted(items'[a]) <= Counted(items[a]) + 1
             /\ Counted(items'[a]) > 0 => items[a].exists
             /\ items'[a].saveMode /\ ~items[a].saveMode =>
                   /\ Counted(items'[a]) = LearningIntervals + ExceedThreshold + 1
                   /\ items[a].exists
  <2> DEFINE above == traffic[a] = "abnormal"
             item == items[a]
             new == exceeded(item, above)
  <2>1. item \in Item /\ above \in BOOLEAN /\ items'[a] = new
    BY <1>1 DEF StageInv, StagesContiguous, TypeOK, Item
  <2>2. ItemInv(item) /\ (item.exists <=> traffic[a] # "none")
    BY <1>1 DEF HistoryInv
  <2> HIDE DEF above, item
  <2>3. /\ new \in Item /\ new.exists = item.exists
        /\ ~item.exists => new = item
        /\ ItemInv(new) /\ Counted(new) <= Counted(item) + 1
        /\ new.saveMode /\ ~item.saveMode =>
              Counted(new) = LearningIntervals + ExceedThreshold + 1
    BY <2>1, <2>2, ExceededResult
  <2> HIDE DEF new
  <2>4. Counted(item) \in Nat /\ Counted(new) \in Nat
    BY <1>0, <2>1, <2>3 DEF Counted, Item
  <2>5. ~item.exists => Counted(item) = 0
    <3>1. ~item.exists => item.intervalNo = 0
      BY <2>2 DEF ItemInv
    <3> QED
      BY <1>0, <3>1 DEF Counted
  <2>6. Counted(new) > 0 => item.exists
    BY SMTT(30), <2>3, <2>5
  <2> QED
    BY <2>1, <2>2, <2>3, <2>4, <2>6, Zenon DEF item
<1>8. ASSUME NEW a \in Aggregates
      PROVE  \A i \in 1..Len(p) : i > Len(p) - Counted(items'[a]) => p[i][a] # "none"
  <2> DEFINE c == Counted(items[a])
             d == Counted(items'[a])
  <2>1. c \in Nat /\ d \in Nat /\ d <= c + 1 /\ (d > 0 => traffic[a] # "none")
    BY <1>7
  <2>2. \A i \in 1..Len(h) : i > Len(h) - c => h[i][a] # "none"
    BY Zenon, <1>4 DEF HistoryInv
  <2> HIDE DEF c, d, h
  <2>3. \A i \in 1..Len(Push(h, traffic)) :
           i > Len(Push(h, traffic)) - d => Push(h, traffic)[i][a] # "none"
    BY Zenon, <1>2, <2>1, <2>2, PushedKnown
  <2> QED
    BY Zenon, <2>3 DEF d, h
<1>9. m_lastSuspicious' # None =>
         /\ items'[m_lastSuspicious'].exists
         /\ \A i \in 1..Len(p) : p[i][m_lastSuspicious'] # "none"
  <2>1. CASE UNCHANGED m_lastSuspicious /\ m_lastSuspicious # None
    <3> DEFINE a == m_lastSuspicious
               c == Len(h)
               d == Len(h) + 1
    <3>1. a \in Aggregates
      BY Zenon, <2>1 DEF StageInv, StagesContiguous, TypeOK
    <3>2. items[a].exists /\ \A i \in 1..Len(h) : h[i][a] # "none"
      BY Zenon, <1>4, <2>1 DEF HistoryInv
    <3>3. items'[a].exists /\ traffic[a] # "none"
      BY <1>7, <3>1, <3>2
    <3>4. /\ c \in Nat /\ d \in Nat /\ d <= c + 1
          /\ \A i \in 1..Len(h) : i > Len(h) - c => h[i][a] # "none"
      BY <1>2, <3>2
    <3> HIDE DEF a, c, d, h, p
    <3>5. \A i \in 1..Len(Push(h, traffic)) :
             i > Len(Push(h, traffic)) - d => Push(h, traffic)[i][a] # "none"
      BY Zenon, <1>2, <3>1, <3>3, <3>4, PushedKnown
    <3>6. \A i \in 1..Len(p) : p[i][a] # "none"
      BY <1>2, <1>5, <3>5 DEF d, p, h
    <3> QED
      BY <2>1, <3>3, <3>6 DEF a
  <2>2. CASE /\ m_lastSuspicious' \in Aggregates
             /\ items'[m_lastSuspicious'].saveMode /\ ~items[m_lastSuspicious'].saveMode
    <3> DEFINE a == m_lastSuspicious'
    <3> HIDE DEF p
    <3>1. /\ Counted(items'[a]) = LearningIntervals + ExceedThreshold + 1
          /\ items'[a].exists
      BY <1>7, <2>2
    <3>2. Counted(items'[a]) \in Nat /\ Counted(items'[a]) >= Len(p)
      BY <1>0, <1>5, <3>1, DetectionAssumption DEF HistorySuffices
    <3>3. \A i \in 1..Len(p) : i > Len(p) - Counted(items'[a]) => p[i][a] # "none"
      BY <1>8, <2>2
    <3>4. \A i \in 1..Len(p) : p[i][a] # "none"
      BY <1>5, <3>2, <3>3
    <3> QED
      BY <3>1, <3>4
  <2> QED
    BY Zenon, <1>1, <2>1, <2>2
<1> HIDE DEF h, p
<1> QED
  BY Zenon, <1>3, <1>4, <1>6, <1>7, <1>8, <1>9 DEF HistoryInv

\* The values arrive at Thresholds.
LEMMA HandleWatchValuesHistory ==
    ASSUME QueueInv, StageInv, HistoryInv, HandleWatchValues
    PROVE  HistoryInv'
<1>1. /\ m_queue # <<>> /\ Head(m_queue).type = "WATCH_VALUES"
      /\ m_intervals' = Push(m_intervals, Data)
      /\ UNCHANGED <<watch, m_addressDistributions>>
  BY DEF HandleWatchValues, Delivered
<1>2. QueueInv' /\ Data = traffic /\ \A m \in Range(m_queue') : Quiet(m)
  BY HandleWatchValuesBase
<1>3. m_queue' # <<>> => Head(m_queue').type \notin {"TIMER", "WATCH_VALUES"}
  BY <1>2, HeadQuiet
<1>4. Intervals' = Intervals
  BY <1>1, <1>2, <1>3 DEF Intervals
<1> QED
  BY <1>1, <1>3, <1>4, HistoryKept

\* The alerts leave the histories alone.
LEMMA HandleAlertHistory ==
    ASSUME QueueInv, StageInv, HistoryInv, HandleAlert
    PROVE  HistoryInv'
<1>1. /\ m_queue # <<>> /\ Head(m_queue).type = "ALERT" /\ Delivered("ALERT")
      /\ UNCHANGED <<settings, watch, collected>>
  BY DEF HandleAlert, Delivered
<1>2. QueueInv' /\ \A m \in Range(m_queue') : Quiet(m)
  <2>1. \A m \in Range(Tail(m_queue)) : Quiet(m)
    BY <1>1 DEF QueueInv
  <2>2. CASE Raise
    <3>1. /\ QueueInv'
          /\ \/ Range(m_queue') = Range(Tail(m_queue))
             \/ Loaded(Request("DISTRIBUTION", None))
      BY <1>1, <2>2, RaiseBase
    <3>2. Request("DISTRIBUTION", None).type = "DISTRIBUTION"
      BY DEF Request, Message
    <3> QED
      BY <2>1, <3>1, <3>2 DEF Loaded, Quiet
  <2>3. CASE Lower
    <3>1. QueueInv' /\ Range(m_queue') = Range(Tail(m_queue))
      BY <1>1, <2>3, LowerBase
    <3> QED
      BY <2>1, <3>1
  <2> QED
    BY <2>2, <2>3 DEF HandleAlert
<1> QED
  BY <1>1, <1>2, HistoryQuiet

\* Every step keeps the invariant of the histories.
LEMMA NextHistory ==
    ASSUME HistorySuffices, QueueInv, StageInv, HistoryInv, [Next]_vars
    PROVE  HistoryInv'
<1>0. \A type, d : /\ type \notin {"TIMER", "WATCH_VALUES"} =>
                         Quiet(Reply(type, d)) /\ Quiet(Request(type, d))
  BY DEF Quiet, Reply, Request, Message
<1>1. CASE TimerEvent
  BY <1>1, TimerEventHistory
<1>2. CASE AnomalyEvent
  <2>1. /\ m_queue = <<>> /\ UNCHANGED <<watch, collected>>
        /\ m_queue' = <<Alert("RAISE", Stage["Anomaly"])>>
    BY <1>2 DEF AnomalyEvent
  <2>2. \A m \in Range(m_queue') : Quiet(m)
    BY <2>1, ShortLists DEF Quiet, Alert, Message
  <2> QED
    BY <1>2, <2>1, <2>2, AnomalyEventBase, HistoryQuiet
<1>3. CASE HandleTimer
  BY <1>3, HandleTimerHistory
<1>4. CASE HandleWatchValues
  BY <1>4, HandleWatchValuesHistory
<1>5. CASE HandleAlert
  BY <1>5, HandleAlertHistory
<1>6. CASE HandleDistribution
  <2>1. /\ m_queue # <<>> /\ Head(m_queue).type # "WATCH_VALUES"
        /\ UNCHANGED <<watch, collected>>
    BY <1>6 DEF HandleDistribution, Delivered
  <2>2. Quiet(Reply("DISTRIBUTION", m_addressDistributions))
    BY <1>0
  <2> QED
    BY <1>6, <2>1, <2>2, HandleDistributionBase, GrownHistory
<1>7. CASE HandleSuspicious
  <2>1. /\ m_queue # <<>> /\ Head(m_queue).type # "WATCH_VALUES"
        /\ UNCHANGED <<watch, collected>>
    BY <1>7 DEF HandleSuspicious, Delivered
  <2>2. /\ Quiet(Reply("SUSPICIOUS", m_lastSuspicious))
        /\ Quiet(Request("INTERVAL_VALUES", Data))
    BY <1>0
  <2> QED
    BY <1>7, <2>1, <2>2, HandleSuspiciousBase, GrownHistory
<1>8. CASE HandleIntervalValues
  <2>1. /\ m_queue # <<>> /\ Head(m_queue).type # "WATCH_VALUES"
        /\ UNCHANGED <<watch, collected>>
    BY <1>8 DEF HandleIntervalValues, Delivered
  <2>2. Quiet(Reply("INTERVAL_VALUES", ValuesOf(Data)))
    BY <1>0
  <2> QED
    BY <1>8, <2>1, <2>2, HandleIntervalValuesBase, GrownHistory
<1>9. CASE HandleAnomalyType
  <2>1. /\ m_queue # <<>> /\ Head(m_queue).type # "WATCH_VALUES"
        /\ UNCHANGED <<watch, collected>>
    BY <1>9 DEF HandleAnomalyType, Delivered
  <2>2. Quiet(Reply("ANOMALY_TYPE", None))
    BY <1>0
  <2> QED
    BY <1>9, <2>1, <2>2, HandleAnomalyTypeBase, GrownHistory
<1>10. CASE Still
  BY Zenon, <1>10 DEF Still, HistoryInv, Intervals, ItemInv, Counted
<1> QED
  BY <1>1, <1>2, <1>3, <1>4, <1>5, <1>6, <1>7, <1>8, <1>9, <1>10, IsStill
     DEF Next, flush

-----------------------------------------------------------------------------
(* The values of an aggregate: an induction over the history.              *)

\* A set of natural numbers that is not empty has a least element.
LEMMA LeastNumber ==
    ASSUME NEW T, T \subseteq Nat, T # {}
    PROVE  \E m \in T : \A k \in T : m <= k
<1>1. \E m \in T : \A k \in T : <<k, m>> \notin OpToRel(<, Nat)
  BY WFMin, NatLessThanWellFounded
<1>2. \A k, m \in Nat : <<k, m>> \in OpToRel(<, Nat) <=> k < m
  BY DEF OpToRel
<1>3. \E m \in T : \A k \in T : ~(k < m)
  BY <1>1, <1>2, Zenon
<1> QED
  BY <1>3

\* Induction, for a set in the place of a predicate.
LEMMA SetInduction ==
    ASSUME NEW T, 0 \in T, \A n \in Nat : n \in T => n + 1 \in T
    PROVE  Nat \subseteq T
<1> SUFFICES ASSUME Nat \ T # {} PROVE FALSE
  OBVIOUS
<1>1. PICK m \in Nat \ T : \A k \in Nat \ T : m <= k
  BY Zenon, LeastNumber
<1>2. m # 0
  OBVIOUS
<1>3. m - 1 \in Nat /\ m - 1 \in T
  BY <1>1, <1>2
<1> QED
  BY <1>3

\* One round of the loop over the history h: the values up to interval n, from
\* those up to the interval before.
ValuesUpTo(h, a, f, n) ==
    IF n = 0 THEN <<>>
    ELSE IF h[n][a] = "none" THEN f[n - 1]
    ELSE Append(f[n - 1], h[n][a] = "abnormal")

\* The loop is well-founded.
LEMMA ValuesExist ==
    ASSUME NEW h, NEW a
    PROVE  \A k \in Nat : \E f : f = [n \in 0..k |-> ValuesUpTo(h, a, f, n)]
<1> DEFINE T == {k \in Nat : \E f : f = [n \in 0..k |-> ValuesUpTo(h, a, f, n)]}
<1>1. 0 \in T
  <2> DEFINE f == [n \in 0..0 |-> <<>>]
  <2>1. f = [n \in 0..0 |-> ValuesUpTo(h, a, f, n)]
    BY DEF ValuesUpTo
  <2> QED
    BY <2>1
<1>2. ASSUME NEW k \in Nat, k \in T PROVE k + 1 \in T
  <2>1. PICK f : f = [n \in 0..k |-> ValuesUpTo(h, a, f, n)]
    BY <1>2
  <2> DEFINE g == [n \in 0..(k + 1) |->
                      IF n <= k THEN f[n] ELSE ValuesUpTo(h, a, f, n)]
  <2>2. \A n \in 0..k : g[n] = f[n]
    OBVIOUS
  <2>3. \A n \in 0..(k + 1) : ValuesUpTo(h, a, g, n) = ValuesUpTo(h, a, f, n)
    <3> HIDE DEF g
    <3> SUFFICES ASSUME NEW n \in 0..(k + 1), n # 0 PROVE g[n - 1] = f[n - 1]
      BY DEF ValuesUpTo
    <3> QED
      BY <2>2
  <2>4. \A n \in 0..k : f[n] = ValuesUpTo(h, a, f, n)
    BY <2>1
  <2>5. \A n \in 0..(k + 1) : g[n] = ValuesUpTo(h, a, g, n)
    <3> SUFFICES ASSUME NEW n \in 0..(k + 1) PROVE g[n] = ValuesUpTo(h, a, f, n)
      BY <2>3
    <3> QED
      BY <2>4
  <2>6. g = [n \in 0..(k + 1) |-> ValuesUpTo(h, a, g, n)]
    <3>1. g = [n \in 0..(k + 1) |-> g[n]]
      OBVIOUS
    <3> HIDE DEF g
    <3> QED
      BY <2>5, <3>1
  <2> HIDE DEF g
  <2> QED
    BY <2>6
<1>3. Nat \subseteq T
  <2> HIDE DEF T
  <2> QED
    BY <1>1, <1>2, SetInduction
<1> QED
  BY <1>3

\* ModuleCollectorAggregateThreshold::handleRequestValuesMsg: an aggregate that
\* has a value in every interval has as many values as there are intervals.
LEMMA ValuesOfResult ==
    ASSUME NEW a, m_intervals \in Seq([Aggregates -> Values]),
           \A i \in 1..Len(m_intervals) : m_intervals[i][a] # "none"
    PROVE  ValuesOf(a) \in Seq(BOOLEAN) /\ Len(ValuesOf(a)) = Len(m_intervals)
<1> DEFINE h == m_intervals
           size == Len(m_intervals)
           f == CHOOSE f : f = [n \in 0..size |-> ValuesUpTo(h, a, f, n)]
<1>1. size \in Nat
  BY LenProperties
<1>2. ValuesOf(a) = f[size]
  BY DEF ValuesOf, ValuesUpTo
<1>3. f = [n \in 0..size |-> ValuesUpTo(h, a, f, n)]
  <2>1. \E x : x = [n \in 0..size |-> ValuesUpTo(h, a, x, n)]
    <3> HIDE DEF h, size
    <3> QED
      BY Zenon, <1>1, ValuesExist
  <2> QED
    BY Zenon, <2>1
<1> HIDE DEF f, size
<1>4. \A n \in 0..size : f[n] = ValuesUpTo(h, a, f, n)
  BY Zenon, <1>3
<1> DEFINE T == {k \in Nat : k <= size => f[k] \in Seq(BOOLEAN) /\ Len(f[k]) = k}
<1>5. 0 \in T
  <2>1. f[0] = ValuesUpTo(h, a, f, 0)
    BY <1>1, <1>4
  <2>2. ValuesUpTo(h, a, f, 0) = <<>>
    BY Zenon DEF ValuesUpTo
  <2>3. f[0] \in Seq(BOOLEAN) /\ Len(f[0]) = 0
    BY <2>1, <2>2, EmptySeq, Zenon
  <2> QED
    BY <2>3
<1>6. ASSUME NEW k \in Nat, k \in T PROVE k + 1 \in T
  <2> SUFFICES ASSUME k + 1 <= size
               PROVE  f[k + 1] \in Seq(BOOLEAN) /\ Len(f[k + 1]) = k + 1
    OBVIOUS
  <2>1. f[k] \in Seq(BOOLEAN) /\ Len(f[k]) = k
    BY <1>1, <1>6
  <2>2. PICK value \in BOOLEAN : value = (h[k + 1][a] = "abnormal")
    BY Zenon
  <2>3. f[k + 1] = Append(f[k], value)
    <3>1. k + 1 \in 1..size /\ (k + 1) - 1 = k
      BY <1>1
    <3>2. h[k + 1][a] # "none"
      BY <3>1 DEF size
    <3>3. f[k + 1] = ValuesUpTo(h, a, f, k + 1)
      BY <1>1, <1>4, <3>1
    <3>4. k + 1 # 0
      OBVIOUS
    <3>5. ValuesUpTo(h, a, f, k + 1)
             = Append(f[(k + 1) - 1], h[k + 1][a] = "abnormal")
      BY <3>2, <3>4, Zenon DEF ValuesUpTo
    <3> QED
      BY <2>2, <3>1, <3>3, <3>5, Zenon
  <2> QED
    BY <2>1, <2>3, AppendProperties
<1>7. Nat \subseteq T
  <2> HIDE DEF T
  <2> QED
    BY <1>5, <1>6, SetInduction
<1> QED
  BY <1>1, <1>2, <1>7 DEF size

-----------------------------------------------------------------------------
(* The analyzer.                                                           *)

\* analyze() sets the verdict only.
LEMMA AnalysedResult ==
    ASSUME NEW a \in AnalyzerState, Analysed(a)
    PROVE  /\ analyzer' \in AnalyzerState
           /\ analyzer'.haveTrees = a.haveTrees /\ analyzer'.trees = a.trees
           /\ analyzer'.haveValues = a.haveValues /\ analyzer'.values = a.values
           /\ "Analyzer" \notin loaded => analyzer' = a
<1>1. CASE analyzer' = a
  BY <1>1
<1>2. CASE /\ "Analyzer" \in loaded
           /\ \E verdict \in Verdicts(a) : analyzer' = [a EXCEPT !.verdict = verdict]
  <2>1. PICK verdict \in Verdicts(a) : analyzer' = [a EXCEPT !.verdict = verdict]
    BY <1>2
  <2>2. verdict \in {"NONE", "RAISE", "LOWER"}
    <3>1. a.verdict \in {"NONE", "RAISE", "LOWER"}
      BY Zenon DEF AnalyzerState
    <3> QED
      BY <3>1 DEF Verdicts
  <2>3. PICK g \in Aggregates \cup {None}, v \in BOOLEAN, w \in Seq(BOOLEAN),
             t \in BOOLEAN, u \in Seq(Tree), x \in {"NONE", "RAISE", "LOWER"} :
           a = [aggregate |-> g, haveValues |-> v, values |-> w, haveTrees |-> t,
                trees |-> u, verdict |-> x]
    BY DEF AnalyzerState
  <2>4. analyzer' = [aggregate |-> g, haveValues |-> v, values |-> w, haveTrees |-> t,
                     trees |-> u, verdict |-> verdict]
    BY <2>1, <2>3
  <2>5. analyzer' \in AnalyzerState
    BY Zenon, <2>2, <2>4 DEF AnalyzerState
  <2>6. /\ analyzer'.haveTrees = t /\ analyzer'.trees = u
        /\ analyzer'.haveValues = v /\ analyzer'.values = w
    BY <2>4
  <2>7. a.haveTrees = t /\ a.trees = u /\ a.haveValues = v /\ a.values = w
    BY <2>3
  <2> QED
    BY <1>2, <2>5, <2>6, <2>7, Zenon
<1> QED
  BY <1>1, <1>2 DEF Analysed

\* Steps that leave the stages and the trees alone and the analyzer in state a.
LEMMA AnalysedInv ==
    ASSUME StageInv, UNCHANGED <<stages, collected>>,
           NEW a \in AnalyzerState, Analysed(a),
           "Analyzer" \notin loaded => a = NewAnalyzer,
           a.haveTrees => Len(a.trees) <= Len(m_addressDistributions),
           a.haveTrees /\ a.haveValues => Len(a.trees) <= Len(a.values),
           a.haveValues /\ TreesOnTheWay' =>
              Len(m_addressDistributions) <= Len(a.values),
           "Analyzer" \in loaded /\ ~a.haveTrees => TreesOnTheWay',
           \A m \in Range(m_queue') : m.type = "INTERVAL_VALUES" /\ m.kind = "reply"
                                         => Enough(m.data)
    PROVE  AnalyzerInv'
<1>1. /\ analyzer' \in AnalyzerState
      /\ analyzer'.haveTrees = a.haveTrees /\ analyzer'.trees = a.trees
      /\ analyzer'.haveValues = a.haveValues /\ analyzer'.values = a.values
      /\ "Analyzer" \notin loaded => analyzer' = a
  BY AnalysedResult DEF StageInv
<1>2. UNCHANGED <<loaded, m_addressDistributions>>
  BY DEF stages, collected
<1>3. \A v : Enough(v)' <=> Enough(v)
  BY <1>2 DEF Enough
<1> QED
  BY <1>1, <1>2, <1>3 DEF AnalyzerInv

\* Messages that neither bring trees nor values change nothing for the analyzer.
Idle(m) == m.type \notin {"DISTRIBUTION", "INTERVAL_VALUES"}

\* An analyzer that keeps its data, on a queue that keeps the messages for it.
LEMMA AnalyzerKept ==
    ASSUME AnalyzerInv, NEW same, same \subseteq Range(m_queue),
           \A m \in Range(m_queue) \ same : Idle(m),
           same \subseteq Range(m_queue'),
           \A m \in Range(m_queue') \ same : Idle(m),
           UNCHANGED <<m_addressDistributions>>
    PROVE  /\ TreesOnTheWay' <=> TreesOnTheWay
           /\ \A m \in Range(m_queue') :
                 m.type = "INTERVAL_VALUES" /\ m.kind = "reply" => Enough(m.data)
BY DEF AnalyzerInv, TreesOnTheWay, Idle

\* The state of an analyzer that has received nothing.
LEMMA NewAnalyzerState ==
    /\ NewAnalyzer \in AnalyzerState
    /\ ~NewAnalyzer.haveTrees /\ ~NewAnalyzer.haveValues
<1>1. <<>> \in Seq(BOOLEAN) /\ <<>> \in Seq(Tree)
  BY EmptySeq
<1>2. NewAnalyzer \in AnalyzerState
  BY <1>1, SMTT(30) DEF NewAnalyzer, AnalyzerState
<1>3. NewAnalyzer.haveTrees = FALSE /\ NewAnalyzer.haveValues = FALSE
  BY ZenonT(30) DEF NewAnalyzer
<1> QED
  BY <1>2, <1>3

\* At the start there is no analyzer.
LEMMA InitAnalyzer == Init => AnalyzerInv
<1> SUFFICES ASSUME Init PROVE AnalyzerInv
  OBVIOUS
<1>1. analyzer = NewAnalyzer /\ Range(m_queue) = {}
  BY ShortLists DEF Init
<1>2. "Analyzer" \notin loaded
  BY StageValues DEF Init, OfStage, m_lowestStageLevel
<1> QED
  BY <1>1, <1>2, NewAnalyzerState DEF AnalyzerInv

\* An event, or the message of the timer: no message for the analyzer is on its
\* way before or after it.
LEMMA NothingOnTheWay ==
    ASSUME AnalyzerInv, \A m \in Range(m_queue) : Idle(m),
           \A m \in Range(m_queue') : Idle(m), UNCHANGED <<loaded, analyzer>>,
           Len(m_addressDistributions) \in Nat, Len(m_addressDistributions') \in Nat,
           Len(m_addressDistributions) <= Len(m_addressDistributions')
    PROVE  AnalyzerInv'
<1>1. ~TreesOnTheWay /\ ~TreesOnTheWay'
  BY DEF TreesOnTheWay, Idle
<1>2. \A m \in Range(m_queue') : m.type # "INTERVAL_VALUES"
  BY DEF Idle
<1>3. analyzer.haveTrees => Len(analyzer.trees) \in Nat
  <2>1. analyzer.trees \in Seq(Tree)
    BY DEF AnalyzerInv, AnalyzerState
  <2> QED
    BY <2>1, LenProperties
<1>4. analyzer.haveTrees => Len(analyzer.trees) <= Len(m_addressDistributions')
  BY <1>3 DEF AnalyzerInv
<1> QED
  BY <1>1, <1>2, <1>4 DEF AnalyzerInv

\* The interval that ends: there is another tree.
LEMMA HandleTimerAnalyzer ==
    ASSUME QueueInv, StageInv, AnalyzerInv, HandleTimer
    PROVE  AnalyzerInv'
<1>1. /\ m_queue # <<>> /\ Head(m_queue).type = "TIMER" /\ Tail(m_queue) = <<>>
      /\ UNCHANGED <<loaded, analyzer>>
  BY Zenon DEF HandleTimer, Delivered, QueueInv, stages
<1>2. \A m \in Range(m_queue) : Idle(m)
  <2>1. Range(m_queue) = {Head(m_queue)} \cup Range(Tail(m_queue))
    BY <1>1, HeadAndTail DEF QueueInv
  <2>2. Range(Tail(m_queue)) = {}
    BY <1>1, ShortLists, Zenon
  <2> QED
    BY <1>1, <2>1, <2>2 DEF Idle
<1>3. \A m \in Range(m_queue') : Idle(m)
  BY HandleTimerBase DEF Idle
<1>4. /\ m_addressDistributions \in Seq(Tree)
      /\ Len(m_addressDistributions) <= HistoryLength
  BY Zenon DEF StageInv, StagesContiguous, TypeOK
<1>5. Len(m_addressDistributions')
         = IF Len(m_addressDistributions) >= HistoryLength
           THEN HistoryLength ELSE Len(m_addressDistributions) + 1
  BY <1>4, TreesPushed DEF HandleTimer
<1>6. /\ Len(m_addressDistributions) \in Nat /\ Len(m_addressDistributions') \in Nat
      /\ Len(m_addressDistributions) <= Len(m_addressDistributions')
  BY <1>4, <1>5, LenProperties, DetectionAssumption
<1> QED
  BY <1>1, <1>2, <1>3, <1>6, NothingOnTheWay

\* The analyzer is loaded with a request for the trees and without data, and it is
\* deleted with its data.
LEMMA HandleAlertAnalyzer ==
    ASSUME QueueInv, StageInv, AnalyzerInv, HandleAlert
    PROVE  AnalyzerInv'
<1> DEFINE rest == Range(Tail(m_queue))
           request == Request("DISTRIBUTION", None)
<1>1. /\ m_queue # <<>> /\ Head(m_queue).type = "ALERT" /\ Delivered("ALERT")
      /\ UNCHANGED <<settings, watch, collected>> /\ UNCHANGED m_addressDistributions
  BY DEF HandleAlert, Delivered, collected
<1>2. \A v : Enough(v)' <=> Enough(v)
  BY <1>1 DEF Enough
<1>3. Idle(Head(m_queue))
  BY <1>1 DEF Idle
<1>4. NewAnalyzer \in AnalyzerState /\ ~NewAnalyzer.haveTrees /\ ~NewAnalyzer.haveValues
  BY NewAnalyzerState
<1>5. "Analyzer" \in loaded <=> m_currentStageLevel > 1
  <2>1. "Analyzer" \in DOMAIN Stage /\ Stage["Analyzer"] = 2
    BY StageValues
  <2>2. /\ m_currentStageLevel \in 1..3
        /\ loaded = {m \in DOMAIN Stage : Stage[m] <= m_currentStageLevel}
    BY DEF StageInv, StagesContiguous, TypeOK
  <2> QED
    BY <2>1, <2>2
<1>6. StageInv' => ("Analyzer" \in loaded' <=> m_currentStageLevel' > 1)
  <2>1. "Analyzer" \in DOMAIN Stage /\ Stage["Analyzer"] = 2
    BY StageValues
  <2>2. StageInv' => /\ m_currentStageLevel' \in 1..3
                     /\ loaded' = {m \in DOMAIN Stage : Stage[m] <= m_currentStageLevel'}
    BY DEF StageInv, StagesContiguous, TypeOK
  <2> QED
    BY <2>1, <2>2
<1>7. request.type = "DISTRIBUTION"
  BY DEF Request, Message
<1> HIDE DEF request
<1>8. CASE Raise
  <2>1. /\ StageInv' /\ UNCHANGED analyzer
        /\ Range(m_queue) = {Head(m_queue)} \cup rest
        /\ \/ UNCHANGED stages /\ Range(m_queue') = rest
           \/ Loaded(request)
    BY <1>1, <1>8, RaiseBase DEF request
  <2> HIDE DEF rest
  <2>2. CASE UNCHANGED stages /\ Range(m_queue') = rest
    <3>1. /\ TreesOnTheWay' <=> TreesOnTheWay
          /\ \A m \in Range(m_queue') :
                m.type = "INTERVAL_VALUES" /\ m.kind = "reply" => Enough(m.data)
      BY Zenon, <1>1, <1>3, <2>1, <2>2, AnalyzerKept
    <3>2. UNCHANGED <<loaded, analyzer, m_addressDistributions>>
      BY <1>1, <2>1, <2>2 DEF stages
    <3> QED
      BY <1>2, <3>1, <3>2 DEF AnalyzerInv
  <2>3. CASE Loaded(request)
    <3>1. /\ m_currentStageLevel \in {1, 2}
          /\ m_currentStageLevel' \in {m_currentStageLevel, m_currentStageLevel + 1}
          /\ rest \subseteq Range(m_queue')
          /\ \A x \in Range(m_queue') :
                x \in rest \/ x.type \in {"SUSPICIOUS", "ANOMALY_TYPE"}
                           \/ (m_currentStageLevel = 1 /\ x = request)
          /\ m_currentStageLevel = 1 => request \in Range(m_queue')
      BY <2>3 DEF Loaded, rest
    <3>2. m_currentStageLevel = 2 => "Analyzer" \in loaded'
      BY <1>6, <2>1, <3>1
    <3>3. CASE m_currentStageLevel = 1
      <4>1. analyzer = NewAnalyzer
        BY <1>5, <3>3 DEF AnalyzerInv
      <4>2. TreesOnTheWay'
        BY <1>7, <3>1, <3>3 DEF TreesOnTheWay
      <4>3. \A m \in Range(m_queue') :
               m.type = "INTERVAL_VALUES" /\ m.kind = "reply" => Enough(m.data)
        BY <1>7, <2>1, <3>1 DEF AnalyzerInv
      <4> QED
        BY <1>2, <1>4, <2>1, <4>1, <4>2, <4>3 DEF AnalyzerInv
    <3>4. CASE m_currentStageLevel = 2
      <4>1. \A x \in Range(m_queue') \ rest : Idle(x)
        BY <3>1, <3>4 DEF Idle
      <4>2. /\ TreesOnTheWay' <=> TreesOnTheWay
            /\ \A m \in Range(m_queue') :
                  m.type = "INTERVAL_VALUES" /\ m.kind = "reply" => Enough(m.data)
        BY <1>1, <1>3, <2>1, <3>1, <4>1, AnalyzerKept
      <4>3. "Analyzer" \in loaded
        BY <1>5, <3>4
      <4> QED
        BY <1>1, <1>2, <2>1, <3>2, <3>4, <4>2, <4>3 DEF AnalyzerInv
    <3> QED
      BY <3>1, <3>3, <3>4
  <2> QED
    BY <2>1, <2>2, <2>3
<1>9. CASE Lower
  <2>1. /\ Range(m_queue) = {Head(m_queue)} \cup rest
        /\ Range(m_queue') = rest /\ loaded' \subseteq loaded
        /\ analyzer' = IF "Analyzer" \in loaded \ loaded' THEN NewAnalyzer
                       ELSE analyzer
    BY <1>1, <1>9, LowerBase
  <2> HIDE DEF rest
  <2>2. /\ TreesOnTheWay' <=> TreesOnTheWay
        /\ \A m \in Range(m_queue') :
              m.type = "INTERVAL_VALUES" /\ m.kind = "reply" => Enough(m.data)
    BY <1>1, <1>3, <2>1, AnalyzerKept
  <2>3. CASE "Analyzer" \in loaded \ loaded'
    <3>1. analyzer' = NewAnalyzer /\ "Analyzer" \notin loaded'
      BY <2>1, <2>3
    <3> QED
      BY <1>2, <1>4, <2>2, <3>1 DEF AnalyzerInv
  <2>4. CASE "Analyzer" \notin loaded \ loaded'
    <3>1. UNCHANGED analyzer /\ ("Analyzer" \in loaded' <=> "Analyzer" \in loaded)
      BY <2>1, <2>4
    <3> QED
      BY <1>1, <1>2, <2>2, <3>1 DEF AnalyzerInv
  <2> QED
    BY <2>3, <2>4
<1> QED
  BY <1>8, <1>9 DEF HandleAlert

\* What the analyzer makes of the replies.
LEMMA Given ==
    ASSUME analyzer \in AnalyzerState
    PROVE  /\ \A t \in Seq(Tree) :
                 LET a == [analyzer EXCEPT !.haveTrees = TRUE, !.trees = t]
                 IN  /\ a \in AnalyzerState /\ a.haveTrees /\ a.trees = t
                     /\ a.haveValues <=> analyzer.haveValues
                     /\ a.values = analyzer.values
           /\ \A v \in Seq(BOOLEAN) :
                 LET a == [analyzer EXCEPT !.haveValues = TRUE, !.values = v]
                 IN  /\ a \in AnalyzerState /\ a.haveValues /\ a.values = v
                     /\ a.haveTrees <=> analyzer.haveTrees
                     /\ a.trees = analyzer.trees
           /\ \A g \in Aggregates \cup {None} :
                 LET a == [analyzer EXCEPT !.aggregate = g]
                 IN  /\ a \in AnalyzerState
                     /\ a.haveTrees <=> analyzer.haveTrees
                     /\ a.trees = analyzer.trees
                     /\ a.haveValues <=> analyzer.haveValues
                     /\ a.values = analyzer.values
<1>1. PICK g \in Aggregates \cup {None}, v \in BOOLEAN, w \in Seq(BOOLEAN),
           t \in BOOLEAN, u \in Seq(Tree), x \in {"NONE", "RAISE", "LOWER"} :
         analyzer = [aggregate |-> g, haveValues |-> v, values |-> w, haveTrees |-> t,
                     trees |-> u, verdict |-> x]
  BY Zenon DEF AnalyzerState
<1>2. /\ analyzer.haveTrees = t /\ analyzer.trees = u
      /\ analyzer.haveValues = v /\ analyzer.values = w
  BY <1>1
<1>3. PICK on \in BOOLEAN : on = TRUE
  BY Zenon
<1>4. ASSUME NEW new \in Seq(Tree)
      PROVE  LET a == [analyzer EXCEPT !.haveTrees = TRUE, !.trees = new]
             IN  /\ a \in AnalyzerState /\ a.haveTrees /\ a.trees = new
                 /\ a.haveValues <=> analyzer.haveValues
                 /\ a.values = analyzer.values
  <2> DEFINE b == [analyzer EXCEPT !.haveTrees = on]
             a == [b EXCEPT !.trees = new]
  <2>0. b = [aggregate |-> g, haveValues |-> v, values |-> w, haveTrees |-> on,
             trees |-> u, verdict |-> x]
    BY <1>1
  <2> HIDE DEF b
  <2>1. a = [aggregate |-> g, haveValues |-> v, values |-> w, haveTrees |-> on,
             trees |-> new, verdict |-> x]
    BY <2>0
  <2> HIDE DEF a
  <2>2. /\ a \in AnalyzerState /\ a.haveTrees = on /\ a.trees = new
        /\ a.haveValues = v /\ a.values = w
    BY Zenon, <2>1 DEF AnalyzerState
  <2>3. a = [analyzer EXCEPT !.haveTrees = TRUE, !.trees = new]
    BY <1>3 DEF a, b
  <2>4. a.haveTrees
    BY <1>3, <2>2
  <2> QED
    BY <1>2, <2>2, <2>3, <2>4, Zenon
<1>5. ASSUME NEW new \in Seq(BOOLEAN)
      PROVE  LET a == [analyzer EXCEPT !.haveValues = TRUE, !.values = new]
             IN  /\ a \in AnalyzerState /\ a.haveValues /\ a.values = new
                 /\ a.haveTrees <=> analyzer.haveTrees
                 /\ a.trees = analyzer.trees
  <2> DEFINE b == [analyzer EXCEPT !.haveValues = on]
             a == [b EXCEPT !.values = new]
  <2>0. b = [aggregate |-> g, haveValues |-> on, values |-> w, haveTrees |-> t,
             trees |-> u, verdict |-> x]
    BY <1>1
  <2> HIDE DEF b
  <2>1. a = [aggregate |-> g, haveValues |-> on, values |-> new, haveTrees |-> t,
             trees |-> u, verdict |-> x]
    BY SMTT(30), <2>0
  <2> HIDE DEF a
  <2>2. /\ a \in AnalyzerState /\ a.haveTrees = t /\ a.trees = u
        /\ a.haveValues = on /\ a.values = new
    BY Zenon, <2>1 DEF AnalyzerState
  <2>3. a = [analyzer EXCEPT !.haveValues = TRUE, !.values = new]
    BY <1>3 DEF a, b
  <2>4. a.haveValues
    BY <1>3, <2>2
  <2> QED
    BY <1>2, <2>2, <2>3, <2>4, Zenon
<1>6. ASSUME NEW new \in Aggregates \cup {None}
      PROVE  LET a == [analyzer EXCEPT !.aggregate = new]
             IN  /\ a \in AnalyzerState
                 /\ a.haveTrees <=> analyzer.haveTrees
                 /\ a.trees = analyzer.trees
                 /\ a.haveValues <=> analyzer.haveValues
                 /\ a.values = analyzer.values
  <2> DEFINE a == [analyzer EXCEPT !.aggregate = new]
  <2>1. a = [aggregate |-> new, haveValues |-> v, values |-> w, haveTrees |-> t,
             trees |-> u, verdict |-> x]
    BY <1>1
  <2> HIDE DEF a
  <2>2. /\ a \in AnalyzerState /\ a.haveTrees = t /\ a.trees = u
        /\ a.haveValues = v /\ a.values = w
    BY Zenon, <2>1 DEF AnalyzerState
  <2>3. a = [analyzer EXCEPT !.aggregate = new]
    BY DEF a
  <2> QED
    BY <1>2, <2>2, <2>3, Zenon
<1> QED
  BY <1>4, <1>5, <1>6, Zenon

\* The replies of Addresses: the analyzer has trees while it waits for no more.
LEMMA HandleDistributionAnalyzer ==
    ASSUME QueueInv, StageInv, AnalyzerInv, HandleDistribution
    PROVE  AnalyzerInv'
<1>1. /\ m_queue # <<>> /\ Head(m_queue).type = "DISTRIBUTION"
      /\ UNCHANGED <<stages, collected>> /\ Sound(Head(m_queue))
  BY HeadSound DEF HandleDistribution, Delivered
<1>2. Head(m_queue) \in Range(m_queue)
  BY <1>1, HeadAndTail DEF QueueInv
<1>3. TreesOnTheWay
  BY <1>1, <1>2 DEF TreesOnTheWay
<1>4. CASE /\ Kind = "request" /\ Analysed(analyzer)
           /\ Grown({Reply("DISTRIBUTION", m_addressDistributions)})
  <2> DEFINE reply == Reply("DISTRIBUTION", m_addressDistributions)
  <2>1. reply.type = "DISTRIBUTION"
    BY DEF Reply, Message
  <2>2. TreesOnTheWay'
    BY <1>4, <2>1 DEF Grown, TreesOnTheWay
  <2>3. \A m \in Range(m_queue') :
           m.type = "INTERVAL_VALUES" /\ m.kind = "reply" => Enough(m.data)
    BY <1>4, <2>1 DEF Grown, AnalyzerInv
  <2> HIDE DEF reply
  <2> QED
    BY Zenon, <1>1, <1>3, <1>4, <2>2, <2>3, AnalysedInv DEF AnalyzerInv
<1>5. CASE Kind = "reply" /\ Analysed(DistributionReply) /\ Grown({})
  <2>1. \A m \in Range(m_queue') :
           m.type = "INTERVAL_VALUES" /\ m.kind = "reply" => Enough(m.data)
    BY <1>5 DEF Grown, AnalyzerInv
  <2>2. Data = m_addressDistributions /\ Data \in Seq(Tree)
    BY <1>1, <1>5 DEF Sound, Kind, Data, StageInv, StagesContiguous, TypeOK
  <2>3. Len(m_addressDistributions) \in Nat
    BY <2>2, LenProperties
  <2>4. CASE "Analyzer" \in loaded
    <3> DEFINE a == [analyzer EXCEPT !.haveTrees = TRUE, !.trees = Data]
    <3>1. DistributionReply = a
      BY <2>4 DEF DistributionReply, Informed, StageInv
    <3>2. /\ a \in AnalyzerState /\ a.haveTrees /\ a.trees = Data
          /\ a.haveValues <=> analyzer.haveValues
          /\ a.values = analyzer.values
      BY Zenon, <2>2, Given DEF AnalyzerInv
    <3> HIDE DEF a
    <3>3. a.haveValues => Len(m_addressDistributions) <= Len(a.values)
      BY <1>3, <3>2 DEF AnalyzerInv
    <3>4. Analysed(a) /\ a.trees = m_addressDistributions
      BY <1>5, <2>2, <3>1, <3>2
    <3>5. Len(a.trees) <= Len(m_addressDistributions)
      BY <2>3, <3>4
    <3> QED
      BY Zenon, <1>1, <2>1, <2>4, <3>2, <3>3, <3>4, <3>5, AnalysedInv
  <2>5. CASE "Analyzer" \notin loaded
    <3>1. DistributionReply = analyzer
      BY <2>5 DEF DistributionReply, Informed, StageInv
    <3>2. /\ analyzer \in AnalyzerState /\ analyzer = NewAnalyzer
          /\ ~analyzer.haveTrees /\ ~analyzer.haveValues
      BY <2>5 DEF AnalyzerInv, NewAnalyzer
    <3>3. Analysed(analyzer)
      BY <1>5, <3>1
    <3> QED
      BY <1>1, <2>1, <2>5, <3>2, <3>3, AnalysedInv
  <2> QED
    BY <2>4, <2>5
<1> QED
  BY <1>4, <1>5, HandleDistributionBase

\* Deliveries that bring the analyzer neither trees nor values.
LEMMA IdleAnalyzer ==
    ASSUME QueueInv, StageInv, AnalyzerInv, UNCHANGED <<stages, collected>>,
           NEW new, Grown(new), Idle(Head(m_queue)),
           \A m \in new : m.type # "DISTRIBUTION",
           \A m \in new : m.type = "INTERVAL_VALUES" => m.kind # "reply",
           NEW a \in AnalyzerState, Analysed(a),
           "Analyzer" \notin loaded => a = NewAnalyzer,
           a.haveTrees <=> analyzer.haveTrees, a.trees = analyzer.trees,
           a.haveValues <=> analyzer.haveValues, a.values = analyzer.values
    PROVE  AnalyzerInv'
<1>1. TreesOnTheWay' <=> TreesOnTheWay
  BY Zenon DEF Grown, TreesOnTheWay, Idle
<1>2. \A m \in Range(m_queue') :
         m.type = "INTERVAL_VALUES" /\ m.kind = "reply" => Enough(m.data)
  BY DEF Grown, AnalyzerInv
<1>3. /\ a.haveTrees => Len(a.trees) <= Len(m_addressDistributions)
      /\ a.haveTrees /\ a.haveValues => Len(a.trees) <= Len(a.values)
      /\ a.haveValues /\ TreesOnTheWay' =>
            Len(m_addressDistributions) <= Len(a.values)
      /\ "Analyzer" \in loaded /\ ~a.haveTrees => TreesOnTheWay'
  BY <1>1 DEF AnalyzerInv
<1> QED
  BY Zenon, <1>2, <1>3, AnalysedInv

\* The analyzer learns which aggregate is suspicious.
LEMMA HandleSuspiciousAnalyzer ==
    ASSUME QueueInv, StageInv, AnalyzerInv, HandleSuspicious
    PROVE  AnalyzerInv'
<1>1. Idle(Head(m_queue)) /\ UNCHANGED <<stages, collected>>
  BY DEF HandleSuspicious, Delivered, Idle
<1>2. analyzer \in AnalyzerState /\ ("Analyzer" \notin loaded => analyzer = NewAnalyzer)
  BY DEF AnalyzerInv
<1>3. CASE /\ Kind = "request" /\ Analysed(analyzer)
           /\ Grown({Reply("SUSPICIOUS", m_lastSuspicious)})
  <2> DEFINE new == {Reply("SUSPICIOUS", m_lastSuspicious)}
  <2>1. \A m \in new : m.type = "SUSPICIOUS"
    BY DEF Reply, Message
  <2>2. Grown(new)
    BY <1>3
  <2> HIDE DEF new
  <2> QED
    BY <1>1, <1>2, <1>3, <2>1, <2>2, IdleAnalyzer
<1>4. CASE /\ Kind = "reply" /\ Analysed(SuspiciousReply) /\ Data = m_lastSuspicious
           /\ Grown({Request("INTERVAL_VALUES", Data)}) \/ Grown({})
  <2>1. PICK new : /\ Grown(new)
                   /\ \A m \in new : m.type = "INTERVAL_VALUES" /\ m.kind = "request"
    BY <1>4 DEF Request, Message
  <2>2. Data \in Aggregates \cup {None}
    BY <1>4 DEF StageInv, StagesContiguous, TypeOK
  <2> DEFINE a == SuspiciousReply
  <2>3. /\ a \in AnalyzerState
        /\ "Analyzer" \notin loaded => a = NewAnalyzer
        /\ a.haveTrees <=> analyzer.haveTrees
        /\ a.trees = analyzer.trees
        /\ a.haveValues <=> analyzer.haveValues
        /\ a.values = analyzer.values
    <3>1. CASE "Analyzer" \in loaded
      <4>1. a = [analyzer EXCEPT !.aggregate = Data]
        BY <3>1 DEF SuspiciousReply, Informed, StageInv
      <4> QED
        BY Zenon, <1>2, <2>2, <3>1, <4>1, Given
    <3>2. CASE "Analyzer" \notin loaded
      BY <1>2, <3>2 DEF SuspiciousReply, Informed, StageInv
    <3> QED
      BY <3>1, <3>2
  <2>4. Analysed(a)
    BY <1>4
  <2> HIDE DEF a
  <2> QED
    BY Zenon, <1>1, <2>1, <2>3, <2>4, IdleAnalyzer
<1> QED
  BY <1>3, <1>4, HandleSuspiciousBase

\* The values: the suspicious aggregate has one for every tree.
LEMMA HandleIntervalValuesAnalyzer ==
    ASSUME QueueInv, StageInv, HistoryInv, AnalyzerInv, HandleIntervalValues
    PROVE  AnalyzerInv'
<1>1. /\ m_queue # <<>> /\ Head(m_queue).type = "INTERVAL_VALUES"
      /\ UNCHANGED <<stages, collected>>
  BY DEF HandleIntervalValues, Delivered
<1>2. analyzer \in AnalyzerState /\ ("Analyzer" \notin loaded => analyzer = NewAnalyzer)
  BY DEF AnalyzerInv
<1>3. Range(m_queue) = {Head(m_queue)} \cup Range(Tail(m_queue))
  BY Zenon, <1>1, HeadAndTail DEF QueueInv
<1>4. CASE /\ Kind = "request" /\ Analysed(analyzer)
           /\ Data = m_lastSuspicious /\ m_lastSuspicious # None
           /\ Grown({Reply("INTERVAL_VALUES", ValuesOf(Data))})
  <2> DEFINE values == ValuesOf(Data)
             reply == Reply("INTERVAL_VALUES", values)
  <2>1. Enough(values)
    <3>1. Intervals = m_intervals
      BY SMTT(30), <1>1 DEF Intervals
    <3>2. /\ \A i \in 1..Len(m_intervals) : m_intervals[i][Data] # "none"
          /\ Len(m_addressDistributions) = Len(m_intervals)
      BY <1>4, <3>1 DEF HistoryInv
    <3>3. m_intervals \in Seq([Aggregates -> Values])
      BY DEF StageInv
    <3>4. values \in Seq(BOOLEAN) /\ Len(values) = Len(m_intervals)
      <4> DEFINE d == Data
      <4>1. \A i \in 1..Len(m_intervals) : m_intervals[i][d] # "none"
        BY <3>2
      <4> HIDE DEF d
      <4>2. ValuesOf(d) \in Seq(BOOLEAN) /\ Len(ValuesOf(d)) = Len(m_intervals)
        BY <3>3, <4>1, ValuesOfResult
      <4> QED
        BY <4>2 DEF d
    <3>5. Len(m_intervals) \in Nat
      BY <3>3, LenProperties
    <3> HIDE DEF values
    <3>6. Len(m_addressDistributions) <= Len(values)
      <4>1. /\ Len(m_addressDistributions) = Len(m_intervals)
            /\ Len(values) = Len(m_intervals)
        BY Zenon, <3>2, <3>4
      <4> QED
        BY <3>5, <4>1
    <3> QED
      BY Zenon, <3>4, <3>6 DEF Enough
  <2> HIDE DEF values
  <2>2. reply.type = "INTERVAL_VALUES" /\ reply.data = values
    BY DEF Reply, Message
  <2>3. Grown({reply})
    BY <1>4 DEF values
  <2> HIDE DEF reply
  <2>4. \A m \in Range(m_queue') :
           m.type = "INTERVAL_VALUES" /\ m.kind = "reply" => Enough(m.data)
    BY <2>1, <2>2, <2>3 DEF Grown, AnalyzerInv
  <2>5. TreesOnTheWay' <=> TreesOnTheWay
    BY <1>1, <2>2, <2>3 DEF Grown, TreesOnTheWay
  <2> QED
    BY <1>1, <1>2, <1>4, <2>4, <2>5, AnalysedInv DEF AnalyzerInv
<1>5. CASE Kind = "reply" /\ Analysed(ValuesReply) /\ Grown({})
  <2>1. Enough(Data)
    BY <1>1, <1>3, <1>5 DEF AnalyzerInv, Kind, Data
  <2>2. \A m \in Range(m_queue') :
           m.type = "INTERVAL_VALUES" /\ m.kind = "reply" => Enough(m.data)
    BY <1>5 DEF Grown, AnalyzerInv
  <2>3. TreesOnTheWay' <=> TreesOnTheWay
    BY <1>1, <1>5 DEF Grown, TreesOnTheWay
  <2>4. CASE "Analyzer" \in loaded
    <3> DEFINE a == [analyzer EXCEPT !.haveValues = TRUE, !.values = Data]
    <3>1. ValuesReply = a
      BY <2>4 DEF ValuesReply, Informed, StageInv
    <3>2. /\ a \in AnalyzerState /\ a.haveValues /\ a.values = Data
          /\ a.haveTrees <=> analyzer.haveTrees
          /\ a.trees = analyzer.trees
      BY Zenon, <1>2, <2>1, Given DEF Enough
    <3> HIDE DEF a
    <3>3. Analysed(a) /\ Len(m_addressDistributions) <= Len(a.values)
      BY <1>5, <2>1, <3>1, <3>2 DEF Enough
    <3>4. a.haveTrees => Len(a.trees) <= Len(m_addressDistributions)
      BY <3>2 DEF AnalyzerInv
    <3>5. /\ Len(a.trees) \in Nat /\ Len(a.values) \in Nat
          /\ Len(m_addressDistributions) \in Nat
      <4>1. a.trees \in Seq(Tree) /\ a.values \in Seq(BOOLEAN)
        BY <3>2 DEF AnalyzerState
      <4>2. m_addressDistributions \in Seq(Tree)
        BY DEF StageInv, StagesContiguous, TypeOK
      <4> QED
        BY <4>1, <4>2, LenProperties
    <3>6. a.haveTrees => Len(a.trees) <= Len(a.values)
      BY <3>3, <3>4, <3>5
    <3>7. "Analyzer" \in loaded /\ ~a.haveTrees => TreesOnTheWay'
      BY <2>3, <3>2 DEF AnalyzerInv
    <3> QED
      BY <1>1, <2>2, <2>4, <3>2, <3>3, <3>4, <3>6, <3>7, AnalysedInv
  <2>5. CASE "Analyzer" \notin loaded
    <3>1. ValuesReply = analyzer
      BY <2>5 DEF ValuesReply, Informed, StageInv
    <3>2. analyzer = NewAnalyzer /\ ~analyzer.haveTrees /\ ~analyzer.haveValues
      BY <1>2, <2>5, NewAnalyzerState
    <3>3. Analysed(analyzer)
      BY <1>5, <3>1
    <3> QED
      BY <1>1, <1>2, <2>2, <2>5, <3>2, <3>3, AnalysedInv
  <2> QED
    BY <2>4, <2>5
<1> QED
  BY <1>4, <1>5, HandleIntervalValuesBase

\* Every step keeps the invariant of the analyzer.
LEMMA NextAnalyzer ==
    ASSUME QueueInv, StageInv, HistoryInv, AnalyzerInv, [Next]_vars
    PROVE  AnalyzerInv'
<1>0. Len(m_addressDistributions) \in Nat
  BY LenProperties DEF StageInv, StagesContiguous, TypeOK
<1>1. CASE TimerEvent
  <2>1. /\ m_queue = <<>> /\ m_queue' = <<Message("TIMER", "reply", None)>>
        /\ UNCHANGED <<loaded, analyzer, m_addressDistributions>>
    BY <1>1 DEF TimerEvent, stages, collected
  <2>2. Range(m_queue) = {} /\ Range(m_queue') = {Message("TIMER", "reply", None)}
    BY <2>1, ShortLists, Zenon
  <2>3. Idle(Message("TIMER", "reply", None))
    BY DEF Idle, Message
  <2>4. /\ \A m \in Range(m_queue) : Idle(m)
        /\ \A m \in Range(m_queue') : Idle(m)
    BY <2>2, <2>3
  <2> QED
    BY <1>0, <2>1, <2>4, NothingOnTheWay
<1>2. CASE AnomalyEvent
  <2>1. /\ m_queue = <<>> /\ m_queue' = <<Alert("RAISE", Stage["Anomaly"])>>
        /\ UNCHANGED <<loaded, analyzer, m_addressDistributions>>
    BY <1>2 DEF AnomalyEvent, stages, collected
  <2>2. /\ \A m \in Range(m_queue) : Idle(m)
        /\ \A m \in Range(m_queue') : Idle(m)
    BY <2>1, ShortLists DEF Idle, Alert, Message
  <2> QED
    BY <1>0, <2>1, <2>2, NothingOnTheWay
<1>3. CASE HandleTimer
  BY <1>3, HandleTimerAnalyzer
<1>4. CASE HandleWatchValues
  <2> DEFINE rest == Range(Tail(m_queue))
  <2>1. /\ Idle(Head(m_queue))
        /\ UNCHANGED <<loaded, analyzer, m_addressDistributions>>
    BY <1>4 DEF HandleWatchValues, Delivered, Idle, stages
  <2>2. Range(m_queue) = {Head(m_queue)} \cup rest /\ Range(m_queue') = rest
    BY <1>4, HandleWatchValuesBase
  <2> HIDE DEF rest
  <2>3. /\ TreesOnTheWay' <=> TreesOnTheWay
        /\ \A m \in Range(m_queue') :
              m.type = "INTERVAL_VALUES" /\ m.kind = "reply" => Enough(m.data)
    BY <2>1, <2>2, AnalyzerKept
  <2>4. \A v : Enough(v)' <=> Enough(v)
    BY <2>1 DEF Enough
  <2> QED
    BY <2>1, <2>3, <2>4 DEF AnalyzerInv
<1>5. CASE HandleAlert
  BY <1>5, HandleAlertAnalyzer
<1>6. CASE HandleDistribution
  BY <1>6, HandleDistributionAnalyzer
<1>7. CASE HandleSuspicious
  BY <1>7, HandleSuspiciousAnalyzer
<1>8. CASE HandleIntervalValues
  BY <1>8, HandleIntervalValuesAnalyzer
<1>9. CASE HandleAnomalyType
  <2>1. Idle(Head(m_queue)) /\ UNCHANGED <<stages, collected>>
    BY <1>9 DEF HandleAnomalyType, Delivered, Idle
  <2>2. /\ analyzer \in AnalyzerState
        /\ "Analyzer" \notin loaded => analyzer = NewAnalyzer
    BY DEF AnalyzerInv
  <2>3. PICK new : Grown(new) /\ \A m \in new : m.type = "ANOMALY_TYPE"
    BY <1>9, HandleAnomalyTypeBase DEF Reply, Message
  <2>4. Analysed(analyzer)
    BY Zenon, <1>9, HandleAnomalyTypeBase
  <2> QED
    BY <2>1, <2>2, <2>3, <2>4, IdleAnalyzer
<1>10. CASE Still
  BY <1>10 DEF Still, AnalyzerInv, TreesOnTheWay, Enough
<1> QED
  BY <1>1, <1>2, <1>3, <1>4, <1>5, <1>6, <1>7, <1>8, <1>9, <1>10, IsStill
     DEF Next, flush

\* The assertions of the analyzer hold (ModuleAnalyzerAddressSpace.cpp:139 and
\* 182): the watch names a suspicious aggregate, and there is a value for every
\* tree, if the histories are not longer than it takes to raise an alarm.  The
\* settings that the simulations ship have 5 <= 5 + 2 + 1.
THEOREM AssertionsSafety ==
    ASSUME HistorySuffices
    PROVE  Spec => []AnalyzerAssertions
<1> DEFINE IInv == QueueInv /\ StageInv /\ HistoryInv /\ AnalyzerInv
<1>1. Init => IInv
  BY InitBase, InitHistory, InitAnalyzer
<1>2. IInv /\ [Next]_vars => IInv'
  BY NextBase, NextHistory, NextAnalyzer
<1>3. IInv => AnalyzerAssertions
  <2> SUFFICES ASSUME IInv PROVE AnalyzerAssertions
    OBVIOUS
  <2>1. Complete(analyzer) => Len(analyzer.trees) <= Len(analyzer.values)
    BY DEF Complete, AnalyzerInv
  <2>2. ASSUME Len(m_queue) > 0, Head(m_queue).type = "SUSPICIOUS", Kind = "reply"
        PROVE  Data # None
    <3>1. m_queue # <<>>
      BY <2>2
    <3>2. Sound(Head(m_queue))
      BY <3>1, HeadSound
    <3> QED
      BY <2>2, <3>2 DEF Sound, Kind, Data
  <2> QED
    BY <2>1, <2>2 DEF AnalyzerAssertions
<1> QED
  BY <1>1, <1>2, <1>3, PTL DEF Spec
=============================================================================
