-------------------------- MODULE AttackDetection --------------------------
(***************************************************************************)
(* The staged attack detection of Distack in a simulation                  *)
(* (src/distack-1.2.3-dev/src): the messaging system, the module manager   *)
(* that loads and unloads stages on alerts, and the modules that the       *)
(* settings put on the stages.                                             *)
(*                                                                         *)
(*   stage 1  Timer (ModuleUtilityTimer), Watch (ModuleAnalyzerAggregate-  *)
(*            Watch), Thresholds (ModuleCollectorAggregateThreshold),      *)
(*            Addresses (ModuleCollectorAddressSpace)                      *)
(*   stage 2  Analyzer (ModuleAnalyzerAddressSpace)                        *)
(*   stage 3  Anomaly (ModuleAnalyzerProtocolAnomaly)                      *)
(*                                                                         *)
(* Every message is sent asynchronously; DistackOmnetModule::handleMessage *)
(* ends with flush(), which delivers one message after the other until the *)
(* queue is empty.  So an event of the simulation finds the queue empty,   *)
(* and every delivery is one step.                                         *)
(*                                                                         *)
(* The settings may be wrong for a module of a higher stage, so that its   *)
(* channel fails to load.  What happens after a call of a deleted module   *)
(* is undefined: the model stops there.                                    *)
(*                                                                         *)
(* The traffic of an interval is reduced to whether the counter of an      *)
(* aggregate is above its threshold; the moving averages may set any       *)
(* threshold.  The verdict on the subnets is a choice.                     *)
(***************************************************************************)
EXTENDS Integers, Sequences

CONSTANTS
    Protocols,          \* aggregates that exist from their first packet on
    FrameSizes,         \* aggregates that exist from the start
    None,               \* no aggregate
    LearningIntervals,
    ExceedThreshold,
    HistoryLength       \* of both collectors

ASSUME DetectionAssumption ==
    /\ None \notin Protocols \cup FrameSizes
    /\ LearningIntervals \in Nat
    /\ ExceedThreshold \in Nat
    /\ HistoryLength \in Nat \ {0}

Aggregates == Protocols \cup FrameSizes

VARIABLES
    query,          \* are no anomalies configured, so that Anomaly asks for them?
    failing,        \* the modules that the settings do not let start
    m_currentStageLevel,
    loaded,         \* the modules that exist
    subscribed,     \* the modules in the tables of the messaging system
    m_queue,
    traffic,        \* of the interval that has ended, per aggregate
    items,          \* Watch: AGGREGATE_WATCH_ITEM per aggregate
    m_lastSuspicious,         \* Watch
    m_intervals,              \* Thresholds: traffic of the last intervals
    m_addressDistributions,   \* Addresses: the subnet trees
    analyzer,
    deadCall        \* has a deleted module been called?

vars == <<query, failing, m_currentStageLevel, loaded, subscribed, m_queue, traffic,
          items, m_lastSuspicious, m_intervals, m_addressDistributions,
          analyzer, deadCall>>
settings == <<query, failing>>
stages == <<m_currentStageLevel, loaded, subscribed>>
collected == <<m_intervals, m_addressDistributions>>
watch == <<traffic, items, m_lastSuspicious>>

Stage == [Timer |-> 1, Watch |-> 1, Thresholds |-> 1, Addresses |-> 1,
          Analyzer |-> 2, Anomaly |-> 3]
m_lowestStageLevel == 1
OfStage(s) == {m \in DOMAIN Stage : Stage[m] = s}

\* What a module subscribes to in registerMessages.
Subscriptions == [Timer |-> {}, Watch |-> {"TIMER", "SUSPICIOUS"},
                  Thresholds |-> {"WATCH_VALUES", "INTERVAL_VALUES"},
                  Addresses |-> {"DISTRIBUTION", "TIMER"},
                  Analyzer |-> {"DISTRIBUTION", "SUSPICIOUS",
                                "INTERVAL_VALUES", "ANOMALY_TYPE"},
                  Anomaly |-> IF query THEN {"ANOMALY_TYPE"} ELSE {}]

\* The receivers of a message are looked up when it is delivered.
Receivers(type) == {m \in subscribed : type \in Subscriptions[m]}

Message(type, kind, data) == [type |-> type, kind |-> kind, data |-> data]
Request(type, data) == Message(type, "request", data)
Reply(type, data) == Message(type, "reply", data)
Alert(level, stage) == Message("ALERT", level, stage)

NewItem(exists) == [exists |-> exists, intervalNo |-> 0, exceedCounter |-> 0,
                    saveMode |-> FALSE, n_1_Exceeded |-> FALSE]
NewAnalyzer == [aggregate |-> None, haveValues |-> FALSE, values |-> <<>>,
                haveTrees |-> FALSE, trees |-> <<>>, verdict |-> "NONE"]

\* A subnet tree counts the packets of one interval; abnormal are the aggregates
\* above their thresholds in it.
Tree == [ended : BOOLEAN, abnormal : SUBSET Aggregates]
NewTree == [ended |-> FALSE, abnormal |-> {}]

\* ModuleManager::startup: the lowest stage that has channels.
Init ==
    /\ query \in BOOLEAN
    /\ failing \in SUBSET {m \in DOMAIN Stage : Stage[m] > m_lowestStageLevel}
    /\ m_currentStageLevel = m_lowestStageLevel
    /\ loaded = OfStage(m_lowestStageLevel)
    /\ subscribed = OfStage(m_lowestStageLevel)
    /\ m_queue = <<>>
    /\ traffic = [a \in Aggregates |-> "none"]
    /\ items = [a \in Aggregates |-> NewItem(a \in FrameSizes)]
    /\ m_lastSuspicious = None
    /\ m_intervals = <<>>
    /\ m_addressDistributions = <<>>
    /\ analyzer = NewAnalyzer
    /\ deadCall = FALSE

-----------------------------------------------------------------------------
(* Events of the simulation. *)

\* Packets of the interval have created the items of their protocols; a new
\* item has the threshold 0, so its first packets are above it.  Then the timer
\* sends its message.
TimerEvent ==
    /\ m_queue = <<>>
    /\ "Timer" \in loaded
    /\ traffic' \in [Aggregates -> {"none", "normal", "abnormal"}]
    /\ \A a \in Aggregates :
          IF items[a].exists THEN traffic'[a] # "none" ELSE traffic'[a] # "normal"
    /\ items' = [a \in Aggregates |->
                    [items[a] EXCEPT !.exists = traffic'[a] # "none"]]
    /\ m_queue' = <<Message("TIMER", "reply", None)>>
    /\ UNCHANGED <<settings, stages, m_lastSuspicious, collected, analyzer,
                   deadCall>>

\* ModuleAnalyzerProtocolAnomaly::eventFunction finds an unbalanced host.
AnomalyEvent ==
    /\ m_queue = <<>>
    /\ "Anomaly" \in loaded
    /\ m_queue' = <<Alert("RAISE", Stage["Anomaly"])>>
    /\ UNCHANGED <<settings, stages, watch, collected, analyzer, deadCall>>

-----------------------------------------------------------------------------
(* The delivery of a message. *)

\* The message at the head is of this type, and its receivers exist.  They are
\* called one after the other; none of them deletes another: only the module
\* manager deletes modules, and it is the only subscriber to alerts.
Delivered(type) ==
    /\ m_queue # <<>>
    /\ Head(m_queue).type = type
    /\ Receivers(type) \subseteq loaded
    /\ UNCHANGED deadCall

\* One of them has been deleted.
CallDeleted ==
    /\ m_queue # <<>>
    /\ ~(Receivers(Head(m_queue).type) \subseteq loaded)
    /\ deadCall' = TRUE
    /\ UNCHANGED <<settings, stages, m_queue, watch, collected, analyzer>>

Kind == Head(m_queue).kind
Data == Head(m_queue).data
Send(messages) == m_queue' = Tail(m_queue) \o messages

\* A queue of the last HistoryLength entries.
Push(history, entry) ==
    Append(IF Len(history) >= HistoryLength THEN Tail(history) ELSE history, entry)

Cap(n, limit) == IF n > limit THEN limit ELSE n

\* Mutant: there is no learning phase.
exceeded_NoLearning(item, above) ==
    LET count == Cap(item.exceedCounter + 1, ExceedThreshold + 1)
    IN  IF ~item.exists THEN item
        ELSE IF above
             THEN [item EXCEPT !.exceedCounter = count, !.n_1_Exceeded = TRUE,
                               !.saveMode = @ \/ count > ExceedThreshold]
             ELSE IF item.n_1_Exceeded
                  THEN [item EXCEPT !.n_1_Exceeded = FALSE]
                  ELSE [item EXCEPT !.exceedCounter = 0, !.saveMode = FALSE]

\* Mutant: saveMode is not set back.
exceeded_SaveModeKept(item, above) ==
    LET no == Cap(item.intervalNo + 1, LearningIntervals + 1)
        count == Cap(item.exceedCounter + 1, ExceedThreshold + 1)
    IN  IF ~item.exists THEN item
        ELSE IF no <= LearningIntervals THEN [item EXCEPT !.intervalNo = no]
        ELSE [item EXCEPT !.intervalNo = no,
                          !.exceedCounter = IF above THEN count ELSE 0,
                          !.saveMode = @ \/ (above /\ count > ExceedThreshold)]

\* AGGREGATE_WATCH_ITEM::exceeded: the item after the interval.  intervalNo and
\* exceedCounter are only compared with their limits and stop one above them.
exceeded(item, above) ==
    LET no == Cap(item.intervalNo + 1, LearningIntervals + 1)
        count == Cap(item.exceedCounter + 1, ExceedThreshold + 1)
        next == [item EXCEPT !.intervalNo = no]
    IN  IF ~item.exists THEN item
        ELSE IF no <= LearningIntervals THEN next
        ELSE IF above
             THEN [next EXCEPT !.exceedCounter = count, !.n_1_Exceeded = TRUE,
                               !.saveMode = @ \/ count > ExceedThreshold]
             ELSE IF item.n_1_Exceeded
                  THEN [next EXCEPT !.n_1_Exceeded = FALSE]
                  ELSE [next EXCEPT !.exceedCounter = 0, !.saveMode = FALSE]

\* Watch: the values are sent out, then the items are tested; any aggregate that
\* raises, or lowers, the alarm is enough for an alert.  Addresses: the current
\* tree, which is in the queue already but for the first one, is complete, and
\* the tree of the new interval is queued.
HandleTimer ==
    /\ Delivered("TIMER")
    /\ LET next == [a \in Aggregates |-> exceeded(items[a], traffic[a] = "abnormal")]
           raised == {a \in Aggregates : next[a].saveMode /\ ~items[a].saveMode}
           lowered == {a \in Aggregates : ~next[a].saveMode /\ items[a].saveMode}
           complete == [ended |-> TRUE,
                        abnormal |-> {a \in Aggregates : traffic[a] = "abnormal"}]
           trees == IF m_addressDistributions = <<>> THEN <<>>
                    ELSE [m_addressDistributions EXCEPT
                            ![Len(m_addressDistributions)] = complete]
       IN  /\ items' = next
           /\ IF raised = {} THEN UNCHANGED m_lastSuspicious
                             ELSE m_lastSuspicious' \in raised
           /\ m_addressDistributions' = Push(trees, NewTree)
           /\ Send(<<Message("WATCH_VALUES", "reply", traffic)>>
                   \o (IF raised = {} THEN <<>>
                       ELSE <<Alert("RAISE", Stage["Watch"])>>)
                   \o (IF lowered = {} THEN <<>>
                       ELSE <<Alert("LOWER", Stage["Watch"])>>))
    /\ UNCHANGED <<settings, stages, traffic, m_intervals, analyzer>>

\* Thresholds.
HandleWatchValues ==
    /\ Delivered("WATCH_VALUES")
    /\ m_intervals' = Push(m_intervals, Data)
    /\ Send(<<>>)
    /\ UNCHANGED <<settings, stages, watch, m_addressDistributions, analyzer>>

-----------------------------------------------------------------------------
(* ModuleManager::receiveMessage and updateStageThreadFunc, which a           *)
(* simulation calls at once.                                                  *)

\* Channel::startup: the modules register, some with a request, before they are
\* tested.  When one of them has failed, newChannel deletes the channel and its
\* modules, but nobody unsubscribes them.
loadStage(stage) ==
    /\ subscribed' = subscribed \cup OfStage(stage)
    /\ IF OfStage(stage) \cap failing = {}
       THEN loaded' = loaded \cup OfStage(stage) /\ m_currentStageLevel' = stage
       ELSE UNCHANGED <<loaded, m_currentStageLevel>>
    /\ Send(CASE stage = Stage["Analyzer"] ->
                    <<Request("DISTRIBUTION", None), Request("SUSPICIOUS", None)>>
            [] stage = Stage["Anomaly"] /\ query -> <<Request("ANOMALY_TYPE", None)>>
            [] OTHER -> <<>>)
    /\ UNCHANGED analyzer

\* Mutant: the channels of this stage only.
unloadStage_ThisOnly(stage) ==
    LET gone == {m \in loaded : Stage[m] = stage}
    IN  /\ subscribed' = subscribed \ gone
        /\ loaded' = loaded \ gone
        /\ analyzer' = IF "Analyzer" \in gone THEN NewAnalyzer ELSE analyzer

\* ChannelManager::deleteChannels: every channel of this stage or a higher one.
unloadStage(stage) ==
    LET gone == {m \in loaded : Stage[m] >= stage}
    IN  /\ subscribed' = subscribed \ gone
        /\ loaded' = loaded \ gone
        /\ analyzer' = IF "Analyzer" \in gone THEN NewAnalyzer ELSE analyzer

\* Alerts of a stage that is not loaded are ignored.  Only the highest stage can
\* load another one, if there is one.
Raise ==
    /\ Kind = "RAISE"
    /\ IF Data = m_currentStageLevel /\ OfStage(Data + 1) # {}
       THEN loadStage(Data + 1)
       ELSE Send(<<>>) /\ UNCHANGED <<stages, analyzer>>

\* Mutant: the lowest stage, too, lowers the level by one.
Lower_OneLevel ==
    /\ Kind = "LOWER"
    /\ Send(<<>>)
    /\ IF Data > m_currentStageLevel \/ m_currentStageLevel = m_lowestStageLevel
       THEN UNCHANGED <<stages, analyzer>>
       ELSE /\ unloadStage(m_currentStageLevel)
            /\ m_currentStageLevel' = m_currentStageLevel - 1

Lower ==
    /\ Kind = "LOWER"
    /\ Send(<<>>)
    /\ IF Data > m_currentStageLevel
       THEN UNCHANGED <<stages, analyzer>>
       ELSE IF Data = m_lowestStageLevel
       THEN unloadStage(Data + 1) /\ m_currentStageLevel' = Data
       ELSE unloadStage(Data) /\ m_currentStageLevel' = Data - 1

HandleAlert ==
    /\ Delivered("ALERT")
    /\ Raise \/ Lower
    /\ UNCHANGED <<settings, watch, collected>>

-----------------------------------------------------------------------------
(* The analyzer of the second stage and its exchange with the collectors.     *)

Complete(a) == a.aggregate # None /\ a.haveValues /\ a.haveTrees

\* Intervals in which the aggregate was above its threshold.  There is a value
\* for every tree, see AnalyzerAssertions.
Abnormal(a) == {i \in DOMAIN a.trees \cap DOMAIN a.values : a.values[i]}
FirstAbnormal(a) == CHOOSE i \in Abnormal(a) : \A j \in Abnormal(a) : i <= j

\* The data of an analyzer do not change, so neither does its verdict.
Verdicts(a) ==
    IF a.verdict # "NONE" THEN {a.verdict}
    ELSE IF Abnormal(a) = {} \/ 1 \in Abnormal(a) THEN {"LOWER"}
    ELSE {"RAISE", "LOWER"}

\* ModuleAnalyzerAddressSpace::receiveMessage: after the handler of the message,
\* which leaves the analyzer in state a and sends messages, analyze() if there
\* are all data, whatever the message was.
AnalyzerReceives(a, messages) ==
    IF "Analyzer" \in loaded /\ Complete(a)
    THEN \E verdict \in Verdicts(a) :
            /\ analyzer' = [a EXCEPT !.verdict = verdict]
            /\ Send(Append(messages, Alert(verdict, Stage["Analyzer"])))
    ELSE analyzer' = a /\ Send(messages)

\* For a reply: what the analyzer makes of it, if there still is one.
Informed(a) == IF "Analyzer" \in loaded THEN a ELSE analyzer

HandleDistribution ==
    /\ Delivered("DISTRIBUTION")
    /\ \/ /\ Kind = "request"
          /\ AnalyzerReceives(analyzer,
                              <<Reply("DISTRIBUTION", m_addressDistributions)>>)
       \/ /\ Kind = "reply"
          /\ AnalyzerReceives(Informed([analyzer EXCEPT !.haveTrees = TRUE,
                                                        !.trees = Data]), <<>>)
    /\ UNCHANGED <<settings, stages, watch, collected>>

HandleSuspicious ==
    /\ Delivered("SUSPICIOUS")
    /\ \/ /\ Kind = "request"
          /\ AnalyzerReceives(analyzer, <<Reply("SUSPICIOUS", m_lastSuspicious)>>)
       \/ /\ Kind = "reply"
          /\ AnalyzerReceives(Informed([analyzer EXCEPT !.aggregate = Data]),
                              IF "Analyzer" \in loaded
                              THEN <<Request("INTERVAL_VALUES", Data)>> ELSE <<>>)
    /\ UNCHANGED <<settings, stages, watch, collected>>

\* The values of one aggregate, from the intervals in which there were some.
ValuesOf(a) ==
    LET values[n \in 0..Len(m_intervals)] ==
            IF n = 0 THEN <<>>
            ELSE IF m_intervals[n][a] = "none" THEN values[n - 1]
            ELSE Append(values[n - 1], m_intervals[n][a] = "abnormal")
    IN  values[Len(m_intervals)]

HandleIntervalValues ==
    /\ Delivered("INTERVAL_VALUES")
    /\ \/ /\ Kind = "request"
          /\ AnalyzerReceives(analyzer, <<Reply("INTERVAL_VALUES", ValuesOf(Data))>>)
       \/ /\ Kind = "reply"
          /\ AnalyzerReceives(Informed([analyzer EXCEPT !.haveValues = TRUE,
                                                        !.values = Data]), <<>>)
    /\ UNCHANGED <<settings, stages, watch, collected>>

\* Mutant: replies are answered as well.
HandleAnomalyType_Any ==
    /\ Delivered("ANOMALY_TYPE")
    /\ AnalyzerReceives(analyzer,
                        IF "Analyzer" \in loaded
                        THEN <<Reply("ANOMALY_TYPE", None)>> ELSE <<>>)
    /\ UNCHANGED <<settings, stages, watch, collected>>

\* A request of Anomaly; it keeps the answer, which has no further effect here.
HandleAnomalyType ==
    /\ Delivered("ANOMALY_TYPE")
    /\ AnalyzerReceives(analyzer,
                        IF Kind = "request" /\ "Analyzer" \in loaded
                        THEN <<Reply("ANOMALY_TYPE", None)>> ELSE <<>>)
    /\ UNCHANGED <<settings, stages, watch, collected>>

flush == \/ CallDeleted
         \/ HandleTimer \/ HandleWatchValues \/ HandleAlert \/ HandleDistribution
         \/ HandleSuspicious \/ HandleIntervalValues \/ HandleAnomalyType

Next == TimerEvent \/ AnomalyEvent \/ flush

\* The simulation goes on, and the timer is an event that it schedules again and
\* again: it is not put off for ever by alerts of Anomaly.
Spec == Init /\ [][Next]_vars /\ WF_vars(flush) /\ SF_vars(TimerEvent)

-----------------------------------------------------------------------------
\* The variables keep their types.
TypeOK ==
    /\ query \in BOOLEAN /\ deadCall \in BOOLEAN /\ failing \subseteq DOMAIN Stage
    /\ m_currentStageLevel \in 1..3
    /\ loaded \subseteq DOMAIN Stage /\ subscribed \subseteq DOMAIN Stage
    /\ traffic \in [Aggregates -> {"none", "normal", "abnormal"}]
    /\ items \in [Aggregates -> [exists : BOOLEAN,
                                 intervalNo : 0..(LearningIntervals + 1),
                                 exceedCounter : 0..(ExceedThreshold + 1),
                                 saveMode : BOOLEAN, n_1_Exceeded : BOOLEAN]]
    /\ m_lastSuspicious \in Aggregates \cup {None}
    /\ Len(m_intervals) <= HistoryLength
    /\ Len(m_addressDistributions) <= HistoryLength
    /\ m_addressDistributions \in Seq(Tree)

\* The stages up to the current level are loaded, and no other: no alert, in
\* whatever order the stages send them, leaves a gap or a stage above the level.
StagesContiguous ==
    /\ TypeOK
    /\ loaded = {m \in DOMAIN Stage : Stage[m] <= m_currentStageLevel}

\* The assertions of the analyzer hold (ModuleAnalyzerAddressSpace.cpp:139 and
\* 182): the watch can name a suspicious aggregate when it is asked, and it has
\* at least as many values as there are trees, although the item of a protocol
\* may be younger than the history.
AnalyzerAssertions ==
    /\ Len(m_queue) > 0 /\ Head(m_queue).type = "SUSPICIOUS" /\ Kind = "reply"
          => Data # None
    /\ Complete(analyzer) => Len(analyzer.trees) <= Len(analyzer.values)

\* A stage above the lowest is loaded only while the alarm of some aggregate is
\* on (saveMode): no order of raising and lowering leaves it behind.
RaisedForAnAlarm ==
    m_queue = <<>> /\ m_currentStageLevel > m_lowestStageLevel =>
        \E a \in Aggregates : items[a].saveMode

\* Every flush ends: the modules answer each other's messages, the analyzer
\* sends an alert after any message, but never for ever.  Only a call of a
\* deleted module can end the program before.
FlushEnds == m_queue # <<>> ~> m_queue = <<>> \/ deadCall

\* When no aggregate is above its threshold any more, the detection returns to
\* its lowest stage for good.
DetectionCalmsDown ==
    <>[](\A a \in Aggregates : traffic[a] # "abnormal")
        => <>[](m_currentStageLevel = m_lowestStageLevel)

\* ModuleAnalyzerAddressSpace.cpp:283: "get the subnet distribution of the last
\* normal interval", the reference for the abnormal ones, is what the analyzer
\* does with the tree before the one of the first abnormal interval.
ReferenceIsNormal ==
    Complete(analyzer) /\ Abnormal(analyzer) # {} /\ 1 \notin Abnormal(analyzer) =>
        LET reference == analyzer.trees[FirstAbnormal(analyzer) - 1]
        IN  reference.ended /\ analyzer.aggregate \notin reference.abnormal
=============================================================================
