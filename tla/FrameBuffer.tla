---------------------------- MODULE FrameBuffer ----------------------------
(***************************************************************************)
(* The frame path of Distack outside a simulation: the network interface,  *)
(* the FrameBuffer with its reader thread, the distribution thread that    *)
(* hands frames to the channels, and the main thread that starts and stops *)
(* them (src/distack-1.2.3-dev/src/base).                                  *)
(*                                                                         *)
(* A block under one mutex is one step.  m_distributionMutex is held over  *)
(* several steps; it is taken exactly while distribution.pc is in          *)
(* HoldsMutex.                                                             *)
(***************************************************************************)
EXTENDS Integers, Sequences

CONSTANTS
    Sizes,       \* possible sizes of a frame
    MaxPackets,  \* Queue/MaxPackets of the settings, 0: no limit
    MaxBytes,    \* Queue/MaxBytes of the settings, 0: no limit
    LastFrame    \* bound: frames that the interface delivers

ASSUME FrameBufferAssumption ==
    /\ Sizes \subseteq Nat \ {0}
    /\ MaxPackets \in Nat
    /\ MaxBytes \in Nat
    /\ LastFrame \in Nat

VARIABLES
    online,         \* m_onlineCapture: live interface, or a trace file
    handle,         \* m_handle of the interface: "open" or "closed"
    arrived,        \* number of frames taken from the interface
    m_frameQueue,
    limits,         \* m_maxFrames, m_maxBytes
    current,        \* m_currentFrames, m_currentBytes
    dropped,        \* m_droppedFrames, m_droppedBytes
    reader,         \* thread of the buffer: position and frame in hand
    distribution,   \* thread of FrameDistribution: position and frame in hand
    running,        \* m_threadRunning of the two threads
    main,           \* position of the main thread
    delivered,      \* frames handed to the channels
    faults          \* threads that have used a freed object

vars == <<online, handle, arrived, m_frameQueue, limits, current, dropped,
          reader, distribution, running, main, delivered, faults>>

Frame == [no : Nat, size : Sizes]
NoFrame == [no |-> 0, size |-> 0]
Counter == [frames : Int, bytes : Int]
At(pc, frame) == [pc |-> pc, frame |-> frame]

HoldsMutex == {"popped", "sleep"}
Deleted == main \in {"deleted", "gone"}

\* The variables keep their types.
TypeOK ==
    /\ online \in BOOLEAN
    /\ handle \in {"open", "closed"}
    /\ arrived \in Nat
    /\ m_frameQueue \in Seq(Frame)
    /\ limits \in [frames : Nat, bytes : Nat]
    /\ current \in Counter /\ dropped \in Counter
    /\ reader \in [pc : {"off", "loop", "read", "count", "queue", "ended"},
                   frame : Frame \cup {NoFrame}]
    /\ distribution \in [pc : {"off", "loop", "next", "popped", "sleep",
                               "have", "ended"},
                         frame : Frame \cup {NoFrame}]
    /\ running \in [reader : BOOLEAN, distribution : BOOLEAN]
    /\ main \in {"new", "limited", "buffering", "running", "stopping", "closed",
                 "joined", "prepared", "deleted", "gone"}
    /\ delivered \in Seq(Frame)
    /\ faults \subseteq {"reader", "distribution"}

Init ==
    /\ online \in BOOLEAN
    /\ handle = "open"
    /\ arrived = 0
    /\ m_frameQueue = <<>>
    /\ limits = [frames |-> 0, bytes |-> 0]
    /\ current = [frames |-> 0, bytes |-> 0]
    /\ dropped = [frames |-> 0, bytes |-> 0]
    /\ reader = At("off", NoFrame)
    /\ distribution = At("off", NoFrame)
    /\ running = [reader |-> FALSE, distribution |-> FALSE]
    /\ main = "new"
    /\ delivered = <<>>
    /\ faults = {}

-----------------------------------------------------------------------------
(* The main thread: startup. *)

\* setMaxFrames and setMaxBytes replace a limit only if there is one already.
setLimit(limit, value) == IF limit > 0 THEN value ELSE limit

\* NetworkManager::startup: the buffer is created and given its limits.
setMaxFramesAndBytes ==
    /\ main = "new"
    /\ limits' = [frames |-> setLimit(limits.frames, MaxPackets),
                  bytes  |-> setLimit(limits.bytes, MaxBytes)]
    /\ main' = "limited"
    /\ UNCHANGED <<online, handle, arrived, m_frameQueue, current, dropped,
                   reader, distribution, running, delivered, faults>>

\* FrameBuffer::startup: a reader thread for a live interface only.
startup ==
    /\ main = "limited"
    /\ main' = "buffering"
    /\ running' = [running EXCEPT !.reader = online]
    /\ reader' = IF online THEN At("loop", NoFrame) ELSE reader
    /\ UNCHANGED <<online, handle, arrived, m_frameQueue, limits, current,
                   dropped, distribution, delivered, faults>>

\* ModuleManager::startFrameEating and FrameDistribution::startDistribution.
startDistribution ==
    /\ main = "buffering"
    /\ main' = "running"
    /\ running' = [running EXCEPT !.distribution = TRUE]
    /\ distribution' = At("loop", NoFrame)
    /\ UNCHANGED <<online, handle, arrived, m_frameQueue, limits, current,
                   dropped, reader, delivered, faults>>

-----------------------------------------------------------------------------
(* The reader thread.  A step on a deleted buffer is a fault, after which    *)
(* the thread is followed no further.                                        *)

ReaderUnchanged ==
    UNCHANGED <<online, handle, limits, distribution, running, main, delivered>>

ReaderFault ==
    /\ Deleted
    /\ reader.pc \in {"loop", "read", "count", "queue"}
    /\ faults' = faults \cup {"reader"}
    /\ reader' = At("ended", NoFrame)
    /\ ReaderUnchanged
    /\ UNCHANGED <<arrived, m_frameQueue, current, dropped>>

\* The test of the loop, and the test of m_handle in NetworkInterfacePcap::read.
\* With a closed handle the thread sleeps and comes back here.
ReaderLoop ==
    /\ ~Deleted
    /\ reader.pc = "loop"
    /\ \/ ~running.reader /\ reader' = At("ended", NoFrame)
       \/ running.reader /\ handle = "open" /\ reader' = At("read", NoFrame)
    /\ ReaderUnchanged
    /\ UNCHANGED <<arrived, m_frameQueue, current, dropped, faults>>

\* pcap_next_ex returns a frame, or nothing within 500 ms.  A handle that was
\* closed in between is freed memory: the call fails, or ends the thread.
ReaderReads ==
    /\ ~Deleted
    /\ reader.pc = "read"
    /\ \/ /\ handle = "open" /\ arrived < LastFrame
          /\ arrived' = arrived + 1
          /\ \E size \in Sizes :
                 reader' = At("count", [no |-> arrived + 1, size |-> size])
          /\ UNCHANGED faults
       \/ /\ handle = "open"
          /\ reader' = At("loop", NoFrame)
          /\ UNCHANGED <<arrived, faults>>
       \/ /\ handle = "closed"
          /\ faults' = faults \cup {"reader"}
          /\ \E pc \in {"loop", "ended"} : reader' = At(pc, NoFrame)
          /\ UNCHANGED arrived
    /\ ReaderUnchanged
    /\ UNCHANGED <<m_frameQueue, current, dropped>>

Plus(counter, frame) == [frames |-> counter.frames + 1,
                         bytes  |-> counter.bytes + frame.size]

\* Mutant: one byte per frame.
Minus_OneByte(counter, frame) == [frames |-> counter.frames - 1,
                                  bytes  |-> counter.bytes - 1]

Minus(counter, frame) == [frames |-> counter.frames - 1,
                          bytes  |-> counter.bytes - frame.size]

acceptFrame(frame) ==
    /\ limits.frames > 0 => current.frames + 1 <= limits.frames
    /\ limits.bytes > 0 => current.bytes + frame.size <= limits.bytes

\* The block under m_counterMutex: a frame is counted, or counted as dropped
\* and deleted.
ReaderCounts ==
    /\ ~Deleted
    /\ reader.pc = "count"
    /\ IF acceptFrame(reader.frame)
       THEN /\ current' = Plus(current, reader.frame)
            /\ reader' = At("queue", reader.frame)
            /\ UNCHANGED dropped
       ELSE /\ dropped' = Plus(dropped, reader.frame)
            /\ reader' = At("loop", NoFrame)
            /\ UNCHANGED current
    /\ ReaderUnchanged
    /\ UNCHANGED <<arrived, m_frameQueue, faults>>

\* The block under m_frameQueueMutex.
ReaderQueues ==
    /\ ~Deleted
    /\ reader.pc = "queue"
    /\ m_frameQueue' = Append(m_frameQueue, reader.frame)
    /\ reader' = At("loop", NoFrame)
    /\ ReaderUnchanged
    /\ UNCHANGED <<arrived, current, dropped, faults>>

readThreadFunction ==
    ReaderFault \/ ReaderLoop \/ ReaderReads \/ ReaderCounts \/ ReaderQueues

-----------------------------------------------------------------------------
(* The distribution thread. *)

DistributionUnchanged == UNCHANGED <<online, handle, limits, dropped, reader,
                                     running, main, faults>>

\* The test of m_threadRunning, without a lock.
DistributionLoop ==
    /\ distribution.pc = "loop"
    /\ distribution' = At(IF running.distribution THEN "next" ELSE "ended", NoFrame)
    /\ DistributionUnchanged
    /\ UNCHANGED <<arrived, m_frameQueue, current, delivered>>

\* Mutant: without a frame the thread ends whatever the capture type.
NextIsEmpty_Ends ==
    /\ distribution.pc = "next"
    /\ online
    /\ m_frameQueue = <<>>
    /\ distribution' = At("ended", NoFrame)
    /\ DistributionUnchanged
    /\ UNCHANGED <<arrived, m_frameQueue, current, delivered>>

\* next() of a live interface finds no frame: the thread sleeps and tries again.
NextIsEmpty ==
    /\ distribution.pc = "next"
    /\ online
    /\ m_frameQueue = <<>>
    /\ distribution' = At("loop", NoFrame)
    /\ DistributionUnchanged
    /\ UNCHANGED <<arrived, m_frameQueue, current, delivered>>

\* Mutant: the newest frame is taken.
NextPops_Back ==
    /\ distribution.pc = "next"
    /\ online
    /\ m_frameQueue # <<>>
    /\ distribution' = At("popped", m_frameQueue[Len(m_frameQueue)])
    /\ m_frameQueue' = SubSeq(m_frameQueue, 1, Len(m_frameQueue) - 1)
    /\ DistributionUnchanged
    /\ UNCHANGED <<arrived, current, delivered>>

\* next() of a live interface, first block: the frame leaves the queue.
NextPops ==
    /\ distribution.pc = "next"
    /\ online
    /\ m_frameQueue # <<>>
    /\ distribution' = At("popped", Head(m_frameQueue))
    /\ m_frameQueue' = Tail(m_frameQueue)
    /\ DistributionUnchanged
    /\ UNCHANGED <<arrived, current, delivered>>

\* next() of a live interface, second block: the frame leaves the counters.
NextDiscounts ==
    /\ distribution.pc = "popped"
    /\ current' = Minus(current, distribution.frame)
    /\ distribution' = At("have", distribution.frame)
    /\ DistributionUnchanged
    /\ UNCHANGED <<arrived, m_frameQueue, delivered>>

\* next() of a trace file: a closed handle, the end of the file or an empty
\* record ends the thread; a frame is held back until its time has come, with
\* m_distributionMutex held, unless its time has passed already.
NextReads ==
    /\ distribution.pc = "next"
    /\ ~online
    /\ \/ distribution' = At("ended", NoFrame) /\ UNCHANGED arrived
       \/ /\ handle = "open" /\ arrived < LastFrame
          /\ arrived' = arrived + 1
          /\ \E size \in Sizes, pc \in {"sleep", "have"} :
                 distribution' = At(pc, [no |-> arrived + 1, size |-> size])
    /\ DistributionUnchanged
    /\ UNCHANGED <<m_frameQueue, current, delivered>>

\* The time of the frame has come.
SleepRunsOut ==
    /\ distribution.pc = "sleep"
    /\ distribution' = At("have", distribution.frame)
    /\ DistributionUnchanged
    /\ UNCHANGED <<arrived, m_frameQueue, current, delivered>>

\* The frame is handed to the channels and freed.
frameCall ==
    /\ distribution.pc = "have"
    /\ delivered' = Append(delivered, distribution.frame)
    /\ distribution' = At("loop", NoFrame)
    /\ DistributionUnchanged
    /\ UNCHANGED <<arrived, m_frameQueue, current>>

distribThreadFunction ==
    \/ DistributionLoop \/ NextIsEmpty \/ NextPops \/ NextDiscounts
    \/ NextReads \/ SleepRunsOut \/ frameCall

-----------------------------------------------------------------------------
(* The main thread: shutdown. *)

MainUnchanged == UNCHANGED <<online, arrived, m_frameQueue, limits, current,
                             dropped, reader, delivered, faults>>

\* Mutant: m_threadRunning is not reset.
stopDistribution_FlagKept ==
    /\ main = "running"
    /\ main' = "stopping"
    /\ MainUnchanged
    /\ UNCHANGED <<handle, distribution, running>>

stopDistribution ==
    /\ main = "running"
    /\ main' = "stopping"
    /\ running' = [running EXCEPT !.distribution = FALSE]
    /\ MainUnchanged
    /\ UNCHANGED <<handle, distribution>>

\* close() is there to wake a read that sleeps as well, but it waits for
\* m_distributionMutex, which such a read holds.
closeInterface ==
    /\ main = "stopping"
    /\ distribution.pc \notin HoldsMutex
    /\ main' = "closed"
    /\ handle' = "closed"
    /\ MainUnchanged
    /\ UNCHANGED <<distribution, running>>

joinDistribution ==
    /\ main = "closed"
    /\ distribution.pc = "ended"
    /\ main' = "joined"
    /\ MainUnchanged
    /\ UNCHANGED <<handle, distribution, running>>

prepareshutdown ==
    /\ main = "joined"
    /\ main' = "prepared"
    /\ running' = [running EXCEPT !.reader = FALSE]
    /\ MainUnchanged
    /\ UNCHANGED <<handle, distribution>>

\* The interface is closed already; the buffer is deleted with the frames that
\* are left in it, and nobody waits for the reader.
deleteBuffer ==
    /\ main = "prepared"
    /\ main' = "deleted"
    /\ MainUnchanged
    /\ UNCHANGED <<handle, distribution, running>>

deleteInterface ==
    /\ main = "deleted"
    /\ main' = "gone"
    /\ MainUnchanged
    /\ UNCHANGED <<handle, distribution, running>>

starting == setMaxFramesAndBytes \/ startup \/ startDistribution
stopping == closeInterface \/ joinDistribution \/ prepareshutdown
            \/ deleteBuffer \/ deleteInterface

Next == \/ starting \/ stopDistribution \/ stopping
        \/ readThreadFunction \/ distribThreadFunction

\* Every thread gets its turn, and the time of every recorded frame comes;
\* whether the program is stopped at all is open.
Spec == /\ Init /\ [][Next]_vars
        /\ WF_vars(starting) /\ WF_vars(stopping)
        /\ WF_vars(readThreadFunction) /\ WF_vars(distribThreadFunction)

-----------------------------------------------------------------------------
Held(thread, pcs) == IF thread.pc \in pcs THEN <<thread.frame>> ELSE <<>>

Size(frames) ==
    LET sum[n \in 0..Len(frames)] == IF n = 0 THEN 0 ELSE sum[n - 1] + frames[n].size
    IN  sum[Len(frames)]

\* Frames that the counters count: those in the queue, the one counted and not
\* yet queued, the one taken out and not yet discounted.
Counted == Held(distribution, {"popped"}) \o m_frameQueue
           \o Held(reader, {"queue"})

\* m_currentFrames and m_currentBytes count the frames between the counting
\* block of the reader and the discounting block of next(), whatever the two
\* threads do in between: the unsigned counters are never decremented below
\* zero, although they and the queue are guarded by different mutexes.
\* (Nothing is said once the reader has used freed memory.)
FramesCounted ==
    /\ TypeOK
    /\ faults = {} => current = [frames |-> Len(Counted), bytes |-> Size(Counted)]

\* No frame is lost, duplicated or overtaken between the interface and the
\* channels: what the channels have seen, followed by what is on its way, are
\* the frames in the order of their arrival.
FramesInOrder ==
    LET onTheWay == Held(distribution, {"popped", "sleep", "have"})
                    \o m_frameQueue \o Held(reader, {"count", "queue"})
        all == delivered \o onTheWay
    IN  faults = {} /\ dropped.frames = 0 => /\ Len(all) = arrived
                                             /\ \A i \in DOMAIN all : all[i].no = i

\* A frame in the queue reaches the channels unless the program is stopped.
QueuedIsDelivered ==
    \A n \in 1..LastFrame :
        (\E i \in DOMAIN m_frameQueue : m_frameQueue[i].no = n)
            ~> (main # "running" \/ \E i \in DOMAIN delivered : delivered[i].no = n)

\* Shutting down ends: the main thread gets m_distributionMutex for close(), and
\* the distribution thread leaves its loop, be it in a read, between the blocks
\* of next() or in the channels.
ShutdownEnds == main = "stopping" ~> main = "gone"

=============================================================================
