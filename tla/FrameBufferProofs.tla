------------------------ MODULE FrameBufferProofs ------------------------
(***************************************************************************)
(* Proofs about FrameBuffer, for any number of frames, any sizes and any   *)
(* limits, and every interleaving of the three threads.                    *)
(*                                                                         *)
(* The counters and the queue have different mutexes, so neither block of  *)
(* a thread keeps the two in step: the proofs follow the frame in the hand *)
(* of a thread (Held).                                                     *)
(***************************************************************************)
EXTENDS FrameBuffer, SequenceTheorems, WellFoundedInduction, TLAPS

\* A thread has a frame where it needs one, a trace file needs neither queue nor
\* reader, and no thread runs before it is started.
ThreadInv ==
    /\ reader.pc \in {"count", "queue"} => reader.frame \in Frame
    /\ distribution.pc \in {"popped", "sleep", "have"} => distribution.frame \in Frame
    /\ ~online => m_frameQueue = <<>> /\ reader.pc = "off"
    /\ main \in {"new", "limited"} => reader.pc = "off"
    /\ main \in {"new", "limited", "buffering"} => distribution.pc = "off"
    /\ dropped.frames >= 0

IInv == FramesCounted /\ ThreadInv /\ FramesInOrder

\* The parts of Counted and of the frames that are on their way.
Popped == Held(distribution, {"popped"})
Taken == Held(distribution, {"popped", "sleep", "have"})
Claimed == Held(reader, {"queue"})
InHand == Held(reader, {"count", "queue"})
All == delivered \o ((Taken \o m_frameQueue) \o InHand)

InOrder(s, n) == Len(s) = n /\ \A i \in DOMAIN s : s[i].no = i

-----------------------------------------------------------------------------
(* Sizes of sequences of frames.                                           *)

\* A set of numbers that has 0 and, with a number, its successor, has them all:
\* the least number outside would be a successor of one inside.
LEMMA SetInduction ==
    ASSUME NEW T, 0 \in T, \A n \in Nat : n \in T => n + 1 \in T
    PROVE  Nat \subseteq T
<1> DEFINE Less == OpToRel(<, Nat)
<1> SUFFICES ASSUME Nat \ T # {} PROVE FALSE
  OBVIOUS
<1>1. PICK m \in Nat \ T : \A y \in Nat \ T : ~(<<y, m>> \in Less)
  <2> HIDE DEF Less
  <2>1. IsWellFoundedOn(Less, Nat)
    BY NatLessThanWellFounded DEF Less
  <2> QED
    BY Zenon, <2>1, WFMin
<1>2. m - 1 \in Nat /\ m - 1 \notin T
  <2>1. m # 0 /\ m \in Nat
    BY <1>1
  <2>2. m - 1 \in Nat /\ (m - 1) + 1 = m
    BY <2>1
  <2> QED
    BY <1>1, <2>2
<1>3. <<m - 1, m>> \in Less
  BY <1>1, <1>2 DEF OpToRel
<1> QED
  BY <1>1, <1>2, <1>3

\* The running sum that Size defines, up to frame n.
IsSum(f, s, n) ==
    f = [k \in 0..n |-> IF k = 0 THEN 0 ELSE f[k - 1] + s[k].size]

\* There is a running sum for every sequence.
LEMMA SumExists ==
    ASSUME NEW s, NEW n \in Nat
    PROVE  \E f : IsSum(f, s, n)
<1> DEFINE T == {m \in Nat : \E f : IsSum(f, s, m)}
<1>1. 0 \in T
  <2> DEFINE f == [k \in 0..0 |-> 0]
  <2>1. IsSum(f, s, 0)
    BY DEF IsSum
  <2> QED
    BY <2>1
<1>2. ASSUME NEW m \in Nat, m \in T PROVE m + 1 \in T
  <2>1. PICK f : IsSum(f, s, m)
    BY <1>2
  <2> DEFINE g == [k \in 0..(m + 1) |-> IF k = 0 THEN 0 ELSE f[k - 1] + s[k].size]
  <2>2. \A k \in 0..m : g[k] = f[k]
    BY <2>1 DEF IsSum
  <2>3. \A k \in 0..(m + 1) : k # 0 => k - 1 \in 0..m
    OBVIOUS
  <2>4. g = [k \in 0..(m + 1) |-> IF k = 0 THEN 0 ELSE g[k - 1] + s[k].size]
    <3>1. \A k \in 0..(m + 1) : k # 0 => g[k - 1] = f[k - 1]
      BY Zenon, <2>2, <2>3
    <3> QED
      BY Zenon, <3>1
  <2>5. IsSum(g, s, m + 1)
    BY <2>4 DEF IsSum
  <2> QED
    BY <2>5
<1> HIDE DEF T
<1>3. Nat \subseteq T
  BY <1>1, <1>2, SetInduction
<1> QED
  BY <1>3 DEF T

\* Size is the last value of a running sum, whose steps are the sizes.
LEMMA SizeOf ==
    ASSUME NEW s \in Seq(Frame)
    PROVE  \E f : /\ Size(s) = f[Len(s)] /\ f[0] = 0
                  /\ \A k \in 0..(Len(s) - 1) : f[k + 1] = f[k] + s[k + 1].size
<1>1. Len(s) \in Nat
  BY LenProperties
<1> DEFINE f == CHOOSE f : IsSum(f, s, Len(s))
<1>2. IsSum(f, s, Len(s))
  BY <1>1, SumExists
<1>3. Size(s) = f[Len(s)]
  BY DEF Size, IsSum
<1> HIDE DEF f
<1>4. f[0] = 0
  BY <1>1, <1>2 DEF IsSum
<1>5. ASSUME NEW k \in 0..(Len(s) - 1)
      PROVE  f[k + 1] = f[k] + s[k + 1].size
  <2>1. k + 1 \in 0..Len(s) /\ k + 1 # 0 /\ (k + 1) - 1 = k
    BY <1>1
  <2> QED
    BY <1>2, <2>1 DEF IsSum
<1> QED
  BY <1>3, <1>4, <1>5

\* The size of a frame is a number.
LEMMA FrameSize == ASSUME NEW f \in Frame PROVE f.size \in Nat /\ f.no \in Nat
BY Zenon, FrameBufferAssumption DEF Frame

\* A frame at the end adds its size; the size of frames is a number.
LEMMA SizeAppend ==
    ASSUME NEW s \in Seq(Frame), NEW x \in Frame
    PROVE  Size(s) \in Nat /\ Size(Append(s, x)) = Size(s) + x.size
<1> DEFINE l == Len(s)
           t == Append(s, x)
<1>1. /\ l \in Nat /\ t \in Seq(Frame) /\ Len(t) = l + 1
      /\ \A k \in 1..l : t[k] = s[k] /\ s[k] \in Frame
      /\ t[l + 1] = x
  BY LenProperties, AppendProperties, ElementOfSeq
<1>2. PICK f : /\ Size(s) = f[l] /\ f[0] = 0
               /\ \A k \in 0..(l - 1) : f[k + 1] = f[k] + s[k + 1].size
  BY SizeOf
<1>3. PICK g : /\ Size(t) = g[l + 1] /\ g[0] = 0
               /\ \A k \in 0..((l + 1) - 1) : g[k + 1] = g[k] + t[k + 1].size
  <2> HIDE DEF l, t
  <2>1. t \in Seq(Frame) /\ Len(t) = l + 1
    BY <1>1
  <2> QED
    BY Zenon, <2>1, SizeOf
<1> HIDE DEF l, t
<1> DEFINE T == {k \in Nat : k <= l => f[k] \in Nat /\ g[k] = f[k]}
<1>4. 0 \in T
  BY <1>2, <1>3
<1>5. ASSUME NEW k \in Nat, k \in T PROVE k + 1 \in T
  <2> SUFFICES ASSUME k + 1 <= l PROVE f[k + 1] \in Nat /\ g[k + 1] = f[k + 1]
    OBVIOUS
  <2>1. /\ f[k] \in Nat /\ g[k] = f[k]
        /\ k + 1 \in 1..l /\ k \in 0..(l - 1) /\ k \in 0..((l + 1) - 1)
    BY <1>1, <1>5
  <2>2. t[k + 1] = s[k + 1] /\ s[k + 1].size \in Nat
    BY <1>1, <2>1, FrameSize
  <2> QED
    BY <1>2, <1>3, <2>1, <2>2
<1>6. l \in T
  <2> HIDE DEF T
  <2> QED
    BY SMTT(30), <1>1, <1>4, <1>5, SetInduction
<1>7. g[l + 1] = g[l] + x.size
  BY <1>1, <1>3
<1> QED
  BY <1>1, <1>2, <1>3, <1>6, <1>7 DEF t

\* So does a frame at the front.
LEMMA SizePrepend ==
    ASSUME NEW s \in Seq(Frame), NEW x \in Frame
    PROVE  Size(<<x>> \o s) = Size(s) + x.size
<1> DEFINE l == Len(s)
           t == <<x>> \o s
<1>1. /\ l \in Nat /\ t \in Seq(Frame) /\ Len(t) = l + 1
      /\ \A k \in 1..l : t[k + 1] = s[k] /\ s[k] \in Frame
      /\ t[1] = x
  <2>1. <<x>> \in Seq(Frame) /\ Len(<<x>>) = 1 /\ <<x>>[1] = x /\ l \in Nat
    BY LenProperties
  <2>2. /\ t \in Seq(Frame) /\ Len(t) = l + 1
        /\ \A i \in 1..(1 + l) : t[i] = IF i <= 1 THEN <<x>>[i] ELSE s[i - 1]
    BY <2>1, ConcatProperties
  <2> HIDE DEF t
  <2>3. t[1] = x
    BY <2>1, <2>2
  <2>4. ASSUME NEW k \in 1..l PROVE t[k + 1] = s[k]
    <3>1. k + 1 \in 1..(1 + l) /\ ~(k + 1 <= 1) /\ (k + 1) - 1 = k
      BY <2>1
    <3> QED
      BY <2>2, <3>1
  <2> QED
    BY <2>1, <2>2, <2>3, <2>4, ElementOfSeq
<1>2. PICK f : /\ Size(s) = f[l] /\ f[0] = 0
               /\ \A k \in 0..(l - 1) : f[k + 1] = f[k] + s[k + 1].size
  BY SizeOf
<1>3. PICK g : /\ Size(t) = g[l + 1] /\ g[0] = 0
               /\ \A k \in 0..((l + 1) - 1) : g[k + 1] = g[k] + t[k + 1].size
  <2> HIDE DEF l, t
  <2>1. t \in Seq(Frame) /\ Len(t) = l + 1
    BY <1>1
  <2> QED
    BY Zenon, <2>1, SizeOf
<1> HIDE DEF l, t
<1> DEFINE T == {k \in Nat : k <= l => f[k] \in Nat /\ g[k + 1] = f[k] + x.size}
<1>4. 0 \in T
  <2>1. g[0 + 1] = g[0] + t[0 + 1].size
    BY <1>1, <1>3
  <2>2. 0 + 1 = 1 /\ x.size \in Nat
    BY FrameSize
  <2>3. g[0 + 1] = f[0] + x.size /\ f[0] \in Nat
    BY <1>1, <1>2, <1>3, <2>1, <2>2
  <2> QED
    BY <2>3
<1>5. ASSUME NEW k \in Nat, k \in T PROVE k + 1 \in T
  <2> SUFFICES ASSUME k + 1 <= l
               PROVE  f[k + 1] \in Nat /\ g[(k + 1) + 1] = f[k + 1] + x.size
    OBVIOUS
  <2>1. /\ f[k] \in Nat /\ g[k + 1] = f[k] + x.size
        /\ k + 1 \in 1..l /\ k \in 0..(l - 1) /\ k + 1 \in 0..((l + 1) - 1)
    BY <1>1, <1>5
  <2>2. t[(k + 1) + 1] = s[k + 1] /\ s[k + 1].size \in Nat /\ x.size \in Nat
    BY SMTT(30), <1>1, <2>1, FrameSize
  <2>3. g[(k + 1) + 1] = g[k + 1] + t[(k + 1) + 1].size
    BY <1>3, <2>1
  <2>4. f[k + 1] = f[k] + s[k + 1].size
    BY <1>2, <2>1
  <2> QED
    BY <2>1, <2>2, <2>3, <2>4
<1>6. l \in T
  <2> HIDE DEF T
  <2> QED
    BY SMTT(30), <1>1, <1>4, <1>5, SetInduction
<1> QED
  BY <1>1, <1>2, <1>3, <1>6 DEF t

-----------------------------------------------------------------------------
(* Frames that change their place.                                         *)

\* The reader puts its frame into the queue.
LEMMA QueueFrame ==
    ASSUME NEW d \in Seq(Frame), NEW q \in Seq(Frame), NEW x \in Frame
    PROVE  (d \o Append(q, x)) \o <<>> = (d \o q) \o <<x>>
<1>1. <<x>> \in Seq(Frame) /\ Append(q, x) \in Seq(Frame) /\ Append(q, x) = q \o <<x>>
  BY AppendIsConcat, AppendProperties
<1>2. d \o Append(q, x) \in Seq(Frame)
  BY <1>1, ConcatProperties
<1>3. (d \o Append(q, x)) \o <<>> = d \o Append(q, x)
  BY <1>2, ConcatEmptySeq
<1>4. d \o (q \o <<x>>) = (d \o q) \o <<x>>
  BY <1>1, ConcatAssociative
<1> QED
  BY <1>1, <1>3, <1>4, Zenon

\* The distribution thread takes the first frame of the queue.
LEMMA PopFrame ==
    ASSUME NEW q \in Seq(Frame), q # <<>>
    PROVE  /\ Head(q) \in Frame /\ Tail(q) \in Seq(Frame)
           /\ <<>> \o q = <<Head(q)>> \o Tail(q)
<1>1. /\ Head(q) \in Frame /\ Tail(q) \in Seq(Frame) /\ Len(Tail(q)) = Len(q) - 1
      /\ \A i \in 1..Len(Tail(q)) : Tail(q)[i] = q[i + 1]
  BY HeadTailProperties
<1>2. Len(q) \in Nat \ {0} /\ Head(q) = q[1]
  BY EmptySeq
<1> DEFINE x == Head(q)
           t == Tail(q)
           u == <<x>> \o t
<1>3. <<x>> \in Seq(Frame) /\ Len(<<x>>) = 1 /\ <<x>>[1] = x
  BY <1>1
<1>4. /\ u \in Seq(Frame) /\ Len(u) = 1 + Len(t)
      /\ \A i \in 1..(1 + Len(t)) : u[i] = IF i <= 1 THEN <<x>>[i] ELSE t[i - 1]
  BY <1>1, <1>3, ConcatProperties
<1> HIDE DEF x, t, u
<1>5. Len(u) = Len(q)
  BY <1>1, <1>2, <1>4 DEF t
<1>6. ASSUME NEW i \in 1..Len(q) PROVE u[i] = q[i]
  <2>1. i \in 1..(1 + Len(t)) /\ i \in Nat \ {0}
    BY <1>1, <1>2 DEF t
  <2>2. CASE i = 1
    BY <1>2, <1>3, <1>4, <2>1, <2>2 DEF x
  <2>3. CASE i # 1
    <3>1. i - 1 \in 1..Len(t) /\ (i - 1) + 1 = i
      BY <1>1, <1>2, <2>1, <2>3 DEF t
    <3>2. t[i - 1] = q[i]
      BY <1>1, <3>1 DEF t
    <3> QED
      BY <1>4, <2>1, <2>3, <3>2
  <2> QED
    BY <2>2, <2>3
<1>7. u = q
  BY <1>4, <1>5, <1>6, SeqEqual
<1>8. <<>> \o q = q
  BY ConcatEmptySeq
<1> QED
  BY <1>1, <1>7, <1>8, Zenon DEF u, x, t

\* The channels get the frame that the distribution thread has.
LEMMA DeliverFrame ==
    ASSUME NEW d \in Seq(Frame), NEW q \in Seq(Frame), NEW r \in Seq(Frame),
           NEW x \in Frame
    PROVE  Append(d, x) \o ((<<>> \o q) \o r) = d \o ((<<x>> \o q) \o r)
<1>1. <<x>> \in Seq(Frame) /\ Append(d, x) = d \o <<x>>
  BY AppendIsConcat
<1>2. <<>> \o q = q /\ q \o r \in Seq(Frame)
  BY ConcatEmptySeq, ConcatProperties
<1>3. (<<x>> \o q) \o r = <<x>> \o (q \o r)
  BY <1>1, ConcatAssociative
<1>4. (d \o <<x>>) \o (q \o r) = d \o (<<x>> \o (q \o r))
  BY SMTT(30), <1>1, <1>2, ConcatAssociative
<1> QED
  BY <1>1, <1>2, <1>3, <1>4, Zenon

\* A frame that arrives in the hand of the reader is the last of all.
LEMMA AddFrame ==
    ASSUME NEW d \in Seq(Frame), NEW s \in Seq(Frame), NEW x \in Frame
    PROVE  /\ s \o <<>> = s /\ s \o <<x>> = Append(s, x)
           /\ d \o (s \o <<>>) \in Seq(Frame)
           /\ d \o (s \o <<x>>) = Append(d \o (s \o <<>>), x)
<1>1. <<x>> \in Seq(Frame) /\ Append(s, x) = s \o <<x>>
  BY AppendIsConcat
<1>2. s \o <<>> = s /\ d \o s \in Seq(Frame)
  BY ConcatEmptySeq, ConcatProperties
<1>3. Append(d \o s, x) = (d \o s) \o <<x>>
  BY <1>2, AppendIsConcat
<1>4. (d \o s) \o <<x>> = d \o (s \o <<x>>)
  BY SMTT(30), <1>1, ConcatAssociative
<1> QED
  BY <1>1, <1>2, <1>3, <1>4, Zenon

\* A frame with the next number keeps frames in order.
LEMMA InOrderAppend ==
    ASSUME NEW s \in Seq(Frame), NEW n \in Nat, NEW x \in Frame,
           InOrder(s, n), x.no = n + 1
    PROVE  InOrder(Append(s, x), n + 1)
<1>1. /\ Append(s, x) \in Seq(Frame) /\ Len(Append(s, x)) = Len(s) + 1
      /\ \A i \in 1..Len(s) : Append(s, x)[i] = s[i]
      /\ Append(s, x)[Len(s) + 1] = x
  BY AppendProperties
<1>2. DOMAIN Append(s, x) = 1..(Len(s) + 1) /\ DOMAIN s = 1..Len(s) /\ Len(s) = n
  BY <1>1, LenProperties DEF InOrder
<1> QED
  BY <1>1, <1>2 DEF InOrder

-----------------------------------------------------------------------------
(* The invariant.                                                          *)

\* The invariants in terms of the parts.
LEMMA Parts ==
    /\ Counted = (Popped \o m_frameQueue) \o Claimed
    /\ FramesInOrder <=> (faults = {} /\ dropped.frames = 0 => InOrder(All, arrived))
    /\ Counted' = (Popped' \o m_frameQueue') \o Claimed'
    /\ FramesInOrder' <=> (faults' = {} /\ dropped'.frames = 0 => InOrder(All', arrived'))
BY DEF Counted, Popped, Claimed, FramesInOrder, All, Taken, InHand, InOrder

\* What a thread holds is a sequence of at most one frame.
LEMMA PartsType ==
    ASSUME TypeOK, ThreadInv
    PROVE  /\ Popped \in Seq(Frame) /\ Taken \in Seq(Frame)
           /\ Claimed \in Seq(Frame) /\ InHand \in Seq(Frame)
<1>1. <<>> \in Seq(Frame) /\ \A x \in Frame : <<x>> \in Seq(Frame)
  BY EmptySeq
<1> QED
  BY <1>1 DEF ThreadInv, Popped, Taken, Claimed, InHand, Held

\* A thread that does not move holds what it held.
LEMMA HeldKept ==
    /\ reader' = reader => Claimed' = Claimed /\ InHand' = InHand
    /\ distribution' = distribution => Popped' = Popped /\ Taken' = Taken
BY DEF Popped, Taken, Claimed, InHand, Held

\* Where a thread holds no frame.
LEMMA HeldNone ==
    /\ reader.pc \notin {"count", "queue"} => Claimed = <<>> /\ InHand = <<>>
    /\ distribution.pc \notin {"popped", "sleep", "have"} => Popped = <<>> /\ Taken = <<>>
BY DEF Popped, Taken, Claimed, InHand, Held

\* A step that moves no frame keeps the two properties.
LEMMA NoFrameMoves ==
    ASSUME IInv, TypeOK', ThreadInv',
           faults \subseteq faults',
           UNCHANGED <<m_frameQueue, current, dropped, delivered, arrived>>,
           faults' = {} =>
               /\ Popped' = Popped /\ Taken' = Taken
               /\ Claimed' = Claimed /\ InHand' = InHand
    PROVE  IInv'
<1>1. FramesCounted'
  <2>1. SUFFICES ASSUME faults' = {}
                 PROVE  (current = [frames |-> Len(Counted), bytes |-> Size(Counted)])'
    BY DEF FramesCounted
  <2>2. Counted' = Counted
    BY <2>1, Parts
  <2> QED
    BY <2>1, <2>2 DEF IInv, FramesCounted
<1>2. FramesInOrder'
  <2>1. SUFFICES ASSUME faults' = {}, dropped'.frames = 0
                 PROVE  InOrder(All', arrived')
    BY Parts
  <2>2. All' = All
    BY <2>1 DEF All
  <2> QED
    BY <2>1, <2>2, Parts DEF IInv, InOrder
<1> QED
  BY <1>1, <1>2 DEF IInv

\* No thread runs and no frame is there.
LEMMA InitIInv == Init => IInv
<1> SUFFICES ASSUME Init PROVE IInv
  OBVIOUS
<1>1. TypeOK
  BY EmptySeq, FrameBufferAssumption DEF Init, TypeOK, Counter, At
<1>2. ThreadInv
  BY DEF Init, ThreadInv, At
<1>3. /\ Popped = <<>> /\ Taken = <<>> /\ Claimed = <<>> /\ InHand = <<>>
  BY HeldNone DEF Init, At
<1>4. <<>> \o <<>> = <<>> /\ Len(<<>>) = 0
  BY EmptySeq, ConcatEmptySeq
<1>5. Counted = <<>> /\ All = <<>>
  BY <1>3, <1>4, Parts DEF All, Init
<1>6. Size(<<>>) = 0
  BY Zenon, <1>4, SizeOf, EmptySeq
<1>7. FramesCounted
  BY <1>1, <1>4, <1>5, <1>6 DEF FramesCounted, Init
<1>8. InOrder(All, arrived)
  BY <1>4, <1>5 DEF InOrder, Init
<1> QED
  BY <1>2, <1>7, <1>8, Parts DEF IInv

\* The main thread starts and stops the others; it touches no frame.
LEMMA MainIInv ==
    ASSUME IInv, starting \/ stopDistribution \/ stopping
    PROVE  IInv'
<1>1. TypeOK /\ ThreadInv
  BY DEF IInv, FramesCounted
<1>2. CASE setMaxFramesAndBytes
  <2>1. TypeOK' /\ ThreadInv'
    BY <1>1, <1>2, FrameBufferAssumption
       DEF setMaxFramesAndBytes, setLimit, TypeOK, ThreadInv
  <2> QED
    BY <1>2, <2>1, HeldKept, NoFrameMoves DEF setMaxFramesAndBytes
<1>3. CASE startup
  <2>1. TypeOK' /\ ThreadInv'
    BY <1>1, <1>3 DEF startup, TypeOK, ThreadInv, At
  <2>2. reader.pc = "off" /\ reader'.pc \notin {"count", "queue"}
    BY <1>1, <1>3 DEF startup, ThreadInv, At
  <2>3. Claimed' = Claimed /\ InHand' = InHand
    BY <2>2 DEF Claimed, InHand, Held
  <2> QED
    BY <1>3, <2>1, <2>3, HeldKept, NoFrameMoves DEF startup
<1>4. CASE startDistribution
  <2>1. TypeOK' /\ ThreadInv'
    BY Zenon, <1>1, <1>4 DEF startDistribution, TypeOK, ThreadInv, At
  <2>2. /\ distribution.pc = "off"
        /\ distribution'.pc \notin {"popped", "sleep", "have"}
    BY <1>1, <1>4 DEF startDistribution, ThreadInv, At
  <2>3. Popped' = Popped /\ Taken' = Taken
    BY <2>2 DEF Popped, Taken, Held
  <2> QED
    BY <1>4, <2>1, <2>3, HeldKept, NoFrameMoves DEF startDistribution
<1>5. CASE stopDistribution \/ stopping
  <2>1. /\ MainUnchanged /\ distribution' = distribution
        /\ main' \in {"stopping", "closed", "joined", "prepared", "deleted", "gone"}
        /\ handle' \in {"open", "closed"}
    BY <1>1, <1>5 DEF stopDistribution, stopping, closeInterface, joinDistribution,
                      prepareshutdown, deleteBuffer, deleteInterface, TypeOK
  <2>2. running' \in [reader : BOOLEAN, distribution : BOOLEAN]
    BY Zenon, <1>1, <1>5 DEF stopDistribution, stopping, closeInterface, joinDistribution,
                      prepareshutdown, deleteBuffer, deleteInterface, TypeOK
  <2>3. TypeOK'
    BY <1>1, <2>1, <2>2 DEF MainUnchanged, TypeOK
  <2>4. ThreadInv'
    BY <1>1, <2>1 DEF MainUnchanged, ThreadInv
  <2> QED
    BY <2>1, <2>3, <2>4, HeldKept, NoFrameMoves DEF MainUnchanged
<1> QED
  BY <1>2, <1>3, <1>4, <1>5 DEF starting

\* What the reader holds at its two places with a frame.
LEMMA HeldByReader ==
    /\ reader.pc = "count" => Claimed = <<>> /\ InHand = <<reader.frame>>
    /\ reader.pc = "queue" => Claimed = <<reader.frame>> /\ InHand = <<reader.frame>>
    /\ reader.pc \notin {"count", "queue"} => Claimed = <<>> /\ InHand = <<>>
    /\ reader'.pc = "count" => Claimed' = <<>> /\ InHand' = <<reader'.frame>>
    /\ reader'.pc = "queue" => Claimed' = <<reader'.frame>> /\ InHand' = <<reader'.frame>>
    /\ reader'.pc \notin {"count", "queue"} => Claimed' = <<>> /\ InHand' = <<>>
BY DEF Claimed, InHand, Held

\* A fault: nothing is claimed afterwards.
LEMMA ReaderFaultIInv == ASSUME IInv, ReaderFault PROVE IInv'
<1>1. TypeOK /\ ThreadInv
  BY DEF IInv, FramesCounted
<1>2. reader' = At("ended", NoFrame) /\ faults' # {} /\ faults' \subseteq {"reader", "distribution"}
  BY <1>1 DEF ReaderFault, TypeOK
<1>3. online /\ UNCHANGED <<m_frameQueue, current, dropped, delivered, arrived, distribution>>
  BY <1>1 DEF ReaderFault, ReaderUnchanged, ThreadInv
<1>4. TypeOK'
  BY <1>1, <1>2, <1>3 DEF ReaderFault, ReaderUnchanged, TypeOK, At
<1>5. main' \notin {"new", "limited"}
  BY DEF ReaderFault, ReaderUnchanged, Deleted
<1>6. ThreadInv'
  BY <1>1, <1>2, <1>3, <1>5 DEF ReaderFault, ReaderUnchanged, ThreadInv, At
<1> QED
  BY <1>2, <1>3, <1>4, <1>6, NoFrameMoves DEF ReaderFault

\* The test of the loop.
LEMMA ReaderLoopIInv == ASSUME IInv, ReaderLoop PROVE IInv'
<1>1. TypeOK /\ ThreadInv
  BY DEF IInv, FramesCounted
<1>2. /\ reader.pc = "loop" /\ reader' \in {At("ended", NoFrame), At("read", NoFrame)}
      /\ ReaderUnchanged
      /\ UNCHANGED <<arrived, m_frameQueue, current, dropped, faults>>
  BY DEF ReaderLoop
<1>3. reader'.pc \notin {"count", "queue"}
  BY <1>2 DEF At
<1>4. TypeOK'
  BY <1>1, <1>2 DEF ReaderUnchanged, TypeOK, At
<1>5. ThreadInv'
  BY <1>1, <1>2, <1>3 DEF ReaderUnchanged, ThreadInv
<1>6. UNCHANGED <<delivered, distribution>>
  BY <1>2 DEF ReaderUnchanged
<1> QED
  BY <1>2, <1>3, <1>4, <1>5, <1>6, HeldByReader, HeldKept, NoFrameMoves

\* A frame arrives with the next number, or none does.
LEMMA ReaderReadsIInv == ASSUME IInv, ReaderReads PROVE IInv'
<1>1. TypeOK /\ ThreadInv
  BY DEF IInv, FramesCounted
<1>2. /\ reader.pc = "read" /\ ReaderUnchanged
      /\ UNCHANGED <<m_frameQueue, current, dropped>>
  BY DEF ReaderReads
<1>3. UNCHANGED <<delivered, distribution>> /\ online
  BY <1>1, <1>2 DEF ReaderUnchanged, ThreadInv
<1>4. main' \notin {"new", "limited"}
  BY <1>1, <1>2 DEF ReaderUnchanged, ThreadInv
<1>5. ASSUME NEW size \in Sizes, arrived' = arrived + 1, faults' = faults,
             reader' = At("count", [no |-> arrived + 1, size |-> size])
      PROVE  IInv'
  <2> DEFINE x == [no |-> arrived + 1, size |-> size]
  <2>1. x \in Frame /\ x.no = arrived + 1 /\ arrived \in Nat
    BY <1>1, <1>5 DEF Frame, TypeOK
  <2>2. reader'.pc = "count" /\ reader'.frame = x /\ reader' = At("count", x)
    BY <1>5 DEF At
  <2> HIDE DEF x
  <2>3. TypeOK'
    BY <1>1, <1>2, <1>5, <2>1, <2>2 DEF ReaderUnchanged, TypeOK, At
  <2>4. ThreadInv'
    BY <1>1, <1>2, <1>3, <1>4, <2>1, <2>2 DEF ReaderUnchanged, ThreadInv
  <2>5. /\ Claimed' = Claimed /\ InHand = <<>> /\ InHand' = <<x>>
        /\ Popped' = Popped /\ Taken' = Taken
    BY <1>2, <1>3, <2>2, HeldByReader, HeldKept
  <2>6. FramesCounted'
    <3>1. Counted' = Counted
      BY <1>2, <2>5, Parts
    <3> QED
      BY <1>2, <1>5, <2>3, <3>1 DEF FramesCounted, IInv
  <2>7. FramesInOrder'
    <3>1. SUFFICES ASSUME faults' = {}, dropped'.frames = 0
                   PROVE  InOrder(All', arrived')
      BY Parts
    <3>2. InOrder(All, arrived)
      BY <1>2, <1>5, <3>1, Parts DEF IInv
    <3>3. delivered \in Seq(Frame) /\ Taken \o m_frameQueue \in Seq(Frame)
      BY <1>1, PartsType, ConcatProperties DEF TypeOK
    <3>4. All \in Seq(Frame) /\ All' = Append(All, x)
      BY SMTT(30), <1>2, <1>3, <2>1, <2>5, <3>3, AddFrame DEF All
    <3> QED
      BY <1>5, <2>1, <3>2, <3>4, InOrderAppend
  <2> QED
    BY <2>4, <2>6, <2>7 DEF IInv
<1>6. ASSUME NEW pc \in {"loop", "ended"}, reader' = At(pc, NoFrame), arrived' = arrived,
             faults' \in {faults, faults \cup {"reader"}}
      PROVE  IInv'
  <2>1. reader'.pc \notin {"count", "queue"}
    BY <1>6 DEF At
  <2>2. TypeOK'
    BY <1>1, <1>2, <1>6 DEF ReaderUnchanged, TypeOK, At
  <2>3. ThreadInv'
    BY <1>1, <1>2, <1>3, <1>4, <2>1 DEF ReaderUnchanged, ThreadInv
  <2> QED
    BY <1>2, <1>3, <1>6, <2>1, <2>2, <2>3, HeldByReader, HeldKept, NoFrameMoves
<1> QED
  BY Zenon, <1>5, <1>6 DEF ReaderReads

\* The frame is counted in both counters at once, or dropped.
LEMMA ReaderCountsIInv == ASSUME IInv, ReaderCounts PROVE IInv'
<1> DEFINE x == reader.frame
<1>1. TypeOK /\ ThreadInv
  BY DEF IInv, FramesCounted
<1>2. /\ reader.pc = "count" /\ ReaderUnchanged
      /\ UNCHANGED <<arrived, m_frameQueue, faults>>
  BY DEF ReaderCounts
<1>3. x \in Frame /\ x.size \in Nat
  BY <1>1, <1>2, FrameSize DEF ThreadInv
<1>4. UNCHANGED <<delivered, distribution>> /\ Popped' = Popped /\ Taken' = Taken
  BY <1>2, HeldKept DEF ReaderUnchanged
<1>5. Claimed = <<>> /\ InHand = <<x>>
  BY <1>2, HeldByReader
<1>6. CASE acceptFrame(x)
  <2>1. /\ current' = Plus(current, x) /\ reader' = At("queue", x) /\ dropped' = dropped
    BY <1>6 DEF ReaderCounts
  <2>2. reader'.pc = "queue" /\ reader'.frame = x
    BY <2>1 DEF At
  <2>3. Claimed' = <<x>> /\ InHand' = InHand
    BY <1>5, <2>2, HeldByReader
  <2> HIDE DEF x
  <2>4. TypeOK'
    BY SMTT(30), <1>1, <1>2, <1>3, <2>1 DEF ReaderUnchanged, TypeOK, At, Plus, Counter
  <2>5. ThreadInv'
    BY <1>1, <1>2, <1>3, <2>1, <2>2 DEF ReaderUnchanged, ThreadInv
  <2>6. FramesCounted'
    <3>1. SUFFICES ASSUME faults' = {}
                   PROVE  current' = [frames |-> Len(Counted'), bytes |-> Size(Counted')]
      BY <2>4 DEF FramesCounted
    <3>2. current = [frames |-> Len(Counted), bytes |-> Size(Counted)]
      BY <1>2, <3>1 DEF IInv, FramesCounted
    <3>3. Popped \o m_frameQueue \in Seq(Frame)
      BY <1>1, PartsType, ConcatProperties DEF TypeOK
    <3>4. Counted \in Seq(Frame) /\ Counted' = Append(Counted, x)
      BY <1>2, <1>3, <1>4, <1>5, <2>3, <3>3, Parts, AddFrame
    <3>5. Len(Counted') = Len(Counted) + 1 /\ Size(Counted') = Size(Counted) + x.size
      BY <1>3, <3>4, SizeAppend, AppendProperties
    <3> QED
      BY <2>1, <3>2, <3>5 DEF Plus
  <2>7. FramesInOrder'
    <3>1. All' = All
      BY <1>2, <1>4, <2>3 DEF All
    <3> QED
      BY <1>2, <2>1, <3>1, Parts DEF IInv
  <2> QED
    BY <2>5, <2>6, <2>7 DEF IInv
<1>7. CASE ~acceptFrame(x)
  <2>1. /\ dropped' = Plus(dropped, x) /\ reader' = At("loop", NoFrame)
        /\ current' = current
    BY <1>7 DEF ReaderCounts
  <2>2. reader'.pc = "loop"
    BY <2>1 DEF At
  <2>3. Claimed' = Claimed
    BY <1>5, <2>2, HeldByReader
  <2>4. dropped' \in Counter /\ dropped'.frames >= 0 /\ dropped'.frames # 0
    BY SMTT(30), <1>1, <1>3, <2>1 DEF TypeOK, ThreadInv, Counter, Plus
  <2>5. TypeOK'
    BY <1>1, <1>2, <2>1, <2>4 DEF ReaderUnchanged, TypeOK, At
  <2>6. ThreadInv'
    BY <1>1, <1>2, <2>2, <2>4 DEF ReaderUnchanged, ThreadInv
  <2>7. FramesCounted'
    <3>1. Counted' = Counted
      BY <1>2, <1>4, <2>3, Parts
    <3> QED
      BY <1>2, <2>1, <2>5, <3>1 DEF FramesCounted, IInv
  <2>8. FramesInOrder'
    BY <2>4, Parts
  <2> QED
    BY <2>6, <2>7, <2>8 DEF IInv
<1> QED
  BY <1>6, <1>7

\* The frame goes from the hand of the reader to the end of the queue.
LEMMA ReaderQueuesIInv == ASSUME IInv, ReaderQueues PROVE IInv'
<1> DEFINE x == reader.frame
<1>1. TypeOK /\ ThreadInv
  BY DEF IInv, FramesCounted
<1>2. /\ reader.pc = "queue" /\ ReaderUnchanged
      /\ m_frameQueue' = Append(m_frameQueue, x) /\ reader' = At("loop", NoFrame)
      /\ UNCHANGED <<arrived, current, dropped, faults>>
  BY DEF ReaderQueues
<1>3. x \in Frame /\ online
  BY <1>1, <1>2 DEF ThreadInv
<1>4. UNCHANGED <<delivered, distribution>> /\ Popped' = Popped /\ Taken' = Taken
  BY <1>2, HeldKept DEF ReaderUnchanged
<1>5. reader'.pc = "loop"
  BY <1>2 DEF At
<1>6. Claimed = <<x>> /\ InHand = <<x>> /\ Claimed' = <<>> /\ InHand' = <<>>
  BY <1>2, <1>5, HeldByReader
<1> HIDE DEF x
<1>7. m_frameQueue \in Seq(Frame) /\ m_frameQueue' \in Seq(Frame)
  BY <1>1, <1>2, <1>3, AppendProperties DEF TypeOK
<1>8. TypeOK'
  BY <1>1, <1>2, <1>7 DEF ReaderUnchanged, TypeOK, At
<1>9. ThreadInv'
  BY <1>1, <1>2, <1>3, <1>5 DEF ReaderUnchanged, ThreadInv
<1>10. FramesCounted'
  <2>1. Counted' = Counted
    BY <1>1, <1>2, <1>3, <1>4, <1>6, <1>7, Parts, PartsType, QueueFrame
  <2> QED
    BY <1>2, <1>8, <2>1 DEF FramesCounted, IInv
<1>11. FramesInOrder'
  <2>1. All' = All
    BY Zenon, <1>1, <1>2, <1>3, <1>4, <1>6, <1>7, PartsType, QueueFrame DEF All
  <2> QED
    BY <1>2, <2>1, Parts DEF IInv
<1> QED
  BY <1>9, <1>10, <1>11 DEF IInv

\* What the distribution thread holds at its places.
LEMMA HeldByDistribution ==
    /\ distribution.pc = "popped" =>
        Popped = <<distribution.frame>> /\ Taken = <<distribution.frame>>
    /\ distribution.pc \in {"sleep", "have"} =>
        Popped = <<>> /\ Taken = <<distribution.frame>>
    /\ distribution.pc \notin {"popped", "sleep", "have"} =>
        Popped = <<>> /\ Taken = <<>>
    /\ distribution'.pc = "popped" =>
        Popped' = <<distribution'.frame>> /\ Taken' = <<distribution'.frame>>
    /\ distribution'.pc \in {"sleep", "have"} =>
        Popped' = <<>> /\ Taken' = <<distribution'.frame>>
    /\ distribution'.pc \notin {"popped", "sleep", "have"} =>
        Popped' = <<>> /\ Taken' = <<>>
BY DEF Popped, Taken, Held

\* The thread moves on without a frame in its hand, or ends.
LEMMA EmptyHandedIInv ==
    ASSUME IInv, distribution.pc \in {"loop", "next"},
           NEW pc \in {"loop", "next", "ended"}, distribution' = At(pc, NoFrame),
           DistributionUnchanged,
           UNCHANGED <<arrived, m_frameQueue, current, delivered>>
    PROVE  IInv'
<1>1. TypeOK /\ ThreadInv
  BY DEF IInv, FramesCounted
<1>2. distribution'.pc = pc
  BY DEF At
<1>3. TypeOK'
  BY <1>1 DEF DistributionUnchanged, TypeOK, At
<1>4. ThreadInv'
  BY <1>1, <1>2 DEF DistributionUnchanged, ThreadInv
<1> QED
  BY <1>2, <1>3, <1>4, HeldByDistribution, HeldKept, NoFrameMoves
     DEF DistributionUnchanged

\* The frame goes from the front of the queue to the hand of the thread; it is
\* still counted.
LEMMA NextPopsIInv == ASSUME IInv, NextPops PROVE IInv'
<1> DEFINE x == Head(m_frameQueue)
<1>1. TypeOK /\ ThreadInv
  BY DEF IInv, FramesCounted
<1>2. /\ distribution.pc = "next" /\ online /\ m_frameQueue # <<>>
      /\ distribution' = At("popped", x) /\ m_frameQueue' = Tail(m_frameQueue)
      /\ DistributionUnchanged
      /\ UNCHANGED <<arrived, current, delivered>>
  BY DEF NextPops
<1>3. /\ m_frameQueue \in Seq(Frame) /\ x \in Frame /\ m_frameQueue' \in Seq(Frame)
      /\ <<>> \o m_frameQueue = <<x>> \o m_frameQueue'
  BY <1>1, <1>2, PopFrame DEF TypeOK
<1> HIDE DEF x
<1>4. distribution'.pc = "popped" /\ distribution'.frame = x
  BY <1>2 DEF At
<1>5. /\ Popped = <<>> /\ Taken = <<>> /\ Popped' = <<x>> /\ Taken' = <<x>>
      /\ Claimed' = Claimed /\ InHand' = InHand
  BY <1>2, <1>4, HeldByDistribution, HeldKept DEF DistributionUnchanged
<1>6. TypeOK'
  BY <1>1, <1>2, <1>3 DEF DistributionUnchanged, TypeOK, At
<1>7. ThreadInv'
  BY <1>1, <1>2, <1>3, <1>4 DEF DistributionUnchanged, ThreadInv
<1>8. FramesCounted'
  <2>1. Counted' = Counted
    BY Zenon, <1>3, <1>5, Parts
  <2> QED
    BY <1>2, <1>6, <2>1 DEF FramesCounted, IInv, DistributionUnchanged
<1>9. FramesInOrder'
  <2>1. All' = All
    BY <1>2, <1>3, <1>5 DEF All
  <2> QED
    BY <1>2, <2>1, Parts DEF IInv, DistributionUnchanged
<1> QED
  BY <1>7, <1>8, <1>9 DEF IInv

\* The frame leaves the counters; the counters were at least its share.
LEMMA NextDiscountsIInv == ASSUME IInv, NextDiscounts PROVE IInv'
<1> DEFINE x == distribution.frame
<1>1. TypeOK /\ ThreadInv
  BY DEF IInv, FramesCounted
<1>2. /\ distribution.pc = "popped" /\ current' = Minus(current, x)
      /\ distribution' = At("have", x) /\ DistributionUnchanged
      /\ UNCHANGED <<arrived, m_frameQueue, delivered>>
  BY DEF NextDiscounts
<1>3. x \in Frame /\ x.size \in Nat
  BY <1>1, <1>2, FrameSize DEF ThreadInv
<1>4. distribution'.pc = "have" /\ distribution'.frame = x
  BY <1>2 DEF At
<1>5. /\ Popped = <<x>> /\ Taken = <<x>> /\ Popped' = <<>> /\ Taken' = <<x>>
      /\ Claimed' = Claimed /\ InHand' = InHand
  BY <1>2, <1>4, HeldByDistribution, HeldKept DEF DistributionUnchanged
<1> HIDE DEF x
<1>6. TypeOK'
  BY SMTT(30), <1>1, <1>2, <1>3 DEF DistributionUnchanged, TypeOK, At, Minus, Counter
<1>7. ThreadInv'
  BY <1>1, <1>2, <1>3, <1>4 DEF DistributionUnchanged, ThreadInv
<1>8. FramesCounted'
  <2>1. SUFFICES ASSUME faults' = {}
                 PROVE  current' = [frames |-> Len(Counted'), bytes |-> Size(Counted')]
    BY <1>6 DEF FramesCounted
  <2>2. current = [frames |-> Len(Counted), bytes |-> Size(Counted)]
    BY <1>2, <2>1 DEF IInv, FramesCounted, DistributionUnchanged
  <2>3. /\ m_frameQueue \in Seq(Frame) /\ Claimed \in Seq(Frame) /\ <<x>> \in Seq(Frame)
        /\ m_frameQueue \o Claimed \in Seq(Frame)
    BY <1>1, <1>3, PartsType, ConcatProperties DEF TypeOK
  <2>4. <<>> \o m_frameQueue = m_frameQueue
    BY <2>3, ConcatEmptySeq
  <2>5. Counted' = m_frameQueue \o Claimed
    BY <1>2, <1>5, <2>4, Parts
  <2>6. Counted = <<x>> \o Counted' /\ Counted' \in Seq(Frame)
    <3>1. (<<x>> \o m_frameQueue) \o Claimed = <<x>> \o (m_frameQueue \o Claimed)
      BY <2>3, ConcatAssociative
    <3>2. Counted = (<<x>> \o m_frameQueue) \o Claimed
      BY <1>5, Parts
    <3> QED
      BY <2>3, <2>5, <3>1, <3>2, Zenon
  <2>7. Size(Counted) = Size(Counted') + x.size /\ Size(Counted') \in Nat
    BY <1>3, <2>6, SizePrepend, SizeAppend
  <2>8. Len(Counted) = 1 + Len(Counted') /\ Len(Counted') \in Nat
    <3>1. Len(<<x>>) = 1
      OBVIOUS
    <3> QED
      BY <2>3, <2>6, <3>1, ConcatProperties, LenProperties
  <2> QED
    BY <1>2, <1>3, <2>2, <2>7, <2>8 DEF Minus
<1>9. FramesInOrder'
  <2>1. All' = All
    BY <1>2, <1>5 DEF All
  <2> QED
    BY <1>2, <2>1, Parts DEF IInv, DistributionUnchanged
<1> QED
  BY <1>7, <1>8, <1>9 DEF IInv

\* A frame of a trace file has the next number; the queue and the hand of the
\* reader are empty, so it is the last of all.
LEMMA NextReadsIInv == ASSUME IInv, NextReads PROVE IInv'
<1>1. TypeOK /\ ThreadInv
  BY DEF IInv, FramesCounted
<1>2. /\ distribution.pc = "next" /\ ~online /\ DistributionUnchanged
      /\ UNCHANGED <<m_frameQueue, current, delivered>>
  BY DEF NextReads
<1>3. CASE distribution' = At("ended", NoFrame) /\ arrived' = arrived
  BY <1>2, <1>3, EmptyHandedIInv
<1>4. ASSUME NEW size \in Sizes, NEW pc \in {"sleep", "have"}, arrived' = arrived + 1,
             distribution' = At(pc, [no |-> arrived + 1, size |-> size])
      PROVE  IInv'
  <2> DEFINE x == [no |-> arrived + 1, size |-> size]
  <2>1. x \in Frame /\ x.no = arrived + 1 /\ arrived \in Nat
    BY <1>1, <1>4 DEF Frame, TypeOK
  <2>2. distribution'.pc = pc /\ distribution'.frame = x /\ distribution' = At(pc, x)
    BY <1>4 DEF At
  <2> HIDE DEF x
  <2>3. TypeOK'
    BY SMTT(30), <1>1, <1>2, <1>4, <2>1, <2>2 DEF DistributionUnchanged, TypeOK, At
  <2>4. ThreadInv'
    BY <1>1, <1>2, <1>4, <2>1, <2>2 DEF DistributionUnchanged, ThreadInv
  <2>5. /\ Popped = <<>> /\ Popped' = <<>> /\ Taken = <<>> /\ Taken' = <<x>>
        /\ Claimed' = Claimed /\ InHand' = InHand
    BY <1>2, <1>4, <2>2, HeldByDistribution, HeldKept DEF DistributionUnchanged
  <2>6. m_frameQueue = <<>> /\ InHand = <<>> /\ delivered \in Seq(Frame)
    BY <1>1, <1>2, HeldByReader DEF ThreadInv, TypeOK
  <2>7. FramesCounted'
    <3>1. Counted' = Counted
      BY <1>2, <2>5, Parts
    <3> QED
      BY <1>2, <2>3, <3>1 DEF FramesCounted, IInv, DistributionUnchanged
  <2>8. FramesInOrder'
    <3>1. SUFFICES ASSUME faults' = {}, dropped'.frames = 0
                   PROVE  InOrder(All', arrived')
      BY Parts
    <3>2. InOrder(All, arrived)
      BY <1>2, <3>1, Parts DEF IInv, DistributionUnchanged
    <3>3. /\ <<>> \in Seq(Frame) /\ <<x>> \in Seq(Frame)
          /\ <<>> \o <<>> = <<>> /\ (<<x>> \o <<>>) \o <<>> = <<x>>
          /\ <<>> \o <<x>> = <<x>>
      BY <2>1, EmptySeq, ConcatEmptySeq
    <3>4. /\ delivered \o (<<>> \o <<>>) \in Seq(Frame)
          /\ delivered \o (<<>> \o <<x>>) = Append(delivered \o (<<>> \o <<>>), x)
      BY <2>1, <2>6, <3>3, AddFrame
    <3>5. All = delivered \o (<<>> \o <<>>)
      BY <2>5, <2>6, <3>3, Zenon DEF All
    <3>6. All' = delivered \o (<<>> \o <<x>>)
      BY <1>2, <2>5, <2>6, <3>3 DEF All
    <3> QED
      BY Zenon, <1>4, <2>1, <3>2, <3>4, <3>5, <3>6, InOrderAppend
  <2> QED
    BY <2>4, <2>7, <2>8 DEF IInv
<1> QED
  BY Zenon, <1>3, <1>4 DEF NextReads

\* The wait for the time of a frame is over.
LEMMA SleepRunsOutIInv == ASSUME IInv, SleepRunsOut PROVE IInv'
<1>1. TypeOK /\ ThreadInv
  BY DEF IInv, FramesCounted
<1>2. /\ distribution.pc = "sleep" /\ distribution' = At("have", distribution.frame)
      /\ DistributionUnchanged
      /\ UNCHANGED <<arrived, m_frameQueue, current, delivered>>
  BY DEF SleepRunsOut
<1>3. distribution'.pc = "have" /\ distribution'.frame = distribution.frame
  BY <1>2 DEF At
<1>4. TypeOK'
  BY <1>1, <1>2 DEF DistributionUnchanged, TypeOK, At
<1>5. ThreadInv'
  BY <1>1, <1>2, <1>3 DEF DistributionUnchanged, ThreadInv
<1> QED
  BY <1>2, <1>3, <1>4, <1>5, HeldByDistribution, HeldKept, NoFrameMoves
     DEF DistributionUnchanged

\* The channels have seen the frame.
LEMMA FrameCallIInv == ASSUME IInv, frameCall PROVE IInv'
<1> DEFINE x == distribution.frame
<1>1. TypeOK /\ ThreadInv
  BY DEF IInv, FramesCounted
<1>2. /\ distribution.pc = "have" /\ delivered' = Append(delivered, x)
      /\ distribution' = At("loop", NoFrame) /\ DistributionUnchanged
      /\ UNCHANGED <<arrived, m_frameQueue, current>>
  BY DEF frameCall
<1>3. x \in Frame /\ delivered \in Seq(Frame) /\ m_frameQueue \in Seq(Frame)
  BY <1>1, <1>2 DEF ThreadInv, TypeOK
<1>4. distribution'.pc = "loop"
  BY <1>2 DEF At
<1>5. /\ Popped = <<>> /\ Taken = <<x>> /\ Popped' = <<>> /\ Taken' = <<>>
      /\ Claimed' = Claimed /\ InHand' = InHand
  BY <1>2, <1>4, HeldByDistribution, HeldKept DEF DistributionUnchanged
<1> HIDE DEF x
<1>6. TypeOK'
  <2>1. delivered' \in Seq(Frame)
    BY <1>2, <1>3, AppendProperties
  <2> QED
    BY <1>1, <1>2, <2>1 DEF DistributionUnchanged, TypeOK, At
<1>7. ThreadInv'
  BY <1>1, <1>2, <1>4 DEF DistributionUnchanged, ThreadInv
<1>8. FramesCounted'
  <2>1. Counted' = Counted
    BY <1>2, <1>5, Parts
  <2> QED
    BY <1>2, <1>6, <2>1 DEF FramesCounted, IInv, DistributionUnchanged
<1>9. FramesInOrder'
  <2>1. All' = All
    <3>1. Append(delivered, x) \o ((<<>> \o m_frameQueue) \o InHand)
              = delivered \o ((<<x>> \o m_frameQueue) \o InHand)
      <4>1. InHand \in Seq(Frame)
        BY <1>1, PartsType
      <4> QED
        BY <1>3, <4>1, DeliverFrame, ZenonT(60)
    <3>2. All = delivered \o ((<<x>> \o m_frameQueue) \o InHand)
      BY <1>5 DEF All
    <3>3. All' = Append(delivered, x) \o ((<<>> \o m_frameQueue) \o InHand)
      BY <1>2, <1>5 DEF All
    <3> QED
      BY <3>1, <3>2, <3>3, Zenon
  <2> QED
    BY <1>2, <2>1, Parts DEF IInv, DistributionUnchanged
<1> QED
  BY <1>7, <1>8, <1>9 DEF IInv

\* The invariant holds in every reachable state.
THEOREM Invariance == Spec => []IInv
<1>1. ASSUME IInv, [Next]_vars PROVE IInv'
  <2>1. CASE UNCHANGED vars
    <3>1. TypeOK'
      BY <1>1, <2>1 DEF vars, IInv, FramesCounted, TypeOK
    <3>2. ThreadInv'
      BY <1>1, <2>1 DEF vars, IInv, ThreadInv
    <3> QED
      BY <1>1, <2>1, <3>1, <3>2, HeldKept, NoFrameMoves DEF vars
  <2>2. CASE starting \/ stopDistribution \/ stopping
    BY <1>1, <2>2, MainIInv
  <2>3. CASE readThreadFunction
    BY <1>1, <2>3, ReaderFaultIInv, ReaderLoopIInv, ReaderReadsIInv,
       ReaderCountsIInv, ReaderQueuesIInv DEF readThreadFunction
  <2>4. CASE DistributionLoop \/ NextIsEmpty
    BY <1>1, <2>4, EmptyHandedIInv DEF DistributionLoop, NextIsEmpty
  <2>5. CASE NextPops \/ NextDiscounts \/ NextReads \/ SleepRunsOut \/ frameCall
    BY <1>1, <2>5, NextPopsIInv, NextDiscountsIInv, NextReadsIInv,
       SleepRunsOutIInv, FrameCallIInv
  <2> QED
    BY <1>1, <2>1, <2>2, <2>3, <2>4, <2>5 DEF Next, distribThreadFunction
<1> QED
  BY <1>1, InitIInv, PTL DEF Spec

\* The counters are exact, and so never below zero, whatever the interleaving of
\* the reader and next().
THEOREM CountedSafety == Spec => []FramesCounted
<1>1. IInv => FramesCounted
  BY DEF IInv
<1> QED
  BY <1>1, Invariance, PTL

\* No frame is lost, duplicated or overtaken between the interface and the
\* channels.
THEOREM OrderSafety == Spec => []FramesInOrder
<1>1. IInv => FramesInOrder
  BY DEF IInv
<1> QED
  BY <1>1, Invariance, PTL
=============================================================================
