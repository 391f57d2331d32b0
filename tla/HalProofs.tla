------------------------------ MODULE HalProofs ------------------------------
(* Proofs about the two parts of hal whose surroundings act between their   *)
(* steps: Delay, which the timer interrupts, and Keyboard, whose controller *)
(* goes on queueing events.  They share no variable; what is shown of each  *)
(* alone is carried over to Hal at the end.                                 *)
EXTENDS Hal, SequenceTheorems, TLAPS

-----------------------------------------------------------------------------
(* Type correctness *)

LEMMA Zeros ==
    /\ 0 \in 0..Max /\ 0 \in 0..Max + 1 /\ 0 \in 0..Timeout /\ Timeout \in 0..Timeout /\ Timeout \in Nat
    /\ Max \in Nat /\ 0 \in Nat /\ 1 \in 0..Max
    BY DelayAssumption

LEMMA EnterType ==
    ASSUME TypeOK, NEW delay \in 0..Max, Enter(delay)
    PROVE  pc' \in {"first", "only"} /\ rest' \in 0..Max
<1>1. CASE delay > Max - counter
    BY <1>1, DelayAssumption DEF TypeOK, Enter
<1>2. CASE ~(delay > Max - counter)
    BY <1>2, DelayAssumption DEF TypeOK, Enter
<1> QED
    BY <1>1, <1>2

LEMMA MsleepType ==
    ASSUME TypeOK, NEW delay \in 0..Max, Msleep(delay)
    PROVE  /\ pc' \in {"first", "only"} /\ rest' \in 0..Max /\ begin' = counter
           /\ want' = delay /\ want' \in Nat /\ elapsed' = 0 /\ elapsed' \in 0..Max + 1 /\ cpu' = cpu
    BY EnterType, DelayAssumption DEF Msleep

LEMMA TypeStep == TypeOK /\ [Next]_vars => TypeOK'
<1> SUFFICES ASSUME TypeOK, [Next]_vars PROVE TypeOK'
    OBVIOUS
<1> USE DelayAssumption DEF TypeOK
<1>1. CASE Tick
  <2>1. counter' \in 0..Max
      BY <1>1 DEF Tick, NextTick
  <2>2. elapsed' \in 0..Max + 1 /\ waited' \in 0..Max + 1
      BY <1>1 DEF Tick, Later
  <2> QED
      BY <1>1, <2>1, <2>2 DEF Tick, waiting
<1>2. CASE OtherInterrupt
    BY <1>2 DEF OtherInterrupt, waiting, ticks
<1>3. CASE Call
  <2>1. PICK delay \in Delays : Msleep(delay)
      BY <1>3 DEF Call
  <2> QED
      BY <1>3, <2>1, MsleepType DEF Call, waiting
<1>4. CASE EinkWait
    BY <1>4, Zeros DEF EinkWait, sleeping
<1>5. CASE Look
    BY <1>5 DEF Look, waiting, ticks
<1>6. CASE Wfi
    BY <1>6 DEF Wfi, waiting, ticks
<1>7. CASE EinkLook
  <2>1. CASE PanelReady
      BY <1>7, <2>1, Zeros DEF EinkLook, PanelReady, sleeping
  <2>2. CASE PanelBusy
    <3>1. CASE timeout = 1
        BY <1>7, <2>2, <3>1, Zeros DEF EinkLook, PanelBusy, sleeping
    <3>2. CASE timeout # 1
      <4>1. timeout' = timeout - 1 /\ timeout > 0 /\ Msleep(1) /\ 1 \in 0..Max
          BY <1>7, <2>2, <3>2, Zeros DEF EinkLook, PanelBusy
      <4>2. timeout' \in 0..Timeout
          BY <4>1
      <4> QED
          BY <1>7, <2>2, <3>2, <4>1, <4>2, MsleepType DEF EinkLook, PanelBusy
    <3> QED
        BY <3>1, <3>2
  <2> QED
      BY <1>7, <2>1, <2>2 DEF EinkLook
<1>8. CASE UNCHANGED vars
    BY <1>8 DEF vars, sleeping, waiting, ticks
<1> QED
    BY <1>1, <1>2, <1>3, <1>4, <1>5, <1>6, <1>7, <1>8 DEF Next, Program

\* For every width of the counter and every argument.
THEOREM TypeCorrect == Spec => []TypeOK
<1>1. Init => TypeOK
    BY Zeros, Zenon DEF Init, TypeOK
<1> QED
    BY <1>1, TypeStep, PTL DEF Spec

-----------------------------------------------------------------------------
(* Punctuality *)

\* How late the program may be, by where it is in the loop: a tick can come
\* between two of its steps, and once more before a wfi ends.
Ticked == IF ticked THEN 1 ELSE 0
Lateness ==
    /\ cpu = "run" => elapsed <= want + Ticked
    /\ cpu = "wfi" => elapsed + 1 <= want + Ticked
    /\ cpu = "asleep" => elapsed <= want
Sleeping == pc = "only" /\ rest = begin + want /\ counter = begin + elapsed /\ Lateness
SleepInv ==
    /\ pc = "idle" => cpu = "run"
    /\ ~NearEnd => IF pc = "idle" THEN elapsed \in want..want + 1 ELSE Sleeping

\* The turns of eink_wait so far, and the ticks they took.
Turns == Timeout - timeout
Waiting ==
    /\ panel = "none" /\ counter = since + waited
    /\ pc = "idle" => Turns <= waited /\ waited <= 3 * Turns + Ticked
    /\ pc # "idle" => /\ want = 1 /\ Turns >= 1 /\ elapsed <= waited /\ begin + elapsed = since + waited
                      /\ Turns <= 1 + (waited - elapsed) /\ waited - elapsed + 2 <= 3 * Turns
WaitInv ==
    /\ timeout > 0 /\ FarFromEnd => Waiting
    /\ panel = "timeout" /\ FarFromEnd => waited >= Timeout - 1

LEMMA InvMeans == TypeOK /\ SleepInv /\ WaitInv => Punctual
<1> SUFFICES ASSUME TypeOK, SleepInv, WaitInv PROVE Punctual
    OBVIOUS
<1> USE DelayAssumption DEF TypeOK
<1>1. CASE pc = "idle"
    BY <1>1 DEF SleepInv, WaitInv, Punctual
<1>2. CASE pc # "idle"
    BY <1>2 DEF SleepInv, WaitInv, Punctual, Sleeping, Lateness, Ticked, Diff
<1> QED
    BY <1>1, <1>2

LEMMA EnterSleep ==
    ASSUME TypeOK, NEW delay \in 0..Max, Msleep(delay), cpu = "run", counter' = counter
    PROVE  SleepInv'
<1>1. /\ begin' = counter /\ want' = delay /\ elapsed' = 0 /\ cpu' = "run" /\ pc' # "idle"
    BY MsleepType
<1>2. SUFFICES ASSUME counter + delay < Max PROVE Sleeping'
    BY <1>1, DelayAssumption DEF SleepInv, NearEnd, TypeOK
<1>3. pc' = "only" /\ rest' = counter + delay
    BY <1>2, DelayAssumption DEF Msleep, Enter, TypeOK
<1> QED
    BY <1>1, <1>3, DelayAssumption DEF Sleeping, Lateness, Ticked, TypeOK

LEMMA SleepStep == TypeOK /\ SleepInv /\ [Next]_vars => SleepInv'
<1> SUFFICES ASSUME TypeOK, SleepInv, [Next]_vars PROVE SleepInv'
    OBVIOUS
<1> USE DelayAssumption DEF TypeOK, Ticked
<1>1. CASE Tick
  <2>1. /\ pc' = pc /\ rest' = rest /\ begin' = begin /\ want' = want /\ NearEnd' = NearEnd
        /\ cpu' = IF cpu = "asleep" THEN "run" ELSE cpu
      BY <1>1 DEF Tick, NearEnd
  <2>2. CASE pc = "idle"
      BY <1>1, <2>1, <2>2 DEF SleepInv, Tick, Later
  <2>3. CASE pc # "idle" /\ ~NearEnd
    <3>1. Sleeping /\ elapsed <= want
        BY <1>1, <2>3 DEF SleepInv, Tick, Sleeping, Lateness
    <3>2. counter < Max
        BY <2>3, <3>1 DEF Sleeping, NearEnd
    <3>3. elapsed' = elapsed + 1 /\ counter' = counter + 1 /\ ticked'
        BY <1>1, <2>3, <3>1, <3>2 DEF Tick, Later, NextTick, NearEnd
    <3>4. Sleeping'
        BY <1>1, <2>1, <3>1, <3>3 DEF Tick, Sleeping, Lateness
    <3> QED
        BY <2>1, <2>3, <3>4 DEF SleepInv
  <2> QED
      BY <2>1, <2>2, <2>3 DEF SleepInv
<1>2. CASE OtherInterrupt
    BY <1>2 DEF OtherInterrupt, SleepInv, Sleeping, Lateness, NearEnd, ticks
<1>3. CASE Call
  <2>1. PICK delay \in Delays : Msleep(delay)
      BY <1>3 DEF Call
  <2> QED
      BY <1>3, <2>1, EnterSleep DEF Call, SleepInv
<1>4. CASE EinkWait
    BY <1>4 DEF EinkWait, SleepInv, NearEnd, sleeping
<1>5. CASE Look
    BY <1>5 DEF Look, Bound, SleepInv, Sleeping, Lateness, NearEnd, ticks
<1>6. CASE Wfi
    BY <1>6 DEF Wfi, SleepInv, Sleeping, Lateness, NearEnd, ticks
<1>7. CASE EinkLook
  <2>1. CASE UNCHANGED <<sleeping, elapsed>>
      BY <1>7, <2>1 DEF EinkLook, SleepInv, NearEnd, sleeping
  <2>2. CASE Msleep(1)
      BY <1>7, <2>2, EnterSleep DEF EinkLook, SleepInv
  <2> QED
      BY <1>7, <2>1, <2>2 DEF EinkLook, PanelReady, PanelBusy
<1>8. CASE UNCHANGED vars
    BY <1>8 DEF vars, sleeping, ticks, SleepInv, Sleeping, Lateness, NearEnd
<1> QED
    BY <1>1, <1>2, <1>3, <1>4, <1>5, <1>6, <1>7, <1>8 DEF Next, Program

\* Far from the end, so is every sleep of the wait.
LEMMA WaitingIsFar ==
    ASSUME TypeOK, SleepInv, WaitInv, timeout > 0, FarFromEnd, pc # "idle"
    PROVE  ~NearEnd /\ Sleeping
<1> USE DelayAssumption DEF TypeOK
<1>1. Waiting
    BY DEF WaitInv
<1>2. waited - elapsed + 2 <= 3 * Turns /\ Turns < Timeout /\ want = 1
    BY <1>1 DEF Waiting, Turns
<1>3. begin + want < Max
    BY <1>1, <1>2 DEF Waiting, FarFromEnd, Turns
<1> QED
    BY <1>3 DEF SleepInv, NearEnd

LEMMA WaitStep == TypeOK /\ TypeOK' /\ SleepInv /\ SleepInv' /\ WaitInv /\ [Next]_vars => WaitInv'
<1> SUFFICES ASSUME TypeOK, TypeOK', SleepInv, SleepInv', WaitInv, [Next]_vars PROVE WaitInv'
    OBVIOUS
<1> USE DelayAssumption DEF TypeOK, Ticked, Turns
<1>1. CASE Tick
  <2>1. UNCHANGED <<pc, begin, want, timeout, panel, since>> /\ (FarFromEnd' <=> FarFromEnd)
      BY <1>1 DEF Tick, waiting, FarFromEnd
  <2>2. timeout = 0 => WaitInv'
      BY <1>1, <2>1 DEF Tick, Later, WaitInv
  <2>3. ASSUME timeout > 0, FarFromEnd PROVE WaitInv'
    <3>1. Waiting
        BY <2>3 DEF WaitInv
    <3>2. waited <= 3 * Timeout
        BY <2>3, <3>1, WaitingIsFar DEF Waiting, SleepInv, Sleeping, Lateness
    <3>3. waited' = waited + 1 /\ counter' = counter + 1 /\ ticked'
        BY <1>1, <2>3, <3>1, <3>2 DEF Tick, Later, NextTick, FarFromEnd, Waiting
    <3>4. pc = "idle" => ~ticked
        BY <1>1, <2>3 DEF Tick, SleepInv
    <3>5. CASE pc = "idle"
        BY <1>1, <2>1, <2>3, <3>1, <3>3, <3>4, <3>5 DEF Tick, WaitInv, Waiting
    <3>6. CASE pc # "idle"
      <4>1. elapsed' = elapsed + 1
          BY <1>1, <2>3, <3>1, <3>6, WaitingIsFar DEF Tick, Later, Waiting, Sleeping, Lateness, FarFromEnd
      <4> QED
          BY <2>1, <2>3, <3>1, <3>3, <3>6, <4>1 DEF WaitInv, Waiting
    <3> QED
        BY <3>5, <3>6
  <2> QED
      BY <2>1, <2>2, <2>3 DEF WaitInv
<1>2. CASE OtherInterrupt
    BY <1>2 DEF OtherInterrupt, WaitInv, Waiting, FarFromEnd, SleepInv, waiting, ticks
<1>3. CASE Call
    BY <1>3 DEF Call, WaitInv, FarFromEnd, waiting
<1>4. CASE EinkWait
    BY <1>4 DEF EinkWait, WaitInv, Waiting, sleeping
<1>5. CASE Look
  <2>1. UNCHANGED <<counter, rest, begin, want, timeout, panel, since, elapsed, waited>>
        /\ (FarFromEnd' <=> FarFromEnd) /\ ~ticked'
      BY <1>5 DEF Look, waiting, ticks, FarFromEnd
  <2>2. ASSUME timeout > 0, FarFromEnd PROVE Waiting'
    <3>1. Waiting /\ ~NearEnd /\ Sleeping
        BY <1>5, <2>2, WaitingIsFar DEF WaitInv, Look
    <3>2. CASE pc' = pc
        BY <1>5, <2>1, <3>1, <3>2 DEF Look, Waiting
    <3>3. CASE pc' = "idle"
      <4>1. elapsed \in want..want + 1
          BY <2>1, <3>1, <3>3 DEF SleepInv, NearEnd
      <4> QED
          BY <1>5, <2>1, <3>1, <3>3, <4>1 DEF Look, Waiting
    <3> QED
        BY <1>5, <3>1, <3>2, <3>3 DEF Look, Sleeping
  <2> QED
      BY <2>1, <2>2 DEF WaitInv
<1>6. CASE Wfi
    BY <1>6 DEF Wfi, WaitInv, Waiting, FarFromEnd, SleepInv, waiting, ticks
<1>7. CASE EinkLook
  <2>1. pc = "idle" /\ timeout > 0 /\ UNCHANGED <<counter, since, waited>> /\ (FarFromEnd' <=> FarFromEnd)
        /\ ~ticked'
      BY <1>7 DEF EinkLook, FarFromEnd
  <2>2. CASE PanelReady
      BY <2>1, <2>2 DEF PanelReady, WaitInv
  <2>3. CASE PanelBusy /\ timeout = 1
      BY <2>1, <2>3 DEF PanelBusy, WaitInv, Waiting
  <2>4. CASE PanelBusy /\ timeout # 1
    <3>1. /\ timeout' = timeout - 1 /\ panel' = panel /\ begin' = counter
          /\ want' = 1 /\ elapsed' = 0 /\ pc' # "idle"
        BY <2>4, Zeros, MsleepType DEF PanelBusy
    <3>2. FarFromEnd => Waiting
        BY <2>1 DEF WaitInv
    <3> QED
        BY <2>1, <3>1, <3>2 DEF WaitInv, Waiting
  <2> QED
      BY <1>7, <2>2, <2>3, <2>4 DEF EinkLook
<1>8. CASE UNCHANGED vars
    BY <1>8 DEF vars, sleeping, waiting, ticks, WaitInv, Waiting, FarFromEnd
<1> QED
    BY <1>1, <1>2, <1>3, <1>4, <1>5, <1>6, <1>7, <1>8 DEF Next, Program

\* Whatever the interleaving of ticks, other interrupts and the program: no
\* sleep is too short or more than a tick too long, and no panel is given up
\* before its time, unless the counter ends meanwhile.
THEOREM PunctualAlways == Spec => []Punctual
<1>1. Init => SleepInv /\ WaitInv
    BY DelayAssumption DEF Init, SleepInv, WaitInv
<1>2. TypeOK /\ TypeOK' /\ SleepInv /\ WaitInv /\ [Next]_vars => SleepInv' /\ WaitInv'
    BY SleepStep, WaitStep
<1> QED
    BY <1>1, <1>2, InvMeans, TypeCorrect, PTL DEF Spec

\* Before it ends, and when it has, an eink_wait took three ticks a turn at most.
BoundInv == timeout = 0 /\ FarFromEnd => waited <= 3 * Timeout

LEMMA WaitedSoFar ==
    ASSUME TypeOK, SleepInv, WaitInv, timeout > 0, FarFromEnd PROVE waited <= 3 * Timeout
<1> USE DelayAssumption DEF TypeOK
<1>1. Waiting
    BY DEF WaitInv
<1>2. CASE pc = "idle"
    BY <1>1, <1>2 DEF Waiting, Turns, Ticked
<1>3. CASE pc # "idle"
  <2>1. elapsed <= want + 1
      BY <1>3, WaitingIsFar DEF Sleeping, Lateness, Ticked
  <2> QED
      BY <1>1, <1>3, <2>1 DEF Waiting, Turns
<1> QED
    BY <1>2, <1>3

LEMMA BoundStep == TypeOK /\ SleepInv /\ WaitInv /\ BoundInv /\ [Next]_vars => BoundInv'
<1> SUFFICES ASSUME TypeOK, SleepInv, WaitInv, BoundInv, [Next]_vars, timeout' = 0, FarFromEnd'
             PROVE  waited' <= 3 * Timeout
    BY DEF BoundInv
<1>1. CASE EinkLook
  <2>1. timeout > 0 /\ waited' = waited /\ FarFromEnd
      BY <1>1 DEF EinkLook, FarFromEnd
  <2> QED
      BY <2>1, WaitedSoFar
<1>2. CASE EinkWait
    BY <1>2, DelayAssumption DEF EinkWait
<1>3. ASSUME Tick \/ OtherInterrupt \/ Call \/ Look \/ Wfi \/ UNCHANGED vars
      PROVE  waited' <= 3 * Timeout
  <2>1. UNCHANGED waiting /\ (timeout = 0 => waited' = waited)
      BY <1>3 DEF Tick, OtherInterrupt, Call, Look, Wfi, vars, waiting, ticks, Later
  <2> QED
      BY <2>1 DEF waiting, BoundInv, FarFromEnd
<1> QED
    BY <1>1, <1>2, <1>3 DEF Next, Program

\* However the panel and the interrupts behave, far from the counter's end an
\* eink_wait takes three ticks a turn at most: the one it asks msleep for, one
\* that msleep may be late, and one between its return and the next look
\* (ED028TC1.c 40-45, delay.c 39-58).
WaitBounded == FarFromEnd => waited <= 3 * Timeout
THEOREM WaitIsBounded == Spec => []WaitBounded
<1>1. Init => SleepInv /\ WaitInv /\ BoundInv
    BY DelayAssumption DEF Init, SleepInv, WaitInv, BoundInv
<1>2. TypeOK /\ TypeOK' /\ SleepInv /\ WaitInv /\ BoundInv /\ [Next]_vars
          => SleepInv' /\ WaitInv' /\ BoundInv'
    BY SleepStep, WaitStep, BoundStep
<1>3. TypeOK /\ SleepInv /\ WaitInv /\ BoundInv => WaitBounded
    BY WaitedSoFar, DelayAssumption DEF BoundInv, WaitBounded, TypeOK
<1> QED
    BY <1>1, <1>2, <1>3, TypeCorrect, PTL DEF Spec
-----------------------------------------------------------------------------
(* Keyboard: sequences of event bytes *)

LEMMA ByteSeq ==
    ASSUME NEW f \in Seq(Bytes)
    PROVE  /\ Len(f) \in Nat /\ DOMAIN f = 1..Len(f)
           /\ \A k \in 1..Len(f) : f[k] \in Bytes
BY LenProperties, ElementOfSeq

LEMMA QueueTail ==
    ASSUME NEW f \in Seq(Bytes), f # <<>>
    PROVE  /\ Head(f) = f[1] /\ 1 \in 1..Len(f) /\ Head(f) \in Bytes
           /\ Tail(f) \in Seq(Bytes) /\ Len(Tail(f)) = Len(f) - 1
           /\ \A k \in 1..Len(f) - 1 : Tail(f)[k] = f[k + 1]
<1>1. Len(f) \in Nat \ {0}
    BY EmptySeq
<1> QED
    BY <1>1, HeadTailProperties, ByteSeq

\* Putting an event behind the queue puts it behind all events.
LEMMA AppendBehind ==
    ASSUME NEW x \in Seq(Bytes), NEW f \in Seq(Bytes), NEW b \in Bytes
    PROVE  x \o Append(f, b) = Append(x \o f, b)
<1>1. <<b>> \in Seq(Bytes)
    OBVIOUS
<1>2. x \o (f \o <<b>>) = (x \o f) \o <<b>>
    BY <1>1, ConcatAssociative
<1>3. x \o f \in Seq(Bytes)
    BY ConcatProperties
<1> QED
    BY <1>2, <1>3, AppendIsConcat

\* The first event of the queue goes to the end of those read: all events
\* stay the same.
LEMMA MoveHead ==
    ASSUME NEW x \in Seq(Bytes), NEW f \in Seq(Bytes), f # <<>>
    PROVE  Append(x, Head(f)) \o Tail(f) = x \o f
<1> DEFINE l == Append(x, Head(f)) \o Tail(f)
           r == x \o f
<1>1. /\ Head(f) = f[1] /\ Head(f) \in Bytes /\ Tail(f) \in Seq(Bytes) /\ Len(Tail(f)) = Len(f) - 1
      /\ Len(f) \in Nat /\ Len(x) \in Nat /\ Len(f) >= 1
      /\ \A k \in 1..Len(f) - 1 : Tail(f)[k] = f[k + 1]
    BY QueueTail, ByteSeq
<1>2. /\ Append(x, Head(f)) \in Seq(Bytes) /\ Len(Append(x, Head(f))) = Len(x) + 1
      /\ \A k \in 1..Len(x) : Append(x, Head(f))[k] = x[k]
      /\ Append(x, Head(f))[Len(x) + 1] = f[1]
    BY <1>1, AppendProperties
<1>3. l \in Seq(Bytes) /\ Len(l) = Len(x) + Len(f)
    BY <1>1, <1>2, ConcatProperties
<1>4. r \in Seq(Bytes) /\ Len(r) = Len(x) + Len(f)
    BY ConcatProperties
<1>5. ASSUME NEW k \in 1..Len(l) PROVE l[k] = r[k]
  <2>1. k \in 1..Len(x) + Len(f) /\ k \in Int
      BY <1>1, <1>3
  <2>2. r[k] = IF k <= Len(x) THEN x[k] ELSE f[k - Len(x)]
      BY <2>1, ConcatProperties
  <2>3. l[k] = IF k <= Len(x) + 1 THEN Append(x, Head(f))[k] ELSE Tail(f)[k - (Len(x) + 1)]
    <3> DEFINE a == Append(x, Head(f))
               t == Tail(f)
    <3>1. a \in Seq(Bytes) /\ t \in Seq(Bytes) /\ Len(a) = Len(x) + 1 /\ k \in 1..Len(a) + Len(t)
        BY <1>1, <1>2, <2>1
    <3> HIDE DEF a, t
    <3>2. (a \o t)[k] = IF k <= Len(a) THEN a[k] ELSE t[k - Len(a)]
        BY <3>1, ConcatProperties
    <3> QED
        BY <3>1, <3>2 DEF a, t
  <2>4. CASE k <= Len(x)
      BY <1>1, <1>2, <2>1, <2>2, <2>3, <2>4
  <2>5. CASE k = Len(x) + 1
      BY <1>1, <1>2, <2>1, <2>2, <2>3, <2>5
  <2>6. CASE k > Len(x) + 1
    <3>1. k - (Len(x) + 1) \in 1..Len(f) - 1 /\ k - (Len(x) + 1) + 1 = k - Len(x)
        BY <1>1, <2>1, <2>6
    <3> QED
        BY <1>1, <2>1, <2>2, <2>3, <2>6, <3>1
  <2> QED
      BY <1>1, <2>1, <2>4, <2>5, <2>6
<1> HIDE DEF l, r
<1>6. l = r
    BY <1>3, <1>4, <1>5, SeqEqual
<1> QED
    BY <1>6 DEF l, r
-----------------------------------------------------------------------------
(* Keyboard: types *)

\* What the types rest on.  A call reads as many events as the queue held when
\* it asked, and the queue only loses those it reads: none is read from an
\* empty queue.  What a failed read puts into the array has a key too: it is
\* the byte of the transfer before, an event or the count.
Fresh == step \in {"idle", "count"} => count = 0 /\ i = 0
Asked == step = "count" => retval = 0 /\ events = Cleared
Reading == step = "pop" => i < count /\ count <= i + Len(fifo) /\ Key(retval) # 0
Filled ==
    /\ step = "clear" => i = count
    /\ step \in {"pop", "clear"} =>
           \A k \in 0..Capacity - 1 : IF k < i THEN Key(events[k]) # 0 ELSE events[k] = 0
Keyed == \A k \in DOMAIN fifo : Key(fifo[k]) # 0
KbdInv == KbdTypeOK /\ Fresh /\ Asked /\ Reading /\ Filled /\ Keyed

LEMMA Sizes ==
    /\ Capacity \in Nat /\ Depth \in Nat /\ Depth <= 15 /\ Depth < Capacity /\ Depth >= 1
    /\ MaxFailures \in Nat /\ 0 \in Bytes /\ Key(0) = 0
    BY KeyboardAssumption DEF Bytes, Key

LEMMA KeyByte ==
    ASSUME NEW key \in Keys, NEW bit \in {0, 1}
    PROVE  Byte(key, bit) \in Bytes /\ Key(Byte(key, bit)) # 0
<1>1. key \in 1..127
    BY KeyboardAssumption
<1>2. Byte(key, bit) \in Bytes
    BY <1>1 DEF Byte, Bytes
<1>3. (key + 128 * bit) % 128 = key
    BY <1>1
<1> QED
    BY <1>1, <1>2, <1>3 DEF Byte, Key

LEMMA ClearedType == Cleared \in [0..Capacity - 1 -> Bytes] /\ \A k \in 0..Capacity - 1 : Cleared[k] = 0
    BY Sizes DEF Cleared

LEMMA KbdInitInv == KbdInit => KbdInv
<1> SUFFICES ASSUME KbdInit PROVE KbdInv
    OBVIOUS
<1> USE DEF KbdInit
<1>1. Capacity - 1 \in 0..Capacity - 1
    BY Sizes
<1>2. KbdTypeOK
    BY <1>1, Sizes, ClearedType DEF KbdTypeOK
<1> QED
    BY <1>2 DEF KbdInv, Fresh, Asked, Reading, Filled, Keyed

LEMMA KeyChangeInv ==
    ASSUME KbdInv, NEW key \in Keys, KeyChange(key) PROVE KbdInv'
<1> DEFINE b == Byte(key, IF key \in down THEN 0 ELSE 1)
<1>1. b \in Bytes /\ Key(b) # 0
    BY KeyByte
<1> HIDE DEF b
<1>2. /\ \/ fifo' = fifo /\ accepted' = accepted
         \/ Len(fifo) < Depth /\ fifo' = Append(fifo, b) /\ accepted' = Append(accepted, b)
      /\ down' \subseteq down \cup Keys
      /\ UNCHANGED <<step, retval, count, i, events, view, polled, failed, stale>>
    BY DEF KeyChange, call, failures, b
<1>3. fifo \in Seq(Bytes) /\ accepted \in Seq(Bytes) /\ Len(fifo) <= Depth /\ down \subseteq Keys
    BY DEF KbdInv, KbdTypeOK
<1>4. /\ fifo' \in Seq(Bytes) /\ accepted' \in Seq(Bytes) /\ Len(fifo') <= Depth
      /\ Len(fifo) \in Nat /\ Len(fifo') \in Nat /\ Len(fifo) <= Len(fifo')
  <2>1. CASE fifo' = fifo /\ accepted' = accepted
      BY <1>3, <2>1, ByteSeq
  <2>2. CASE Len(fifo) < Depth /\ fifo' = Append(fifo, b) /\ accepted' = Append(accepted, b)
      BY <1>1, <1>3, <2>2, ByteSeq, AppendProperties, Sizes
  <2> QED
      BY <1>2, <2>1, <2>2
<1>5. KbdTypeOK'
    BY <1>2, <1>3, <1>4 DEF KbdInv, KbdTypeOK
<1>6. Keyed'
  <2>1. CASE fifo' = fifo
      BY <2>1 DEF KbdInv, Keyed
  <2>2. CASE fifo' = Append(fifo, b)
    <3>1. /\ Len(fifo') = Len(fifo) + 1 /\ DOMAIN fifo = 1..Len(fifo) /\ DOMAIN fifo' = 1..Len(fifo')
          /\ \A k \in 1..Len(fifo) : fifo'[k] = fifo[k]
          /\ fifo'[Len(fifo) + 1] = b
        BY <1>1, <1>3, <1>4, <2>2, ByteSeq, AppendProperties
    <3>2. \A k \in 1..Len(fifo) + 1 : k \in 1..Len(fifo) \/ k = Len(fifo) + 1
        BY <1>4
    <3> QED
        BY <1>1, <3>1, <3>2 DEF KbdInv, Keyed
  <2> QED
      BY <1>2, <2>1, <2>2
<1>7. Reading'
    BY <1>2, <1>4 DEF KbdInv, Reading, KbdTypeOK
<1> QED
    BY <1>2, <1>5, <1>6, <1>7 DEF KbdInv, Fresh, Asked, Filled

LEMMA PollInv == ASSUME KbdInv, Poll PROVE KbdInv'
<1>1. /\ step = "idle" /\ step' = "count" /\ retval' = 0 /\ events' = Cleared
      /\ UNCHANGED <<down, fifo, accepted, count, i, view, polled, failed, stale>>
    BY DEF Poll, controller, failures
<1>2. Capacity - 1 \in 0..Capacity - 1
    BY Sizes
<1>3. KbdTypeOK'
    BY <1>1, <1>2, ClearedType, Sizes DEF KbdInv, KbdTypeOK
<1> QED
    BY <1>1, <1>3 DEF KbdInv, Fresh, Asked, Reading, Filled, Keyed

LEMMA NackInv == ASSUME KbdInv, Nack PROVE KbdInv'
<1>1. /\ failed < MaxFailures /\ failed' = failed + 1 /\ step' = "hung"
      /\ UNCHANGED <<down, fifo, accepted, retval, count, i, events, view, polled, stale>>
    BY DEF Nack, controller, call
<1>2. failed' \in 0..MaxFailures /\ stale' \in 0..failed'
    BY <1>1, Sizes DEF KbdInv, KbdTypeOK
<1>3. KbdTypeOK'
    BY <1>1, <1>2 DEF KbdInv, KbdTypeOK
<1> QED
    BY <1>1, <1>3 DEF KbdInv, Fresh, Asked, Reading, Filled, Keyed

\* A queue of at most 15 events has its length in the register's four bits.
LEMMA ReadCountInv == ASSUME KbdInv, ReadCount PROVE KbdInv'
<1>1. /\ step = "count" /\ count' = retval' % 16
      /\ step' = IF count' = 0 THEN "clear" ELSE "pop"
      /\ UNCHANGED <<down, fifo, accepted, i, events, view, polled, stale>>
    BY DEF ReadCount, controller
<1>2. count = 0 /\ i = 0 /\ retval = 0 /\ events = Cleared
    BY <1>1 DEF KbdInv, Fresh, Asked
<1>3. Len(fifo) \in Nat /\ Len(fifo) <= Depth
    BY ByteSeq DEF KbdInv, KbdTypeOK
<1>4. \/ retval' = Len(fifo) /\ failed' = failed
      \/ failed < MaxFailures /\ failed' = failed + 1 /\ retval' = 0
    BY <1>2 DEF ReadCount, CountRead
<1>5. retval' \in 0..Len(fifo) /\ count' = retval' /\ retval' \in Bytes /\ count' \in 0..Depth
  <2>1. retval' \in Nat /\ retval' <= Len(fifo) /\ retval' <= Depth /\ retval' <= 15
      BY <1>3, <1>4, Sizes
  <2>2. retval' % 16 = retval'
    <3>1. \A n \in 0..15 : n % 16 = n
        OBVIOUS
    <3>2. retval' \in 0..15
        BY <2>1
    <3> QED
        BY <3>1, <3>2, Zenon
  <2>3. count' = retval'
      BY <1>1, <2>2
  <2>4. retval' \in 0..Len(fifo)
      BY <1>3, <2>1
  <2>5. retval' \in Bytes
      BY <2>1 DEF Bytes
  <2>6. retval' \in 0..Depth
      BY <2>1, Sizes
  <2> QED
      BY <2>3, <2>4, <2>5, <2>6
<1>6. failed' \in 0..MaxFailures /\ stale' \in 0..failed'
    BY <1>1, <1>4, Sizes DEF KbdInv, KbdTypeOK
<1>7. KbdTypeOK'
  <2>1. i' \in 0..count' /\ step' \in {"clear", "pop"}
    <3>1. i' = 0 /\ step' \in {"clear", "pop"}
        BY <1>1, <1>2
    <3>2. \A n \in 0..Depth : n \in Nat /\ 0 \in 0..n
        BY Sizes
    <3> QED
        BY <1>5, <3>1, <3>2
  <2> QED
      BY <1>1, <1>5, <1>6, <2>1 DEF KbdInv, KbdTypeOK
<1>8. count' # 0 => Key(retval') # 0
  <2>1. \A n \in 1..15 : n % 128 # 0
      OBVIOUS
  <2>2. count' # 0 => retval' \in 1..15
    <3>1. \A n \in 0..Depth : n # 0 => n \in 1..15
        BY Sizes
    <3> QED
        BY <1>5, <3>1
  <2> QED
      BY <2>1, <2>2 DEF Key
<1>9. Reading'
  <2>1. count' \in Nat /\ count' <= Len(fifo)
    <3>1. \A n \in 0..Len(fifo) : n \in Nat /\ n <= Len(fifo)
        BY <1>3
    <3> QED
        BY <1>5, <3>1
  <2>2. i' = 0 /\ Len(fifo') = Len(fifo)
      BY <1>1, <1>2
  <2> QED
      BY <1>1, <1>3, <1>8, <2>1, <2>2 DEF Reading
<1>10. Filled'
    BY <1>1, <1>2, ClearedType DEF Filled
<1> QED
    BY <1>1, <1>7, <1>9, <1>10 DEF KbdInv, Fresh, Asked, Keyed

\* What one transfer does to the queue and to the byte.
LEMMA PopEffect ==
    ASSUME KbdInv, Pop
    PROVE  /\ fifo # <<>> /\ i \in Nat /\ count \in Nat /\ i < count
           /\ \/ retval' = Head(fifo) /\ fifo' = Tail(fifo) /\ failed' = failed /\ stale' = stale
              \/ /\ retval' = retval /\ fifo' \in {fifo, Tail(fifo)}
                 /\ failed < MaxFailures /\ failed' = failed + 1 /\ stale' = stale + 1
           /\ Key(retval') # 0 /\ retval' \in Bytes
           /\ i' = i + 1 /\ events' = [events EXCEPT ![i] = retval']
           /\ step' = IF i' = count THEN "clear" ELSE "pop"
           /\ UNCHANGED <<down, accepted, count, view, polled>>
<1>1. step = "pop" /\ i < count /\ count <= i + Len(fifo) /\ Key(retval) # 0
    BY DEF KbdInv, Reading, Pop
<1>2. /\ i \in Nat /\ count \in Nat /\ fifo \in Seq(Bytes) /\ retval \in Bytes
    BY Sizes DEF KbdInv, KbdTypeOK
<1>3. fifo # <<>>
    BY <1>1, <1>2
<1>4. Head(fifo) \in Bytes /\ Key(Head(fifo)) # 0
    BY <1>2, <1>3, QueueTail, ByteSeq DEF KbdInv, Keyed
<1>5. \/ retval' = Head(fifo) /\ fifo' = Tail(fifo) /\ failed' = failed /\ stale' = stale
      \/ /\ retval' = retval /\ fifo' \in {fifo, Tail(fifo)}
         /\ failed < MaxFailures /\ failed' = failed + 1 /\ stale' = stale + 1
    BY <1>3 DEF Pop, Popped, Rest, failures
<1> QED
    BY <1>1, <1>2, <1>3, <1>4, <1>5 DEF Pop

LEMMA PopInv == ASSUME KbdInv, Pop PROVE KbdInv'
<1>1. /\ fifo # <<>> /\ i \in Nat /\ count \in Nat /\ i < count /\ i' = i + 1 /\ count' = count
      /\ Key(retval') # 0 /\ retval' \in Bytes /\ events' = [events EXCEPT ![i] = retval']
      /\ step' = IF i' = count THEN "clear" ELSE "pop"
      /\ UNCHANGED <<down, accepted, view, polled>>
      /\ fifo' \in {fifo, Tail(fifo)}
    BY PopEffect
<1>2. fifo \in Seq(Bytes) /\ Len(fifo) <= Depth /\ count <= Depth /\ step = "pop"
      /\ events \in [0..Capacity - 1 -> Bytes] /\ events[Capacity - 1] = 0
      /\ Len(fifo) \in Nat
    BY ByteSeq, Sizes DEF KbdInv, KbdTypeOK, Pop
<1>3. /\ fifo' \in Seq(Bytes) /\ Len(fifo') <= Depth /\ Len(fifo') \in Nat /\ Len(fifo) <= Len(fifo') + 1
  <2>1. Tail(fifo) \in Seq(Bytes) /\ Len(Tail(fifo)) = Len(fifo) - 1 /\ Len(Tail(fifo)) \in Nat
      BY <1>1, <1>2, QueueTail, ByteSeq
  <2>2. CASE fifo' = fifo
      BY <1>2, <2>2
  <2>3. CASE fifo' = Tail(fifo)
      BY <1>2, <2>1, <2>3, Sizes
  <2> QED
      BY <1>1, <2>2, <2>3
<1>4. /\ i \in 0..Capacity - 1 /\ i # Capacity - 1
      /\ events' \in [0..Capacity - 1 -> Bytes] /\ events'[Capacity - 1] = 0
      /\ \A k \in 0..Capacity - 1 : events'[k] = IF k = i THEN retval' ELSE events[k]
    BY <1>1, <1>2, Sizes
<1>5. failed' \in 0..MaxFailures /\ stale' \in 0..failed'
    BY PopEffect, Sizes DEF KbdInv, KbdTypeOK
<1>6. count' \in 0..Depth /\ i' \in 0..count'
    BY <1>1, <1>2, Sizes
<1>7. KbdTypeOK'
    BY <1>1, <1>3, <1>4, <1>5, <1>6 DEF KbdInv, KbdTypeOK
<1>8. Filled'
  <2>1. ASSUME NEW k \in 0..Capacity - 1
        PROVE  IF k < i' THEN Key(events'[k]) # 0 ELSE events'[k] = 0
    <3>1. IF k < i THEN Key(events[k]) # 0 ELSE events[k] = 0
        BY <1>2 DEF KbdInv, Filled
    <3> QED
        BY <1>1, <1>4, <3>1
  <2> QED
      BY <1>1, <2>1 DEF Filled
<1>9. Reading'
  <2>1. count <= i + Len(fifo)
      BY <1>2 DEF KbdInv, Reading
  <2> QED
      BY <1>1, <1>3, <2>1 DEF Reading
<1>10. Keyed'
  <2>1. CASE fifo' = fifo
      BY <2>1 DEF KbdInv, Keyed
  <2>2. CASE fifo' = Tail(fifo)
    <3>1. \A k \in DOMAIN fifo' : k + 1 \in DOMAIN fifo /\ fifo'[k] = fifo[k + 1]
        BY <1>1, <1>2, <1>3, <2>2, QueueTail, ByteSeq
    <3> QED
        BY <3>1 DEF KbdInv, Keyed
  <2> QED
      BY <1>1, <2>1, <2>2
<1> QED
    BY <1>1, <1>7, <1>8, <1>9, <1>10 DEF KbdInv, Fresh, Asked

\* What this call has read is a sequence of bytes.
LEMMA ReadType ==
    ASSUME KbdTypeOK
    PROVE  Read \in Seq(Bytes) /\ Len(Read) = i /\ i \in Nat /\ \A k \in 1..i : Read[k] = events[k - 1]
<1>1. i \in Nat /\ i <= Capacity - 1 /\ events \in [0..Capacity - 1 -> Bytes]
    BY Sizes DEF KbdTypeOK
<1>2. \A k \in 1..i : k - 1 \in 0..Capacity - 1 /\ events[k - 1] \in Bytes
    BY <1>1, Sizes
<1> QED
    BY <1>1, <1>2 DEF Read

\* A script is handed exactly what the call has read.
LEMMA HandedOutIsRead ==
    ASSUME KbdInv, step = "clear" PROVE HandedOut = Read
<1> DEFINE IsEnd(k) == Key(events[k]) = 0 /\ \A j \in 0..k - 1 : Key(events[j]) # 0
           end == CHOOSE k \in 0..Capacity - 1 : IsEnd(k)
<1>1. /\ \A k \in 0..Capacity - 1 : IF k < i THEN Key(events[k]) # 0 ELSE events[k] = 0
      /\ i \in 0..Capacity - 1 /\ Capacity \in Nat
    BY Sizes DEF KbdInv, Filled, KbdTypeOK
<1>2. IsEnd(i)
  <2>1. Key(events[i]) = 0
      BY <1>1, Sizes
  <2>2. \A j \in 0..i - 1 : j \in 0..Capacity - 1 /\ j < i
      BY <1>1
  <2> QED
      BY <1>1, <2>1, <2>2
<1>3. \A k \in 0..Capacity - 1 : IsEnd(k) => k = i
  <2> SUFFICES ASSUME NEW k \in 0..Capacity - 1, IsEnd(k) PROVE k = i
      OBVIOUS
  <2>1. ~(k < i)
      BY <1>1
  <2>2. ~(i < k)
    <3>1. i < k => i \in 0..k - 1
        BY <1>1
    <3> QED
        BY <1>2, <3>1
  <2> QED
      BY <1>1, <2>1, <2>2
<1>4. end = i
  <2> HIDE DEF IsEnd
  <2> QED
      BY <1>1, <1>2, <1>3
<1> HIDE DEF end
<1> QED
    BY <1>4 DEF HandedOut, Read, end

LEMMA FinishInv == ASSUME KbdInv, Finish PROVE KbdInv'
<1>1. /\ step = "clear" /\ step' = "idle" /\ count' = 0 /\ i' = 0
      /\ view' = Told(HandedOut) /\ polled' = polled \o Read
      /\ UNCHANGED <<down, fifo, accepted, retval, events, failed, stale>>
    BY HandedOutIsRead DEF Finish, controller, failures
<1>2. polled' \in Seq(Bytes)
    BY <1>1, ReadType, ConcatProperties DEF KbdInv, KbdTypeOK
<1>3. view' \in [Keys -> {0, 1, Untold}]
    BY <1>1 DEF Told, Bit, KbdInv, KbdTypeOK
<1>4. KbdTypeOK'
    BY <1>1, <1>2, <1>3, Sizes DEF KbdInv, KbdTypeOK
<1> QED
    BY <1>1, <1>4 DEF KbdInv, Fresh, Asked, Reading, Filled, Keyed

LEMMA KbdInvStep == KbdInv /\ [KbdNext]_kbdVars => KbdInv'
<1> SUFFICES ASSUME KbdInv, [KbdNext]_kbdVars PROVE KbdInv'
    OBVIOUS
<1>1. CASE UNCHANGED kbdVars
    BY <1>1 DEF kbdVars, controller, call, failures, KbdInv, KbdTypeOK, Fresh, Asked, Reading,
                Filled, Keyed
<1> QED
    BY <1>1, KeyChangeInv, PollInv, NackInv, ReadCountInv, PopInv, FinishInv DEF KbdNext

\* The types and what they rest on, for every set of keys, queue and array.
THEOREM KbdInvariant == KbdSpec => []KbdInv
    BY KbdInitInv, KbdInvStep, PTL DEF KbdSpec

\* The variables of the keyboard keep their types: the index stays in the
\* array and the array keeps an element without a key, at which _poll stops,
\* whichever transfers fail.
THEOREM KbdTypeCorrect == KbdSpec => []KbdTypeOK
<1>1. KbdInv => KbdTypeOK
    BY DEF KbdInv
<1> QED
    BY <1>1, KbdInvariant, PTL

-----------------------------------------------------------------------------
(* Keyboard: order *)

\* The events handed out, read and queued are sequences of bytes.
LEMMA EventsType ==
    ASSUME KbdTypeOK
    PROVE  /\ polled \in Seq(Bytes) /\ Read \in Seq(Bytes) /\ fifo \in Seq(Bytes)
           /\ accepted \in Seq(Bytes) /\ polled \o Read \in Seq(Bytes)
           /\ Len(polled \o Read \o fifo) = Len(polled) + i + Len(fifo)
           /\ Len(polled) \in Nat /\ i \in Nat /\ Len(fifo) \in Nat /\ Len(accepted) \in Nat
           /\ stale \in Nat
<1>1. polled \in Seq(Bytes) /\ Read \in Seq(Bytes) /\ fifo \in Seq(Bytes) /\ accepted \in Seq(Bytes)
      /\ Len(Read) = i
    BY ReadType DEF KbdTypeOK
<1>2. polled \o Read \in Seq(Bytes) /\ Len(polled \o Read) = Len(polled) + i
    BY <1>1, ConcatProperties
<1>3. Len((polled \o Read) \o fifo) = Len(polled \o Read) + Len(fifo)
    BY <1>1, <1>2, ConcatProperties
<1>4. Len(polled) \in Nat /\ Len(fifo) \in Nat /\ Len(accepted) \in Nat /\ stale \in Nat /\ i \in Nat
    BY <1>1, ByteSeq, ReadType, Sizes DEF KbdTypeOK
<1> QED
    BY <1>1, <1>2, <1>3, <1>4

LEMMA KeyChangeOrder ==
    ASSUME KbdInv, InOrder, NEW key \in Keys, KeyChange(key) PROVE InOrder'
<1> DEFINE b == Byte(key, IF key \in down THEN 0 ELSE 1)
<1>1. b \in Bytes
    BY KeyByte
<1> HIDE DEF b
<1>2. /\ \/ fifo' = fifo /\ accepted' = accepted
         \/ fifo' = Append(fifo, b) /\ accepted' = Append(accepted, b)
      /\ polled' = polled /\ Read' = Read /\ stale' = stale
    BY DEF KeyChange, call, failures, Read, b
<1>3. /\ polled \o Read \in Seq(Bytes) /\ fifo \in Seq(Bytes) /\ accepted \in Seq(Bytes)
      /\ polled \o Read \o fifo \in Seq(Bytes)
      /\ Len(polled \o Read \o fifo) \in Nat /\ Len(accepted) \in Nat /\ stale \in Nat
    BY EventsType, ConcatProperties DEF KbdInv
<1>4. CASE fifo' = fifo /\ accepted' = accepted
    BY <1>2, <1>4 DEF InOrder
<1>5. CASE fifo' = Append(fifo, b) /\ accepted' = Append(accepted, b)
  <2>1. (polled \o Read) \o Append(fifo, b) = Append(polled \o Read \o fifo, b)
      BY <1>1, <1>3, AppendBehind
  <2>2. /\ Len(Append(polled \o Read \o fifo, b)) = Len(polled \o Read \o fifo) + 1
        /\ Len(Append(accepted, b)) = Len(accepted) + 1
      BY <1>1, <1>3, AppendProperties
  <2> QED
      BY <1>2, <1>3, <1>5, <2>1, <2>2 DEF InOrder
<1> QED
    BY <1>2, <1>4, <1>5

\* What a call has read, as a sequence of its own, and the length of three
\* sequences on end.
LEMMA ReadSeq ==
    ASSUME NEW n \in 0..Capacity, NEW e \in [0..Capacity - 1 -> Bytes]
    PROVE  /\ [k \in 1..n |-> e[k - 1]] \in Seq(Bytes)
           /\ Len([k \in 1..n |-> e[k - 1]]) = n
<1>1. n \in Nat /\ \A k \in 1..n : k - 1 \in 0..Capacity - 1
    BY Sizes
<1>2. \A k \in 1..n : e[k - 1] \in Bytes
    BY <1>1
<1> HIDE DEF Bytes
<1> QED
    BY <1>1, <1>2

LEMMA LengthOfThree ==
    ASSUME NEW a \in Seq(Bytes), NEW b \in Seq(Bytes), NEW c \in Seq(Bytes)
    PROVE  Len(a \o b \o c) = Len(a) + Len(b) + Len(c)
<1>1. a \o b \in Seq(Bytes) /\ Len(a \o b) = Len(a) + Len(b)
    BY ConcatProperties
<1> QED
    BY <1>1, ConcatProperties

LEMMA PopOrder ==
    ASSUME KbdInv, KbdInv', InOrder, Pop PROVE InOrder'
<1>1. /\ fifo # <<>> /\ i' = i + 1 /\ events' = [events EXCEPT ![i] = retval'] /\ retval' \in Bytes
      /\ \/ retval' = Head(fifo) /\ fifo' = Tail(fifo) /\ stale' = stale
         \/ fifo' \in {fifo, Tail(fifo)} /\ stale' = stale + 1
      /\ polled' = polled /\ accepted' = accepted
    BY PopEffect
<1>2. /\ polled \in Seq(Bytes) /\ Read \in Seq(Bytes) /\ fifo \in Seq(Bytes)
      /\ Len(polled \o Read \o fifo) = Len(polled) + i + Len(fifo)
      /\ Len(polled) \in Nat /\ i \in Nat /\ Len(fifo) \in Nat /\ Len(accepted) \in Nat
      /\ stale \in Nat
    BY EventsType DEF KbdInv
<1>3. /\ Read' \in Seq(Bytes) /\ Len(polled' \o Read' \o fifo') = Len(polled') + i' + Len(fifo')
      /\ Len(Read') = i' /\ \A k \in 1..i' : Read'[k] = events'[k - 1]
  <2>1. /\ polled' \in Seq(Bytes) /\ fifo' \in Seq(Bytes)
        /\ events' \in [0..Capacity - 1 -> Bytes] /\ count' \in 0..Depth /\ i' \in 0..count'
      BY DEF KbdInv, KbdTypeOK
  <2>2. i' \in 0..Capacity
      BY <2>1, Sizes
  <2>3. Read' \in Seq(Bytes) /\ Len(Read') = i'
      BY <2>1, <2>2, ReadSeq DEF Read
  <2>4. Len(polled' \o Read' \o fifo') = Len(polled') + Len(Read') + Len(fifo')
      BY <2>1, <2>3, LengthOfThree
  <2>5. \A k \in 1..i' : Read'[k] = events'[k - 1]
      BY DEF Read
  <2> QED
      BY <2>3, <2>4, <2>5
<1>4. Len(fifo') \in Nat /\ Len(fifo') <= Len(fifo) /\ (fifo' = Tail(fifo) => Len(fifo') = Len(fifo) - 1)
    BY <1>1, <1>2, QueueTail
<1>5. Len(polled' \o Read' \o fifo') <= Len(accepted') + stale'
  <2>1. Len(polled) + i + Len(fifo) <= Len(accepted) + stale
      BY <1>2 DEF InOrder
  <2>2. /\ Len(polled') = Len(polled) /\ Len(accepted') = Len(accepted)
        /\ Len(polled' \o Read' \o fifo') = Len(polled) + (i + 1) + Len(fifo')
      BY <1>1, <1>3
  <2>3. CASE stale' = stale + 1
      BY <1>2, <1>4, <2>1, <2>2, <2>3
  <2>4. CASE stale' = stale /\ fifo' = Tail(fifo)
    <3>1. Len(fifo') = Len(fifo) - 1
        BY <1>4, <2>4
    <3>2. /\ Len(polled) \in Nat /\ i \in Nat /\ Len(fifo) \in Nat /\ Len(accepted) \in Nat
          /\ stale \in Nat
        BY <1>2
    <3>3. Len(polled) + (i + 1) + Len(fifo') = Len(polled) + i + Len(fifo)
        BY <3>1, <3>2
    <3> QED
        BY <2>1, <2>2, <2>4, <3>3
  <2> QED
      BY <1>1, <2>3, <2>4
<1>6. ASSUME stale' = 0 PROVE polled' \o Read' \o fifo' = accepted'
  <2>1. stale = 0 /\ retval' = Head(fifo) /\ fifo' = Tail(fifo)
      BY <1>1, <1>2, <1>6
  <2>2. Read' = Append(Read, Head(fifo))
    <3> DEFINE a == Append(Read, Head(fifo))
    <3>1. /\ a \in Seq(Bytes) /\ Len(a) = i + 1
          /\ \A k \in 1..i : a[k] = Read[k]
          /\ a[i + 1] = Head(fifo)
        BY <1>1, <1>2, <2>1, ReadType, AppendProperties DEF KbdInv
    <3> HIDE DEF a
    <3>2. i \in 0..Capacity - 1 /\ events \in [0..Capacity - 1 -> Bytes]
        BY PopEffect, Sizes DEF KbdInv, KbdTypeOK
    <3>3. ASSUME NEW k \in 1..i + 1 PROVE Read'[k] = a[k]
      <4>1. Read'[k] = events'[k - 1]
          BY <1>1, <1>3
      <4>2. CASE k = i + 1
        <5>1. k - 1 = i
            BY <1>2, <4>2
        <5>2. events'[i] = retval'
            BY <1>1, <3>2
        <5> QED
            BY <2>1, <3>1, <4>1, <4>2, <5>1, <5>2
      <4>3. CASE k # i + 1
        <5> i \in Nat /\ Capacity \in Nat
            BY <1>2, Sizes
        <5>1. k \in 1..i /\ k - 1 # i /\ k - 1 \in 0..Capacity - 1
            BY <3>2, <4>3
        <5>2. Read[k] = events[k - 1]
            BY <5>1, ReadType DEF KbdInv
        <5> QED
            BY <1>1, <3>1, <3>2, <4>1, <5>1, <5>2
      <4> QED
          BY <4>2, <4>3
    <3>4. Read' = a
        BY <1>1, <1>3, <3>1, <3>3, SeqEqual
    <3> QED
        BY <3>4 DEF a
  <2>3. polled \o Append(Read, Head(fifo)) = Append(polled \o Read, Head(fifo))
      BY <1>1, <1>2, QueueTail, AppendBehind
  <2>4. polled \o Read \in Seq(Bytes)
      BY <1>2, ConcatProperties
  <2>5. Append(polled \o Read, Head(fifo)) \o Tail(fifo) = (polled \o Read) \o fifo
      BY <1>1, <1>2, <2>4, MoveHead
  <2> QED
      BY <1>1, <2>1, <2>2, <2>3, <2>5 DEF InOrder
<1> QED
    BY <1>5, <1>6 DEF InOrder
\* The steps that read and queue nothing: the call has read nothing when the
\* array is cleared.
LEMMA StillOrder ==
    ASSUME KbdInv, InOrder, Poll \/ Nack \/ ReadCount \/ UNCHANGED kbdVars PROVE InOrder'
<1>1. /\ polled' = polled /\ fifo' = fifo /\ accepted' = accepted /\ stale' = stale
      /\ i' = i
    BY DEF Poll, Nack, ReadCount, kbdVars, controller, call, failures
<1>2. Read' = Read
  <2>1. CASE events' = events
      BY <1>1, <2>1 DEF Read
  <2>2. CASE i = 0
    <3>1. \A e : [k \in 1..i |-> e[k - 1]] = <<>>
        BY <2>2
    <3> QED
        BY <1>1, <3>1 DEF Read
  <2>3. Poll => i = 0
      BY DEF Poll, KbdInv, Fresh
  <2> QED
      BY <2>1, <2>2, <2>3 DEF Nack, ReadCount, kbdVars
<1> QED
    BY <1>1, <1>2 DEF InOrder

LEMMA FinishOrder ==
    ASSUME KbdInv, InOrder, Finish PROVE InOrder'
<1>1. /\ polled' = polled \o Read /\ i' = 0
      /\ fifo' = fifo /\ accepted' = accepted /\ stale' = stale
    BY HandedOutIsRead DEF Finish, controller, failures
<1>2. Read' = <<>>
  <2>1. \A e : [k \in 1..0 |-> e[k - 1]] = <<>>
      OBVIOUS
  <2> QED
      BY <1>1, <2>1 DEF Read
<1>3. polled \o Read \in Seq(Bytes)
    BY EventsType DEF KbdInv
<1>4. (polled \o Read) \o <<>> = polled \o Read
    BY <1>3, ConcatEmptySeq
<1> QED
    BY <1>1, <1>2, <1>4 DEF InOrder

\* What was handed out, read and queued are the events as they happened, each
\* once, in their order, for every number of keys, events and failed
\* transfers; each failed read puts in at most one.
THEOREM EventsInOrder == KbdSpec => []InOrder
<1>1. KbdInit => InOrder
  <2> SUFFICES ASSUME KbdInit PROVE InOrder
      OBVIOUS
  <2>1. Read = <<>> /\ polled = <<>> /\ fifo = <<>> /\ accepted = <<>> /\ stale = 0
      BY DEF KbdInit, Read
  <2>2. <<>> \o <<>> \o <<>> = <<>>
      OBVIOUS
  <2>3. Len(<<>>) = 0
      OBVIOUS
  <2>4. polled \o Read \o fifo = accepted /\ Len(polled \o Read \o fifo) = 0
      BY <2>1, <2>2, <2>3
  <2>5. Len(accepted) + stale = 0
      BY <2>1, <2>3
  <2> QED
      BY <2>4, <2>5 DEF InOrder
<1>2. KbdInv /\ KbdInv' /\ InOrder /\ [KbdNext]_kbdVars => InOrder'
    BY KeyChangeOrder, PopOrder, StillOrder, FinishOrder DEF KbdNext
<1> QED
    BY <1>1, <1>2, KbdInvariant, PTL DEF KbdSpec

-----------------------------------------------------------------------------
(* The two together *)

LEMMA HalStep ==
    ASSUME [HalNext]_halVars
    PROVE  [Next]_vars /\ [KbdNext]_kbdVars /\ observed' = observed
    BY DEF HalNext, TimerStep, KeyboardStep, halVars

\* Both devices keep their types - the counter its width, the index of a poll
\* its array - whichever is observed, for every width, delay, queue, array and
\* set of keys.
THEOREM HalTypeCorrect == HalSpec => []HalTypeOK
<1>1. HalInit => TypeOK /\ KbdInv /\ observed \in Devices
  <2>1. Init => TypeOK
      BY Zeros, Zenon DEF Init, TypeOK
  <2> QED
      BY <2>1, KbdInitInv DEF HalInit
<1>2. TypeOK /\ KbdInv /\ observed \in Devices /\ [HalNext]_halVars
          => TypeOK' /\ KbdInv' /\ (observed \in Devices)'
    BY HalStep, TypeStep, KbdInvStep
<1>3. TypeOK /\ KbdInv /\ observed \in Devices => HalTypeOK
    BY DEF KbdInv, HalTypeOK
<1> QED
    BY <1>1, <1>2, <1>3, PTL DEF HalSpec

\* A behaviour of Hal, whichever device it observes, is one of both, and has
\* what was shown of each: sleeps on time, events in order.
THEOREM DevicesCorrect == HalSpec => []Punctual /\ []InOrder
<1>1. HalInit => TypeOK /\ SleepInv /\ WaitInv
  <2>1. Init => TypeOK
      BY Zeros, Zenon DEF Init, TypeOK
  <2>2. Init => SleepInv /\ WaitInv
      BY DelayAssumption DEF Init, SleepInv, WaitInv
  <2> QED
      BY <2>1, <2>2 DEF HalInit
<1>2. TypeOK /\ SleepInv /\ WaitInv /\ [HalNext]_halVars => TypeOK' /\ SleepInv' /\ WaitInv'
    BY HalStep, TypeStep, SleepStep, WaitStep
<1>3. TypeOK /\ SleepInv /\ WaitInv => Punctual
    BY InvMeans
<1>4. HalInit => KbdInit
    BY DEF HalInit
<1>5. [HalNext]_halVars => [KbdNext]_kbdVars
    BY HalStep
<1>6. HalSpec => KbdSpec
    BY <1>4, <1>5, PTL DEF HalSpec, KbdSpec
<1> QED
    BY <1>1, <1>2, <1>3, <1>6, EventsInOrder, PTL DEF HalSpec
=============================================================================
