------------------------- MODULE TimerManagerProofs -------------------------
(***************************************************************************)
(* TimerManager, for every set of timers, every wheel and every clock:     *)
(* types; that the wheel is not turned by more than the time that has      *)
(* passed; that its lists stay lists; and that it implements TimerService. *)
(***************************************************************************)
EXTENDS TimerManager, Integers, TLAPS

WheelType == [head : [SlotIndices -> Timers \cup {None}], prev : Links, next : Links,
              slot : [Timers -> SlotIndices], rotation : [Timers -> Nat]]

\* A scan is the work of a tick that CheckTick has still to count off.
TickInv == pc = "scan" => ticks > 0

\* What the wheel's thread has read of the clock, and what has passed since,
\* make the time, with at most one wrap in between.
ClockInv == pc \in {"tick", "check", "scan"} =>
                clock = IF oldtime + lag < ClockPeriod THEN oldtime + lag
                        ELSE oldtime + lag - ClockPeriod

WheelInv == TypeOK /\ TickInv /\ ClockInv

-----------------------------------------------------------------------------

LEMMA Division ==
    ASSUME NEW a \in Nat, NEW b \in Nat, b > 0
    PROVE  a \div b \in Nat /\ a % b \in 0 .. b - 1
<1>1. a \div b \in Int /\ a % b \in 0 .. b - 1
  OBVIOUS
<1>2. a \div b >= 0
  OBVIOUS
<1>3. QED
  BY <1>1, <1>2

\* The helpers of the wheel leave a wheel.
LEMMA CalculateType ==
    ASSUME TypeOK, NEW w \in WheelType, NEW t \in Timers
    PROVE  CalculateTimer(w, t) \in WheelType
<1>1. timeout[t] \in Nat /\ currentSlot \in Nat /\ SlotNum \in Nat /\ SlotNum > 0
  <2>1. timeout[t] \in Timeouts
    BY DEF TypeOK
  <2>2. currentSlot \in 0 .. SlotNum - 1
    BY DEF TypeOK, SlotIndices
  <2>3. timeout[t] \in Nat
    BY <2>1, TimeoutsAssumption
  <2>4. QED
    BY <2>2, <2>3, SlotNumAssumption
<1>2. 1 \div SlotNum \in Nat /\ timeout[t] \div SlotNum \in Nat
  BY <1>1, Division
<1>3. currentSlot + 1 \in Nat /\ currentSlot + timeout[t] \in Nat
  BY <1>1
<1>4. (currentSlot + 1) % SlotNum \in SlotIndices /\ (currentSlot + timeout[t]) % SlotNum \in SlotIndices
  BY <1>1, <1>3, Division DEF SlotIndices
<1>5. PICK r \in Nat, s \in SlotIndices :
           CalculateTimer(w, t) = [w EXCEPT !.rotation[t] = r, !.slot[t] = s]
  BY <1>2, <1>4 DEF CalculateTimer
<1>6. [w.rotation EXCEPT ![t] = r] \in [Timers -> Nat] /\ [w.slot EXCEPT ![t] = s] \in [Timers -> SlotIndices]
  BY DEF WheelType
<1>7. CalculateTimer(w, t) = [w EXCEPT !.rotation = [w.rotation EXCEPT ![t] = r],
                                       !.slot = [w.slot EXCEPT ![t] = s]]
  BY <1>5 DEF WheelType
<1>8. QED
  BY <1>6, <1>7 DEF WheelType

LEMMA AddType ==
    ASSUME NEW w \in WheelType, NEW t \in Timers
    PROVE  AddTimerToTimeWheel(w, t) \in WheelType
<1>1. w.slot[t] \in SlotIndices /\ w.head[w.slot[t]] \in Timers \cup {None}
  BY DEF WheelType
<1>2. QED
  BY <1>1, TimersAssumption DEF AddTimerToTimeWheel, WheelType, Links

LEMMA RemoveType ==
    ASSUME NEW w \in WheelType, NEW t \in Timers
    PROVE  RemoveTimerFromTimeWheel(w, t) \in WheelType
<1>1. /\ w.slot[t] \in SlotIndices /\ w.prev[t] \in Timers \cup {None} /\ w.next[t] \in Timers \cup {None}
      /\ w.prev \in Links /\ w.next \in Links
  BY DEF WheelType, Links
<1> DEFINE p == w.prev[t]
           n == w.next[t]
           next == [u \in Timers |-> IF u = t THEN None ELSE IF u = p THEN n ELSE w.next[u]]
           prev == [u \in Timers |-> IF u = t THEN None ELSE IF u = n THEN p ELSE w.prev[u]]
           head == IF p = None THEN [w.head EXCEPT ![w.slot[t]] = n] ELSE w.head
<1>2. next \in Links /\ prev \in Links
  BY <1>1 DEF Links
<1>3. head \in [SlotIndices -> Timers \cup {None}]
  BY <1>1 DEF WheelType
<1>4. Unhook(w, t) = [w EXCEPT !.head = head, !.next = next, !.prev = prev]
  BY DEF Unhook, WheelType
<1> HIDE DEF p, n, next, prev, head
<1>5. Unhook(w, t) \in WheelType
  BY <1>2, <1>3, <1>4 DEF WheelType
<1>6. QED
  BY <1>5 DEF RemoveTimerFromTimeWheel

LEMMA AdjustType ==
    ASSUME TypeOK, NEW w \in WheelType, NEW t \in Timers
    PROVE  AdjustTimerToWheel(w, t) \in WheelType
  BY CalculateType, AddType, RemoveType DEF AdjustTimerToWheel

LEMMA WheelInitInv == Init => WheelInv
<1>1. SUFFICES ASSUME Init PROVE WheelInv
  OBVIOUS
<1>2. 0 \in SlotIndices /\ 0 \in 0 .. MaxLag /\ 0 \in 0 .. ClockPeriod - 1 /\ 0 \in 0 .. MaxOps
  BY SlotNumAssumption, ClockAssumption DEF SlotIndices
<1>3. wheel \in WheelType
  BY <1>1, <1>2 DEF Init, WheelType, Links
<1>4. QED
  BY <1>1, <1>2, <1>3 DEF Init, WheelInv, TypeOK, WheelType, PcStates, TickInv, ClockInv

\* The calls of other threads.
LEMMA CallStep ==
    ASSUME WheelInv,
           \/ Start \/ Stop
           \/ \E t \in Timers : \/ AddTimer(t) \/ RemoveTimer(t) \/ AdjustTimer(t)
                                \/ \E T \in Timeouts, o \in BOOLEAN : Adjust(t, T, o)
    PROVE  WheelInv'
<1>1. TypeOK /\ TickInv /\ ClockInv /\ wheel \in WheelType
  BY DEF WheelInv, TypeOK, WheelType
<1>2. wheel' \in WheelType
  BY <1>1, CalculateType, AddType, RemoveType, AdjustType
     DEF AddTimer, RemoveTimer, AdjustTimer, Adjust, Start, Stop
<1>3. ops' \in 0 .. MaxOps /\ running' \in BOOLEAN
  <2>1. ops \in 0 .. MaxOps /\ MaxOps \in Nat
    BY <1>1, ClockAssumption DEF TypeOK
  <2>2. ops' = ops \/ (ops < MaxOps /\ ops' = ops + 1)
    BY DEF AddTimer, RemoveTimer, AdjustTimer, Adjust, Start, Stop, Call
  <2>3. ops' \in 0 .. MaxOps
    BY <2>1, <2>2
  <2>4. running \in BOOLEAN
    BY <1>1 DEF TypeOK
  <2>5. running' = running \/ running' = TRUE \/ running' = FALSE
    BY DEF AddTimer, RemoveTimer, AdjustTimer, Adjust, Start, Stop
  <2>6. running' \in BOOLEAN
    BY <2>4, <2>5
  <2>7. QED
    BY <2>3, <2>6
<1>4. timeout' \in [Timers -> Timeouts] /\ once' \in [Timers -> BOOLEAN]
  BY <1>1 DEF AddTimer, RemoveTimer, AdjustTimer, Adjust, Start, Stop, TypeOK
<1>5. /\ UNCHANGED <<currentSlot, ptimer, ticks, oldtime, clock, lag>>
      /\ pc' = pc \/ pc' = "start"
  BY DEF AddTimer, RemoveTimer, AdjustTimer, Adjust, Start, Stop, Call, threadVars
<1>6. TypeOK'
  BY <1>1, <1>2, <1>3, <1>4, <1>5 DEF TypeOK, WheelType, PcStates
<1>7. QED
  BY <1>1, <1>5, <1>6 DEF WheelInv, TickInv, ClockInv

\* The wheel's thread, between two steps of the clock.
LEMMA ThreadStepInv == ASSUME WheelInv, ThreadStep PROVE WheelInv'
<1>1. TypeOK /\ TickInv /\ ClockInv /\ wheel \in WheelType
  BY DEF WheelInv, TypeOK, WheelType
<1>2. UNCHANGED <<timeout, once, clock, running, ops>>
  BY DEF ThreadStep, ReadClock, CheckTick, TicksDone, CheckTimer, NotYet, FireTimer, Scan, ScanDone
<1>3. wheel' \in WheelType /\ ptimer' \in Timers \cup {None}
  <2>1. CASE ReadClock \/ CheckTick \/ TicksDone \/ ScanDone
    BY <1>1, <2>1 DEF ReadClock, CheckTick, TicksDone, ScanDone, TypeOK
  <2>2. CASE CheckTimer
    BY <1>1, <2>2 DEF CheckTimer, TypeOK
  <2>3. CASE NotYet \/ FireTimer
    <3>1. ptimer \in Timers /\ ptimer' = wheel.next[ptimer]
      BY <1>1, <2>3 DEF NotYet, FireTimer, Scan, TypeOK
    <3>2. ptimer' \in Timers \cup {None}
      BY <1>1, <3>1 DEF WheelType, Links
    <3>3. \A w \in WheelType : w.rotation[ptimer] > 0 => [w EXCEPT !.rotation[ptimer] = @ - 1] \in WheelType
      <4>1. SUFFICES ASSUME NEW w \in WheelType, w.rotation[ptimer] > 0
                     PROVE  [w EXCEPT !.rotation[ptimer] = @ - 1] \in WheelType
        OBVIOUS
      <4>2. [w.rotation EXCEPT ![ptimer] = @ - 1] \in [Timers -> Nat]
        BY <3>1, <4>1 DEF WheelType
      <4>3. QED
        BY <4>1, <4>2 DEF WheelType
    <3>4. CASE NotYet
      BY <1>1, <3>2, <3>3, <3>4 DEF NotYet
    <3>5. CASE FireTimer
      <4>1. /\ AdjustTimerToWheel(wheel, ptimer) \in WheelType
            /\ RemoveTimerFromTimeWheel(wheel, ptimer) \in WheelType
        BY <1>1, <3>1, AdjustType, RemoveType
      <4>2. QED
        BY <3>2, <3>3, <3>5, <4>1 DEF FireTimer
    <3>6. QED
      BY <2>3, <3>4, <3>5
  <2>4. QED
    BY <2>1, <2>2, <2>3 DEF ThreadStep
<1>4. /\ ticks' \in Nat /\ lag' \in 0 .. MaxLag /\ oldtime' \in 0 .. ClockPeriod - 1
      /\ TickInv' /\ ClockInv'
  <2>1. /\ ticks \in Nat /\ lag \in 0 .. MaxLag /\ oldtime \in 0 .. ClockPeriod - 1
        /\ clock \in 0 .. ClockPeriod - 1 /\ MaxLag \in Nat /\ ClockPeriod \in Nat
    BY <1>1, ClockAssumption DEF TypeOK
  <2>2. CASE ReadClock \/ CheckTick
    BY <1>1, <2>1, <2>2 DEF ReadClock, CheckTick, Goto, TickInv, ClockInv
  <2>3. CASE TicksDone \/ CheckTimer \/ NotYet \/ FireTimer \/ ScanDone
    BY <1>1, <2>1, <2>3 DEF TicksDone, CheckTimer, NotYet, FireTimer, Scan, ScanDone, Goto, TickInv, ClockInv
  <2>4. QED
    BY <2>2, <2>3 DEF ThreadStep
<1>5. pc' \in PcStates
  BY <1>1 DEF ThreadStep, ReadClock, CheckTick, TicksDone, CheckTimer, NotYet, FireTimer, Scan, ScanDone, Goto,
              TypeOK, PcStates
<1>6. currentSlot' \in SlotIndices
  <2>1. SlotNum \in Nat /\ SlotNum > 0 /\ currentSlot + 1 \in Nat
    BY <1>1, SlotNumAssumption DEF TypeOK, SlotIndices
  <2>2. (currentSlot + 1) % SlotNum \in SlotIndices
    BY <2>1, Division DEF SlotIndices
  <2>3. QED
    BY <1>1, <2>2 DEF ThreadStep, ReadClock, CheckTick, TicksDone, CheckTimer, NotYet, FireTimer, Scan, ScanDone,
                      TypeOK
<1>7. TypeOK'
  BY <1>1, <1>2, <1>3, <1>4, <1>5, <1>6 DEF TypeOK, WheelType
<1>8. QED
  BY <1>4, <1>7 DEF WheelInv

\* A millisecond more, and a wrap at the end of the period.
LEMMA AdvanceInv == ASSUME WheelInv, Advance PROVE WheelInv'
<1>1. TypeOK /\ TickInv /\ ClockInv
  BY DEF WheelInv
<1>2. /\ lag \in 0 .. MaxLag /\ oldtime \in 0 .. ClockPeriod - 1 /\ clock \in 0 .. ClockPeriod - 1
      /\ MaxLag \in Nat /\ ClockPeriod \in Nat /\ MaxLag < ClockPeriod /\ lag < MaxLag
  BY <1>1, ClockAssumption DEF TypeOK, Advance
<1>3. clock' = IF clock + 1 = ClockPeriod THEN 0 ELSE clock + 1
  <2>1. clock' = (clock + 1) % ClockPeriod
    BY DEF Advance
  <2>2. CASE clock + 1 = ClockPeriod
    BY <1>2, <2>1, <2>2
  <2>3. CASE clock + 1 < ClockPeriod
    BY <1>2, <2>1, <2>3
  <2>4. QED
    BY <1>2, <2>2, <2>3
<1>4. lag' = IF pc = "none" THEN 0 ELSE lag + 1
  BY DEF Advance
<1>5. UNCHANGED <<wheel, timeout, once, threadVars, running, ops>>
  BY DEF Advance
<1>6. TypeOK'
  BY <1>1, <1>2, <1>3, <1>4, <1>5 DEF TypeOK, threadVars
<1>7. ClockInv'
  BY <1>1, <1>2, <1>3, <1>4, <1>5 DEF ClockInv, threadVars
<1>8. QED
  BY <1>1, <1>5, <1>6, <1>7 DEF WheelInv, TickInv, threadVars

LEMMA WheelStepInv == WheelInv /\ [Next]_vars => WheelInv'
<1>1. SUFFICES ASSUME WheelInv, [Next]_vars PROVE WheelInv'
  OBVIOUS
<1>2. CASE UNCHANGED vars
  BY <1>1, <1>2 DEF vars, threadVars, WheelInv, TypeOK, TickInv, ClockInv
<1>3. QED
  BY <1>1, <1>2, CallStep, ThreadStepInv, AdvanceInv DEF Next

LEMMA WheelAlways == Spec => []WheelInv
  BY WheelInitInv, WheelStepInv, PTL DEF Spec

-----------------------------------------------------------------------------

\* The types, through every change of the lists, for any timers and any wheel.
THEOREM WheelTypeCorrect == Spec => []TypeOK
<1>1. WheelInv => TypeOK
  BY DEF WheelInv
<1>2. QED
  BY <1>1, WheelAlways, PTL

\* CheckTick turns the wheel by no more slots than milliseconds have passed since
\* it last read the clock, also over a wrap (TimerManager.hpp:284), for any
\* period of the clock and any delay below it.
THEOREM NoTickFromNowhereHolds == Spec => NoTickFromNowhere
<1>1. WheelInv /\ [Next]_vars => [ticks' > ticks => ticks' <= lag]_vars
  <2>1. SUFFICES ASSUME WheelInv, Next, ticks' > ticks PROVE ticks' <= lag
    OBVIOUS
  <2>2. /\ ticks \in Nat /\ lag \in 0 .. MaxLag /\ oldtime \in 0 .. ClockPeriod - 1
        /\ clock \in 0 .. ClockPeriod - 1 /\ MaxLag \in Nat /\ ClockPeriod \in Nat
        /\ MaxLag < ClockPeriod /\ ClockInv
    BY <2>1, ClockAssumption DEF WheelInv, TypeOK
  <2>3. CheckTick
    BY <2>1, <2>2 DEF Next, ThreadStep, ReadClock, TicksDone, CheckTimer, NotYet, FireTimer, Scan, ScanDone,
                      Advance, Start, Stop, AddTimer, RemoveTimer, AdjustTimer, Adjust, Call, threadVars
  <2>4. QED
    BY <2>1, <2>2, <2>3 DEF CheckTick, ClockInv
<1>2. QED
  BY <1>1, WheelAlways, PTL DEF Spec, NoTickFromNowhere
-----------------------------------------------------------------------------
(* The lists.                                                              *)

HeadsFirst(w) == \A s \in SlotIndices :
    w.head[s] # None => w.slot[w.head[s]] = s /\ w.prev[w.head[s]] = None
Forward(w) == \A t \in Timers :
    w.next[t] # None => w.prev[w.next[t]] = t /\ w.slot[w.next[t]] = w.slot[t]
Backward(w) == \A t \in Timers : w.prev[t] # None => w.next[w.prev[t]] = t
Reached(w) == \A t \in Timers :
    IF InWheel(w, t) THEN t \in Chain(w, w.head[w.slot[t]]) ELSE w.next[t] = None

\* The lists of w are lists, and they have every timer that is in the wheel.
Sound(w) == w \in WheelType /\ HeadsFirst(w) /\ Forward(w) /\ Backward(w) /\ Reached(w)

LEMMA Fields ==
    ASSUME NEW w \in WheelType, NEW t \in Timers
    PROVE  /\ w.slot[t] \in SlotIndices /\ w.rotation[t] \in Nat
           /\ w.prev[t] \in Timers \cup {None} /\ w.next[t] \in Timers \cup {None}
           /\ \A s \in SlotIndices : w.head[s] \in Timers \cup {None}
BY DEF WheelType, Links

LEMMA ChainLeast ==
    ASSUME NEW w, NEW p, NEW S \in SUBSET Timers, Follows(w, p, S)
    PROVE  Chain(w, p) \subseteq S
BY DEF Chain

LEMMA ChainFollows ==
    ASSUME NEW w \in WheelType, NEW p \in Timers \cup {None}
    PROVE  Follows(w, p, Chain(w, p)) /\ Chain(w, p) \in SUBSET Timers
<1>1. p # None => p \in Chain(w, p)
  BY DEF Chain, Follows
<1>2. ASSUME NEW t \in Chain(w, p), w.next[t] # None PROVE w.next[t] \in Chain(w, p)
  <2>1. t \in Timers /\ w.next[t] \in Timers
    BY <1>2, Fields DEF Chain
  <2>2. ASSUME NEW S \in SUBSET Timers, Follows(w, p, S) PROVE w.next[t] \in S
    <3>1. t \in S
      BY <1>2, <2>2 DEF Chain
    <3>2. w.next[t] \in S \cup {None}
      BY <2>2, <3>1 DEF Follows
    <3>3. QED
      BY <1>2, <3>2
  <2>3. QED
    BY <2>1, <2>2 DEF Chain
<1>3. QED
  BY <1>1, <1>2 DEF Follows, Chain

LEMMA ChainNone ==
    ASSUME NEW w
    PROVE  Chain(w, None) = {}
<1>1. Follows(w, None, {}) /\ {} \in SUBSET Timers
  BY DEF Follows
<1>2. QED
  BY <1>1, ChainLeast

LEMMA ChainUnfold ==
    ASSUME NEW w \in WheelType, NEW p \in Timers
    PROVE  Chain(w, p) = {p} \cup Chain(w, w.next[p])
<1>1. w.next[p] \in Timers \cup {None} /\ p # None
  BY Fields, TimersAssumption
<1>2. /\ Follows(w, p, Chain(w, p)) /\ Chain(w, p) \in SUBSET Timers
      /\ Follows(w, w.next[p], Chain(w, w.next[p])) /\ Chain(w, w.next[p]) \in SUBSET Timers
  BY <1>1, ChainFollows
<1>3. Follows(w, p, {p} \cup Chain(w, w.next[p]))
  BY <1>2 DEF Follows
<1>4. Chain(w, p) \subseteq {p} \cup Chain(w, w.next[p])
  BY <1>2, <1>3, ChainLeast
<1>5. p \in Chain(w, p) /\ Follows(w, w.next[p], Chain(w, p))
  BY <1>1, <1>2 DEF Follows
<1>6. Chain(w, w.next[p]) \subseteq Chain(w, p)
  BY <1>2, <1>5, ChainLeast
<1>7. QED
  BY <1>4, <1>5, <1>6

\* A change of next behind a list leaves it.
LEMMA ChainSame ==
    ASSUME NEW w \in WheelType, NEW v \in WheelType, NEW p \in Timers \cup {None},
           \A t \in Chain(w, p) : v.next[t] = w.next[t]
    PROVE  Chain(v, p) = Chain(w, p)
<1>1. /\ Follows(w, p, Chain(w, p)) /\ Chain(w, p) \in SUBSET Timers
      /\ Follows(v, p, Chain(v, p)) /\ Chain(v, p) \in SUBSET Timers
  BY ChainFollows
<1>2. Follows(v, p, Chain(w, p)) /\ Follows(w, p, Chain(w, p) \cap Chain(v, p))
  BY <1>1 DEF Follows
<1>3. Chain(v, p) \subseteq Chain(w, p) /\ Chain(w, p) \subseteq Chain(w, p) \cap Chain(v, p)
  BY <1>1, <1>2, ChainLeast
<1>4. QED
  BY <1>3

\* The list of a slot has timers of this slot, which are in the wheel.
LEMMA WheelListIs ==
    ASSUME NEW w, Sound(w), NEW s \in SlotIndices
    PROVE  \A t \in Chain(w, w.head[s]) : t \in Timers /\ InWheel(w, t) /\ w.slot[t] = s
<1> DEFINE S == {t \in Timers : InWheel(w, t) /\ w.slot[t] = s}
<1>1. w \in WheelType
  BY DEF Sound
<1>2. w.head[s] \in S \cup {None}
  <2>1. w.head[s] \in Timers \cup {None}
    BY <1>1 DEF WheelType
  <2>2. w.head[s] # None => w.slot[w.head[s]] = s
    BY DEF Sound, HeadsFirst
  <2>3. QED
    BY <2>1, <2>2 DEF InWheel
<1>3. ASSUME NEW t \in S PROVE w.next[t] \in S \cup {None}
  <2>1. w.next[t] \in Timers \cup {None} /\ t # None
    BY <1>1, Fields, TimersAssumption
  <2>2. w.next[t] # None => w.prev[w.next[t]] = t /\ w.slot[w.next[t]] = w.slot[t]
    BY DEF Sound, Forward
  <2>3. QED
    BY <2>1, <2>2 DEF InWheel
<1>4. Follows(w, w.head[s], S)
  BY <1>2, <1>3 DEF Follows
<1>5. Chain(w, w.head[s]) \subseteq S
  BY <1>4, ChainLeast
<1>6. QED
  BY <1>5

\* What follows a timer does not lead back to it.
LEMMA NoWayBack ==
    ASSUME NEW w, Sound(w), NEW t \in Timers, InWheel(w, t)
    PROVE  t \notin Chain(w, w.next[t])
<1> DEFINE C == Chain(w, w.next[t])
           E == {u \in C : u = w.next[t] \/ w.prev[u] \in C}
           h == w.head[w.slot[t]]
<1>1. SUFFICES ASSUME t \in C PROVE FALSE
  OBVIOUS
<1>2. w \in WheelType /\ w.slot[t] \in SlotIndices /\ w.next[t] \in Timers \cup {None} /\ h \in Timers \cup {None}
  BY Fields DEF Sound
<1>3. Follows(w, w.next[t], C) /\ C \in SUBSET Timers
  BY <1>2, ChainFollows
<1>4. Follows(w, w.next[t], E)
  <2>1. w.next[t] \in E \cup {None}
    BY <1>3 DEF Follows
  <2>2. ASSUME NEW u \in E PROVE w.next[u] \in E \cup {None}
    <3>1. u \in C /\ u \in Timers /\ w.next[u] \in C \cup {None}
      BY <1>3 DEF Follows
    <3>2. w.next[u] # None => w.prev[w.next[u]] = u
      BY <3>1 DEF Sound, Forward
    <3>3. QED
      BY <3>1, <3>2
  <2>3. QED
    BY <2>1, <2>2 DEF Follows
<1>5. C \subseteq E
  BY <1>3, <1>4, ChainLeast
<1>6. \A u \in C : w.prev[u] \in C
  <2>1. w.next[t] # None => w.prev[w.next[t]] = t
    BY DEF Sound, Forward
  <2>2. C # {}
    BY <1>1
  <2>3. w.next[t] # None
    BY <1>1, ChainNone
  <2>4. QED
    BY <1>1, <1>5, <2>1, <2>3
<1>7. h \notin C
  <2>1. h # None => w.prev[h] = None
    BY <1>2 DEF Sound, HeadsFirst
  <2>2. None \notin C
    BY <1>3, TimersAssumption
  <2>3. QED
    BY <1>6, <2>1, <2>2
<1>8. Follows(w, h, Timers \ C)
  <2>1. h \in (Timers \ C) \cup {None}
    BY <1>2, <1>7
  <2>2. ASSUME NEW u \in Timers \ C PROVE w.next[u] \in (Timers \ C) \cup {None}
    <3>1. w.next[u] \in Timers \cup {None}
      BY <1>2, Fields
    <3>2. w.next[u] # None => w.prev[w.next[u]] = u
      BY DEF Sound, Forward
    <3>3. QED
      BY <1>6, <3>1, <3>2
  <2>3. QED
    BY <2>1, <2>2 DEF Follows
<1>9. Chain(w, h) \subseteq Timers \ C
  BY <1>8, ChainLeast
<1>10. t \in Chain(w, h)
  BY DEF Sound, Reached
<1>11. QED
  BY <1>1, <1>9, <1>10

-----------------------------------------------------------------------------
(* What the calls do to the lists.                                         *)

\* Nothing but t comes or goes, and the others keep their place.
OthersStay(w, v, t) ==
    \A u \in Timers \ {t} : /\ InWheel(v, u) <=> InWheel(w, u)
                            /\ v.slot[u] = w.slot[u] /\ v.rotation[u] = w.rotation[u]

LEMMA UnhookIs ==
    ASSUME NEW w \in WheelType, NEW t \in Timers
    PROVE  LET v == Unhook(w, t)
               p == w.prev[t]
               n == w.next[t]
           IN  /\ v \in WheelType /\ v.slot = w.slot /\ v.rotation = w.rotation
               /\ \A s \in SlotIndices :
                      v.head[s] = IF p = None /\ s = w.slot[t] THEN n ELSE w.head[s]
               /\ \A u \in Timers : v.next[u] = IF u = t THEN None ELSE IF u = p THEN n ELSE w.next[u]
               /\ \A u \in Timers : v.prev[u] = IF u = t THEN None ELSE IF u = n THEN p ELSE w.prev[u]
<1> DEFINE p == w.prev[t]
           n == w.next[t]
           next == [u \in Timers |-> IF u = t THEN None ELSE IF u = p THEN n ELSE w.next[u]]
           prev == [u \in Timers |-> IF u = t THEN None ELSE IF u = n THEN p ELSE w.prev[u]]
           head == IF p = None THEN [w.head EXCEPT ![w.slot[t]] = n] ELSE w.head
<1>1. /\ w.slot[t] \in SlotIndices /\ p \in Timers \cup {None} /\ n \in Timers \cup {None}
      /\ w.prev \in Links /\ w.next \in Links
  BY DEF WheelType, Links
<1>2. next \in Links /\ prev \in Links
  BY <1>1 DEF Links
<1>3. head \in [SlotIndices -> Timers \cup {None}]
  BY <1>1 DEF WheelType
<1>4. \A s \in SlotIndices : head[s] = IF p = None /\ s = w.slot[t] THEN n ELSE w.head[s]
  BY <1>1 DEF WheelType
<1>5. \A u \in Timers :
         /\ next[u] = IF u = t THEN None ELSE IF u = p THEN n ELSE w.next[u]
         /\ prev[u] = IF u = t THEN None ELSE IF u = n THEN p ELSE w.prev[u]
  OBVIOUS
<1>6. Unhook(w, t) = [w EXCEPT !.head = head, !.next = next, !.prev = prev]
  BY DEF Unhook, WheelType
<1> HIDE DEF next, prev, head
<1>7. /\ Unhook(w, t) \in WheelType
      /\ Unhook(w, t).head = head /\ Unhook(w, t).next = next /\ Unhook(w, t).prev = prev
      /\ Unhook(w, t).slot = w.slot /\ Unhook(w, t).rotation = w.rotation
  BY <1>2, <1>3, <1>6 DEF WheelType
<1>8. QED
  BY <1>4, <1>5, <1>7

\* Who leaves his list leaves the rest of it.
LEMMA UnhookSound ==
    ASSUME NEW w, Sound(w), NEW t \in Timers, InWheel(w, t)
    PROVE  LET v == Unhook(w, t)
           IN  /\ Sound(v) /\ ~InWheel(v, t) /\ OthersStay(w, v, t)
               /\ Chain(v, w.next[t]) = Chain(w, w.next[t])
<1> DEFINE v == Unhook(w, t)
           p == w.prev[t]
           n == w.next[t]
           s == w.slot[t]
<1>1. /\ w \in WheelType /\ s \in SlotIndices /\ t # None
      /\ p \in Timers \cup {None} /\ n \in Timers \cup {None}
      /\ \A i \in SlotIndices : w.head[i] \in Timers \cup {None}
      /\ \A u \in Timers : w.slot[u] \in SlotIndices /\ w.next[u] \in Timers \cup {None}
  BY Fields, TimersAssumption DEF Sound
<1>2. /\ v \in WheelType /\ v.slot = w.slot /\ v.rotation = w.rotation
      /\ \A i \in SlotIndices : v.head[i] = IF p = None /\ i = s THEN n ELSE w.head[i]
      /\ \A u \in Timers : v.next[u] = IF u = t THEN None ELSE IF u = p THEN n ELSE w.next[u]
      /\ \A u \in Timers : v.prev[u] = IF u = t THEN None ELSE IF u = n THEN p ELSE w.prev[u]
  BY <1>1, UnhookIs
<1>3. /\ HeadsFirst(w) /\ Forward(w) /\ Backward(w) /\ Reached(w)
  BY DEF Sound
<1>4. /\ p = None <=> w.head[s] = t
      /\ p # None => w.next[p] = t /\ w.slot[p] = s /\ InWheel(w, p)
      /\ n # None => w.prev[n] = t /\ w.slot[n] = s /\ InWheel(w, n)
  <2>1. p = None <=> w.head[s] = t
    BY <1>1, <1>3 DEF HeadsFirst, InWheel
  <2>2. p # None => w.next[p] = t
    BY <1>3 DEF Backward
  <2>3. p # None => w.slot[p] = s
    BY <1>1, <1>3, <2>2 DEF Forward
  <2>4. p # None => InWheel(w, p)
    BY <1>1, <1>3, <2>2 DEF Reached
  <2>5. n # None => w.prev[n] = t /\ w.slot[n] = s
    BY <1>3 DEF Forward
  <2>6. QED
    BY <1>1, <2>1, <2>2, <2>3, <2>4, <2>5 DEF InWheel
<1>5. n # t /\ p # t /\ (n # None => n # p)
  <2>1. t \notin Chain(w, n)
    BY NoWayBack
  <2>2. n # t
    BY <1>1, <2>1, ChainUnfold
  <2>3. p # t
    BY <1>1, <1>4, <2>2
  <2>4. n # None => t \notin Chain(w, w.next[n])
    BY <1>1, <2>1, ChainUnfold
  <2>5. n # None => w.next[n] # t
    <3>1. SUFFICES ASSUME n # None, w.next[n] = t PROVE FALSE
      OBVIOUS
    <3>2. t \in Chain(w, t)
      BY <1>1, ChainUnfold
    <3>3. QED
      BY <2>4, <3>1, <3>2
  <2>6. QED
    BY <1>4, <2>2, <2>3, <2>5
<1> HIDE DEF v, p, n, s
<1>6. ~InWheel(v, t)
  <2>1. v.prev[t] = None /\ v.slot[t] = s
    BY <1>1, <1>2 DEF s
  <2>2. v.head[s] # t
    BY <1>1, <1>2, <1>4, <1>5
  <2>3. QED
    BY <2>1, <2>2 DEF InWheel
<1>7. ASSUME NEW u \in Timers \ {t} PROVE InWheel(v, u) <=> InWheel(w, u)
  <2>1. v.slot[u] = w.slot[u] /\ w.slot[u] \in SlotIndices
    BY <1>1, <1>2
  <2>2. CASE u = n
    <3>1. u # None /\ InWheel(w, u) /\ w.slot[u] = s
      BY <1>4, <2>2, TimersAssumption
    <3>2. v.prev[u] = p /\ (p = None => v.head[s] = u)
      BY <1>1, <1>2, <2>2, <1>5
    <3>3. InWheel(v, u)
      BY <2>1, <3>1, <3>2 DEF InWheel
    <3>4. QED
      BY <3>1, <3>3
  <2>3. CASE u # n
    <3>1. v.prev[u] = w.prev[u]
      BY <1>2, <2>3
    <3>2. v.head[w.slot[u]] = u <=> w.head[w.slot[u]] = u
      BY <1>1, <1>2, <1>4, <2>1, <2>3
    <3>3. QED
      BY <2>1, <3>1, <3>2 DEF InWheel
  <2>4. QED
    BY <2>2, <2>3
<1>8. OthersStay(w, v, t)
  BY <1>2, <1>7 DEF OthersStay
<1>9. HeadsFirst(v)
  <2>1. SUFFICES ASSUME NEW i \in SlotIndices, v.head[i] # None
                 PROVE  v.slot[v.head[i]] = i /\ v.prev[v.head[i]] = None
    BY DEF HeadsFirst
  <2>2. CASE p = None /\ i = s
    <3>1. v.head[i] = n /\ n # None /\ n \in Timers
      BY <1>1, <1>2, <2>1, <2>2
    <3>2. v.prev[n] = None
      BY <1>2, <1>5, <2>2, <3>1
    <3>3. QED
      BY <1>2, <1>4, <2>2, <3>1, <3>2
  <2>3. CASE ~(p = None /\ i = s)
    <3>1. v.head[i] = w.head[i] /\ w.head[i] \in Timers
      BY <1>1, <1>2, <2>1, <2>3
    <3>2. w.slot[w.head[i]] = i /\ w.prev[w.head[i]] = None
      BY <1>3, <2>1, <3>1 DEF HeadsFirst
    <3>3. w.head[i] # t /\ w.head[i] # n
      BY <1>1, <1>4, <2>3, <3>1, <3>2, TimersAssumption DEF s, p
    <3>4. QED
      BY <1>2, <3>1, <3>2, <3>3
  <2>4. QED
    BY <2>2, <2>3
<1>10. Forward(v)
  <2>1. SUFFICES ASSUME NEW u \in Timers, v.next[u] # None
                 PROVE  v.prev[v.next[u]] = u /\ v.slot[v.next[u]] = v.slot[u]
    BY DEF Forward
  <2>2. u # t
    BY <1>2, <2>1
  <2>3. CASE u = p
    <3>1. v.next[u] = n /\ n \in Timers /\ n # None /\ p # None
      BY <1>1, <1>2, <2>1, <2>2, <2>3, TimersAssumption
    <3>2. v.prev[n] = p
      BY <1>2, <1>5, <3>1
    <3>3. QED
      BY <1>2, <1>4, <2>3, <3>1, <3>2
  <2>4. CASE u # p
    <3>1. v.next[u] = w.next[u] /\ w.next[u] \in Timers
      BY <1>1, <1>2, <2>1, <2>2, <2>4
    <3>2. w.prev[w.next[u]] = u /\ w.slot[w.next[u]] = w.slot[u]
      BY <1>3, <2>1, <3>1 DEF Forward
    <3>3. w.next[u] # t /\ w.next[u] # n
      BY <1>4, <2>1, <2>2, <2>4, <3>1, <3>2 DEF p
    <3>4. QED
      BY <1>2, <3>1, <3>2, <3>3
  <2>5. QED
    BY <2>3, <2>4
<1>11. Backward(v)
  <2>1. SUFFICES ASSUME NEW u \in Timers, v.prev[u] # None
                 PROVE  v.next[v.prev[u]] = u
    BY DEF Backward
  <2>2. u # t
    BY <1>2, <2>1
  <2>3. CASE u = n
    <3>1. v.prev[u] = p /\ p \in Timers /\ p # None
      BY <1>1, <1>2, <2>1, <2>2, <2>3
    <3>2. QED
      BY <1>2, <1>5, <2>3, <3>1
  <2>4. CASE u # n
    <3>1. v.prev[u] = w.prev[u] /\ w.prev[u] \in Timers
      BY <1>1, <1>2, <2>1, <2>2, <2>4, Fields
    <3>2. w.next[w.prev[u]] = u
      BY <1>3, <2>1, <3>1 DEF Backward
    <3>3. w.prev[u] # t /\ w.prev[u] # p
      BY <1>4, <2>1, <2>2, <2>4, <3>1, <3>2 DEF n
    <3>4. QED
      BY <1>2, <3>1, <3>2, <3>3
  <2>5. QED
    BY <2>3, <2>4
<1>12. \A u \in Timers \ {t, p} : v.next[u] = w.next[u]
  BY <1>2
<1>13. Chain(v, n) = Chain(w, n)
  <2>1. t \notin Chain(w, n)
    BY NoWayBack DEF n
  <2>2. p \notin Chain(w, n)
    <3>1. SUFFICES ASSUME p \in Chain(w, n) PROVE FALSE
      OBVIOUS
    <3>2. Follows(w, n, Chain(w, n)) /\ Chain(w, n) \in SUBSET Timers
      BY <1>1, ChainFollows
    <3>3. w.next[p] \in Chain(w, n) \cup {None} /\ p # None
      BY <3>1, <3>2, TimersAssumption DEF Follows
    <3>4. QED
      BY <1>1, <1>4, <2>1, <3>3
  <2>3. \A u \in Chain(w, n) : v.next[u] = w.next[u]
    BY <1>12, <2>1, <2>2 DEF Chain
  <2>4. QED
    BY <1>1, <1>2, <2>3, ChainSame
<1>14. ASSUME NEW u \in Timers \ {t}, InWheel(w, u) PROVE u \in Chain(v, v.head[v.slot[u]])
  <2> DEFINE i == w.slot[u]
             C == Chain(v, v.head[i])
  <2>1. i \in SlotIndices /\ v.slot[u] = i /\ u \in Chain(w, w.head[i])
    BY <1>1, <1>2, <1>3, <1>14 DEF Reached
  <2>2. CASE i # s
    <3>1. \A x \in Chain(w, w.head[i]) : x \in Timers /\ w.slot[x] = i
      BY <2>1, WheelListIs
    <3>2. \A x \in Chain(w, w.head[i]) : v.next[x] = w.next[x]
      BY <1>4, <1>12, <2>2, <3>1, TimersAssumption DEF s
    <3>3. Chain(v, w.head[i]) = Chain(w, w.head[i])
      BY <1>1, <1>2, <2>1, <3>2, ChainSame
    <3>4. QED
      BY <1>2, <2>1, <2>2, <3>3
  <2>3. CASE i = s
    <3>1. Follows(v, v.head[s], C) /\ C \in SUBSET Timers
      BY <1>1, <1>2, <2>1, <2>3, ChainFollows
    <3>2. p = None \/ p \in C
      <4>1. SUFFICES ASSUME p # None, p \notin C PROVE FALSE
        OBVIOUS
      <4>2. v.head[s] = w.head[s] /\ w.head[s] # t
        BY <1>1, <1>2, <1>4, <4>1
      <4>3. w.head[s] \in (C \ {t}) \cup {None}
        BY <3>1, <4>2 DEF Follows
      <4>4. ASSUME NEW x \in C \ {t} PROVE w.next[x] \in (C \ {t}) \cup {None}
        <5>1. x \in Timers /\ x # p /\ v.next[x] \in C \cup {None}
          BY <3>1, <4>1 DEF Follows
        <5>2. v.next[x] = w.next[x]
          BY <1>2, <5>1
        <5>3. w.next[x] # t
          BY <1>1, <1>3, <5>1 DEF Forward, p
        <5>4. QED
          BY <5>1, <5>2, <5>3
      <4>5. Follows(w, w.head[s], C \ {t})
        BY <4>3, <4>4 DEF Follows
      <4>6. Chain(w, w.head[s]) \subseteq C \ {t}
        BY <3>1, <4>5, ChainLeast
      <4>7. p \in Chain(w, w.head[s])
        BY <1>1, <1>3, <1>4, <4>1 DEF Reached
      <4>8. QED
        BY <4>1, <4>6, <4>7
    <3>3. n \in C \cup {None}
      BY <1>1, <1>2, <1>5, <3>1, <3>2, TimersAssumption DEF Follows
    <3>4. w.head[s] \in C \cup {t, None}
      BY <1>1, <1>2, <1>4, <3>1 DEF Follows
    <3>5. ASSUME NEW x \in C \cup {t} PROVE w.next[x] \in C \cup {t, None}
      <4>1. x \in Timers
        BY <3>1
      <4>2. CASE x = t
        BY <3>3, <4>2 DEF n
      <4>3. CASE x = p
        BY <1>1, <1>4, <4>1, <4>3, TimersAssumption
      <4>4. CASE x \in C \ {t, p}
        BY <1>12, <3>1, <4>4 DEF Follows
      <4>5. QED
        BY <4>2, <4>3, <4>4
    <3>6. Follows(w, w.head[s], C \cup {t})
      BY <3>4, <3>5 DEF Follows
    <3>7. Chain(w, w.head[s]) \subseteq C \cup {t}
      BY <3>1, <3>6, ChainLeast
    <3>8. QED
      BY <2>1, <2>3, <3>7
  <2>4. QED
    BY <2>2, <2>3
<1>15. Reached(v)
  <2>1. SUFFICES ASSUME NEW u \in Timers
                 PROVE  IF InWheel(v, u) THEN u \in Chain(v, v.head[v.slot[u]]) ELSE v.next[u] = None
    BY DEF Reached
  <2>2. CASE u = t
    BY <1>2, <1>6, <2>2
  <2>3. CASE u # t /\ InWheel(w, u)
    BY <1>7, <1>14, <2>3
  <2>4. CASE u # t /\ ~InWheel(w, u)
    <3>1. w.next[u] = None /\ u # p
      BY <1>3, <1>4, <2>4, TimersAssumption DEF Reached
    <3>2. QED
      BY <1>2, <1>7, <2>4, <3>1
  <2>5. QED
    BY <2>2, <2>3, <2>4
<1>16. QED
  BY <1>2, <1>6, <1>8, <1>9, <1>10, <1>11, <1>13, <1>15 DEF Sound, v, n

LEMMA AddIs ==
    ASSUME NEW w \in WheelType, NEW t \in Timers
    PROVE  LET v == AddTimerToTimeWheel(w, t)
               s == w.slot[t]
               h == w.head[s]
           IN  /\ v \in WheelType /\ v.slot = w.slot /\ v.rotation = w.rotation
               /\ \A i \in SlotIndices : v.head[i] = IF i = s THEN t ELSE w.head[i]
               /\ \A u \in Timers : v.next[u] = IF u = t /\ h # None THEN h ELSE w.next[u]
               /\ \A u \in Timers : v.prev[u] = IF u = h THEN t ELSE w.prev[u]
<1> DEFINE v == AddTimerToTimeWheel(w, t)
           s == w.slot[t]
           h == w.head[s]
<1>1. s \in SlotIndices /\ h \in Timers \cup {None}
  BY DEF WheelType
<1>2. v \in WheelType
  BY AddType
<1>3. CASE h = None
  <2>1. v = [w EXCEPT !.head = [w.head EXCEPT ![s] = t]]
    BY <1>3 DEF AddTimerToTimeWheel, WheelType
  <2>2. /\ v.slot = w.slot /\ v.rotation = w.rotation /\ v.next = w.next /\ v.prev = w.prev
        /\ v.head = [w.head EXCEPT ![s] = t]
    BY <2>1 DEF WheelType
  <2>3. QED
    BY <1>1, <1>2, <1>3, <2>2, TimersAssumption DEF WheelType
<1>4. CASE h # None
  <2>1. v = [w EXCEPT !.next = [w.next EXCEPT ![t] = h], !.prev = [w.prev EXCEPT ![h] = t],
                      !.head = [w.head EXCEPT ![s] = t]]
    BY <1>4 DEF AddTimerToTimeWheel, WheelType
  <2>2. /\ v.slot = w.slot /\ v.rotation = w.rotation
        /\ v.next = [w.next EXCEPT ![t] = h] /\ v.prev = [w.prev EXCEPT ![h] = t]
        /\ v.head = [w.head EXCEPT ![s] = t]
    BY <2>1 DEF WheelType
  <2>3. QED
    BY <1>1, <1>2, <1>4, <2>2 DEF WheelType, Links
<1>5. QED
  BY <1>3, <1>4

\* Who comes becomes the head of the list of his slot.
LEMMA AddSound ==
    ASSUME NEW w, Sound(w), NEW t \in Timers, ~InWheel(w, t)
    PROVE  LET v == AddTimerToTimeWheel(w, t)
           IN  /\ Sound(v) /\ InWheel(v, t) /\ OthersStay(w, v, t)
               /\ v.slot[t] = w.slot[t] /\ v.rotation[t] = w.rotation[t]
               /\ \A u \in Timers \ {t} : v.next[u] = w.next[u]
<1> DEFINE v == AddTimerToTimeWheel(w, t)
           s == w.slot[t]
           h == w.head[s]
<1>1. /\ w \in WheelType /\ s \in SlotIndices /\ t # None /\ h \in Timers \cup {None}
      /\ \A i \in SlotIndices : w.head[i] \in Timers \cup {None}
      /\ \A u \in Timers : /\ w.slot[u] \in SlotIndices /\ w.next[u] \in Timers \cup {None}
                           /\ w.prev[u] \in Timers \cup {None}
  BY Fields, TimersAssumption DEF Sound
<1>2. /\ v \in WheelType /\ v.slot = w.slot /\ v.rotation = w.rotation
      /\ \A i \in SlotIndices : v.head[i] = IF i = s THEN t ELSE w.head[i]
      /\ \A u \in Timers : v.next[u] = IF u = t /\ h # None THEN h ELSE w.next[u]
      /\ \A u \in Timers : v.prev[u] = IF u = h THEN t ELSE w.prev[u]
  BY <1>1, AddIs
<1>3. HeadsFirst(w) /\ Forward(w) /\ Backward(w) /\ Reached(w)
  BY DEF Sound
<1>4. /\ w.prev[t] = None /\ w.next[t] = None /\ h # t
      /\ \A i \in SlotIndices : w.head[i] # t
      /\ \A u \in Timers : w.next[u] # t /\ w.prev[u] # t
      /\ h # None => w.prev[h] = None /\ w.slot[h] = s
  <2>1. w.prev[t] = None /\ w.next[t] = None /\ h # t
    BY <1>3 DEF InWheel, Reached
  <2>2. \A i \in SlotIndices : w.head[i] # t
    BY <1>1, <1>3, <2>1 DEF HeadsFirst
  <2>3. \A u \in Timers : w.next[u] # t
    BY <1>1, <1>3, <2>1, TimersAssumption DEF Forward
  <2>4. \A u \in Timers : w.prev[u] # t
    BY <1>1, <1>3, <2>1, TimersAssumption DEF Backward
  <2>5. h # None => w.prev[h] = None /\ w.slot[h] = s
    BY <1>1, <1>3 DEF HeadsFirst
  <2>6. QED
    BY <2>1, <2>2, <2>3, <2>4, <2>5
<1> HIDE DEF v, s, h
<1>5. InWheel(v, t)
  BY <1>1, <1>2 DEF InWheel, s
<1>6. ASSUME NEW u \in Timers \ {t} PROVE InWheel(v, u) <=> InWheel(w, u)
  <2>1. CASE u = h
    <3>1. InWheel(v, u)
      BY <1>1, <1>2, <2>1 DEF InWheel
    <3>2. InWheel(w, u)
      BY <1>1, <1>4, <2>1, TimersAssumption DEF InWheel, h
    <3>3. QED
      BY <3>1, <3>2
  <2>2. CASE u # h
    <3>1. v.prev[u] = w.prev[u] /\ v.slot[u] = w.slot[u] /\ w.slot[u] \in SlotIndices
      BY <1>1, <1>2, <2>2
    <3>2. v.head[w.slot[u]] = u <=> w.head[w.slot[u]] = u
      BY <1>2, <2>2, <3>1 DEF h
    <3>3. QED
      BY <3>1, <3>2 DEF InWheel
  <2>3. QED
    BY <2>1, <2>2
<1>7. OthersStay(w, v, t)
  BY <1>2, <1>6 DEF OthersStay
<1>8. HeadsFirst(v)
  <2>1. SUFFICES ASSUME NEW i \in SlotIndices, v.head[i] # None
                 PROVE  v.slot[v.head[i]] = i /\ v.prev[v.head[i]] = None
    BY DEF HeadsFirst
  <2>2. CASE i = s
    BY <1>1, <1>2, <1>4, <2>2 DEF s
  <2>3. CASE i # s
    <3>1. v.head[i] = w.head[i] /\ w.head[i] \in Timers
      BY <1>1, <1>2, <2>1, <2>3
    <3>2. w.slot[w.head[i]] = i /\ w.prev[w.head[i]] = None
      BY <1>3, <2>1, <3>1 DEF HeadsFirst
    <3>3. w.head[i] # h
      BY <1>4, <2>1, <2>3, <3>1, <3>2
    <3>4. QED
      BY <1>2, <3>1, <3>2, <3>3
  <2>4. QED
    BY <2>2, <2>3
<1>9. Forward(v)
  <2>1. SUFFICES ASSUME NEW u \in Timers, v.next[u] # None
                 PROVE  v.prev[v.next[u]] = u /\ v.slot[v.next[u]] = v.slot[u]
    BY DEF Forward
  <2>2. CASE u = t
    BY <1>1, <1>2, <1>4, <2>1, <2>2 DEF s
  <2>3. CASE u # t
    <3>1. v.next[u] = w.next[u] /\ w.next[u] \in Timers
      BY <1>1, <1>2, <2>1, <2>3
    <3>2. w.prev[w.next[u]] = u /\ w.slot[w.next[u]] = w.slot[u]
      BY <1>3, <2>1, <3>1 DEF Forward
    <3>3. w.next[u] # h
      BY <1>1, <1>4, <3>1, <3>2, TimersAssumption
    <3>4. QED
      BY <1>2, <3>1, <3>2, <3>3
  <2>4. QED
    BY <2>2, <2>3
<1>10. Backward(v)
  <2>1. SUFFICES ASSUME NEW u \in Timers, v.prev[u] # None
                 PROVE  v.next[v.prev[u]] = u
    BY DEF Backward
  <2>2. CASE u = h
    BY <1>1, <1>2, <2>2, TimersAssumption
  <2>3. CASE u # h
    <3>1. v.prev[u] = w.prev[u] /\ w.prev[u] \in Timers /\ w.prev[u] # t
      BY <1>1, <1>2, <1>4, <2>1, <2>3
    <3>2. w.next[w.prev[u]] = u
      BY <1>3, <2>1, <3>1 DEF Backward
    <3>3. QED
      BY <1>2, <3>1, <3>2
  <2>4. QED
    BY <2>2, <2>3
<1>11. \A u \in Timers \ {t} : v.next[u] = w.next[u]
  BY <1>2
<1>12. ASSUME NEW i \in SlotIndices PROVE Chain(v, w.head[i]) = Chain(w, w.head[i])
  <2>1. \A u \in Chain(w, w.head[i]) : u \in Timers \ {t}
    BY WheelListIs
  <2>2. \A u \in Chain(w, w.head[i]) : v.next[u] = w.next[u]
    BY <1>11, <2>1
  <2>3. QED
    BY <1>1, <1>2, <2>2, ChainSame
<1>13. Reached(v)
  <2>1. SUFFICES ASSUME NEW u \in Timers
                 PROVE  IF InWheel(v, u) THEN u \in Chain(v, v.head[v.slot[u]]) ELSE v.next[u] = None
    BY DEF Reached
  <2>2. t \in Chain(v, t)
    BY <1>1, <1>2, ChainUnfold
  <2>3. CASE u = t
    BY <1>1, <1>2, <1>5, <2>2, <2>3 DEF s
  <2>4. CASE u # t /\ ~InWheel(w, u)
    BY <1>3, <1>6, <1>11, <2>4 DEF Reached
  <2>5. CASE u # t /\ InWheel(w, u)
    <3>1. InWheel(v, u) /\ v.slot[u] = w.slot[u] /\ w.slot[u] \in SlotIndices
      BY <1>1, <1>2, <1>6, <2>5
    <3>2. u \in Chain(v, w.head[w.slot[u]])
      BY <1>3, <1>12, <2>5, <3>1 DEF Reached
    <3>3. CASE w.slot[u] = s
      <4>1. h # None /\ v.next[t] = h
        BY <1>2, <3>2, <3>3, ChainNone DEF h
      <4>2. u \in Chain(v, t)
        BY <1>1, <1>2, <3>2, <3>3, <4>1, ChainUnfold DEF h
      <4>3. QED
        BY <1>2, <3>1, <3>3, <4>2
    <3>4. CASE w.slot[u] # s
      BY <1>2, <3>1, <3>2, <3>4
    <3>5. QED
      BY <3>3, <3>4
  <2>6. QED
    BY <2>3, <2>4, <2>5
<1>14. QED
  BY <1>2, <1>5, <1>7, <1>8, <1>9, <1>10, <1>11, <1>13 DEF Sound, v, s

\* The milliseconds that CalculateTimer counts in.
Turns(t) == IF timeout[t] < 1 THEN 1 ELSE timeout[t]

LEMMA TurnsIs ==
    ASSUME TypeOK, NEW t \in Timers
    PROVE  /\ timeout[t] \in Nat /\ Turns(t) \in Nat /\ Turns(t) > 0
           /\ currentSlot \in SlotIndices /\ currentSlot \in Nat /\ currentSlot < SlotNum
           /\ SlotNum \in Nat /\ SlotNum > 1
<1>1. timeout[t] \in Timeouts /\ currentSlot \in SlotIndices
  BY DEF TypeOK
<1>2. timeout[t] \in Nat
  BY <1>1, TimeoutsAssumption
<1>3. QED
  BY <1>1, <1>2, SlotNumAssumption DEF Turns, SlotIndices

LEMMA CalculateIs ==
    ASSUME TypeOK, NEW w \in WheelType, NEW t \in Timers
    PROVE  LET v == CalculateTimer(w, t)
           IN  /\ v \in WheelType /\ v.head = w.head /\ v.next = w.next /\ v.prev = w.prev
               /\ v.slot[t] = (currentSlot + Turns(t)) % SlotNum
               /\ v.rotation[t] = Turns(t) \div SlotNum
               /\ \A u \in Timers \ {t} : v.slot[u] = w.slot[u] /\ v.rotation[u] = w.rotation[u]
<1> DEFINE r == Turns(t) \div SlotNum
           s == (currentSlot + Turns(t)) % SlotNum
           rotation == [w.rotation EXCEPT ![t] = r]
           slot == [w.slot EXCEPT ![t] = s]
<1>1. CalculateTimer(w, t) = [w EXCEPT !.rotation[t] = r, !.slot[t] = s]
  BY DEF CalculateTimer, Turns
<1> HIDE DEF r, s
<1>2. CalculateTimer(w, t) = [w EXCEPT !.rotation = rotation, !.slot = slot]
  BY <1>1 DEF WheelType
<1>3. rotation[t] = r /\ slot[t] = s /\ \A u \in Timers \ {t} : slot[u] = w.slot[u] /\ rotation[u] = w.rotation[u]
  BY DEF WheelType
<1> HIDE DEF rotation, slot
<1>4. LET v == CalculateTimer(w, t)
      IN  v.head = w.head /\ v.next = w.next /\ v.prev = w.prev /\ v.slot = slot /\ v.rotation = rotation
  BY <1>2 DEF WheelType
<1>5. QED
  BY <1>3, <1>4, CalculateType DEF r, s

\* A timer that is out may change its slot.
LEMMA CalculateSound ==
    ASSUME TypeOK, NEW w, Sound(w), NEW t \in Timers, ~InWheel(w, t)
    PROVE  LET v == CalculateTimer(w, t)
           IN  Sound(v) /\ ~InWheel(v, t) /\ OthersStay(w, v, t)
<1> DEFINE v == CalculateTimer(w, t)
<1>1. /\ w \in WheelType /\ t # None
      /\ \A i \in SlotIndices : w.head[i] \in Timers \cup {None}
      /\ \A u \in Timers : w.slot[u] \in SlotIndices /\ w.next[u] \in Timers \cup {None}
  BY Fields, TimersAssumption DEF Sound
<1>2. /\ v \in WheelType /\ v.head = w.head /\ v.next = w.next /\ v.prev = w.prev
      /\ v.slot[t] \in SlotIndices
      /\ \A u \in Timers \ {t} : v.slot[u] = w.slot[u] /\ v.rotation[u] = w.rotation[u]
  BY <1>1, CalculateIs, Fields
<1>3. HeadsFirst(w) /\ Forward(w) /\ Backward(w) /\ Reached(w)
  BY DEF Sound
<1> HIDE DEF v
<1>4. /\ w.prev[t] = None /\ w.next[t] = None
      /\ \A i \in SlotIndices : w.head[i] # t
      /\ \A u \in Timers : w.next[u] # t
  <2>1. w.prev[t] = None /\ w.next[t] = None
    BY <1>3 DEF InWheel, Reached
  <2>2. \A i \in SlotIndices : w.head[i] # t
    BY <1>1, <1>3 DEF HeadsFirst, InWheel
  <2>3. \A u \in Timers : w.next[u] # t
    BY <1>1, <1>3, <2>1, TimersAssumption DEF Forward
  <2>4. QED
    BY <2>1, <2>2, <2>3
<1>5. ~InWheel(v, t)
  BY <1>2, <1>4 DEF InWheel
<1>6. \A u \in Timers \ {t} : InWheel(v, u) <=> InWheel(w, u)
  BY <1>2 DEF InWheel
<1>7. HeadsFirst(v)
  BY <1>1, <1>2, <1>3, <1>4 DEF HeadsFirst
<1>8. Forward(v)
  BY <1>1, <1>2, <1>3, <1>4 DEF Forward
<1>9. Backward(v)
  BY <1>2, <1>3 DEF Backward
<1>10. \A p : Chain(v, p) = Chain(w, p)
  BY <1>2 DEF Chain, Follows
<1>11. Reached(v)
  BY <1>2, <1>3, <1>4, <1>5, <1>6, <1>10 DEF Reached
<1>12. QED
  BY <1>2, <1>5, <1>6, <1>7, <1>8, <1>9, <1>11 DEF Sound, OthersStay, v

LEMMA RemoveSound ==
    ASSUME NEW w, Sound(w), NEW t \in Timers
    PROVE  LET v == RemoveTimerFromTimeWheel(w, t)
           IN  /\ Sound(v) /\ ~InWheel(v, t) /\ OthersStay(w, v, t)
               /\ Chain(v, w.next[t]) = Chain(w, w.next[t])
<1>1. CASE InWheel(w, t)
  BY <1>1, UnhookSound DEF RemoveTimerFromTimeWheel
<1>2. CASE ~InWheel(w, t)
  BY <1>2 DEF RemoveTimerFromTimeWheel, OthersStay
<1>3. QED
  BY <1>1, <1>2

\* CalculateTimer and AddTimerToTimeWheel, as AddTimer and AdjustTimerToWheel call them.
LEMMA EnterSound ==
    ASSUME TypeOK, NEW w, Sound(w), NEW t \in Timers, ~InWheel(w, t)
    PROVE  LET v == AddTimerToTimeWheel(CalculateTimer(w, t), t)
           IN  /\ Sound(v) /\ InWheel(v, t) /\ OthersStay(w, v, t)
               /\ v.slot[t] = (currentSlot + Turns(t)) % SlotNum
               /\ v.rotation[t] = Turns(t) \div SlotNum
               /\ \A u \in Timers \ {t} : v.next[u] = w.next[u]
<1> DEFINE c == CalculateTimer(w, t)
           v == AddTimerToTimeWheel(c, t)
<1>1. Sound(c) /\ ~InWheel(c, t) /\ OthersStay(w, c, t)
  BY CalculateSound
<1>2. w \in WheelType
  BY DEF Sound
<1>3. /\ c.slot[t] = (currentSlot + Turns(t)) % SlotNum /\ c.rotation[t] = Turns(t) \div SlotNum
      /\ c.next = w.next
  BY <1>2, CalculateIs
<1> HIDE DEF c
<1>4. /\ Sound(v) /\ InWheel(v, t) /\ OthersStay(c, v, t)
      /\ v.slot[t] = c.slot[t] /\ v.rotation[t] = c.rotation[t]
      /\ \A u \in Timers \ {t} : v.next[u] = c.next[u]
  BY <1>1, AddSound
<1>5. OthersStay(w, v, t)
  BY <1>1, <1>4 DEF OthersStay
<1>6. QED
  BY <1>3, <1>4, <1>5 DEF c

LEMMA AdjustSound ==
    ASSUME TypeOK, NEW w, Sound(w), NEW t \in Timers
    PROVE  LET v == AdjustTimerToWheel(w, t)
           IN  /\ Sound(v) /\ InWheel(v, t) /\ OthersStay(w, v, t)
               /\ v.slot[t] = (currentSlot + Turns(t)) % SlotNum
               /\ v.rotation[t] = Turns(t) \div SlotNum
               /\ InWheel(w, t) => Chain(v, w.next[t]) = Chain(w, w.next[t])
<1> DEFINE r == RemoveTimerFromTimeWheel(w, t)
           v == AdjustTimerToWheel(w, t)
<1>1. Sound(r) /\ ~InWheel(r, t) /\ OthersStay(w, r, t) /\ Chain(r, w.next[t]) = Chain(w, w.next[t])
  BY RemoveSound
<1>2. v = AddTimerToTimeWheel(CalculateTimer(r, t), t)
  BY DEF AdjustTimerToWheel
<1> HIDE DEF r, v
<1>3. /\ Sound(v) /\ InWheel(v, t) /\ OthersStay(r, v, t)
      /\ v.slot[t] = (currentSlot + Turns(t)) % SlotNum
      /\ v.rotation[t] = Turns(t) \div SlotNum
      /\ \A u \in Timers \ {t} : v.next[u] = r.next[u]
  BY <1>1, <1>2, EnterSound
<1>4. OthersStay(w, v, t)
  BY <1>1, <1>3 DEF OthersStay
<1>5. ASSUME InWheel(w, t) PROVE Chain(v, w.next[t]) = Chain(w, w.next[t])
  <2>1. t \notin Chain(w, w.next[t])
    BY <1>5, NoWayBack
  <2>2. \A u \in Chain(r, w.next[t]) : v.next[u] = r.next[u]
    BY <1>1, <1>3, <2>1 DEF Chain
  <2>3. w.next[t] \in Timers \cup {None} /\ r \in WheelType /\ v \in WheelType
    BY <1>1, <1>3, Fields DEF Sound
  <2>4. QED
    BY <1>1, <2>2, <2>3, ChainSame
<1>6. QED
  BY <1>3, <1>4, <1>5 DEF v

-----------------------------------------------------------------------------
(* The invariant of the lists.                                             *)

\* CheckTimer goes through the list of the current slot.
ScanInv == pc = "scan" /\ ptimer # None => InWheel(wheel, ptimer) /\ wheel.slot[ptimer] = currentSlot

ListInv == Sound(wheel) /\ ScanInv

LEMMA CountDownSound ==
    ASSUME NEW w, Sound(w), NEW t \in Timers, w.rotation[t] > 0
    PROVE  LET v == [w EXCEPT !.rotation[t] = @ - 1]
           IN  /\ Sound(v) /\ OthersStay(w, v, t)
               /\ v.slot[t] = w.slot[t] /\ v.rotation[t] = w.rotation[t] - 1
               /\ InWheel(v, t) <=> InWheel(w, t)
               /\ \A p : Chain(v, p) = Chain(w, p)
<1> DEFINE v == [w EXCEPT !.rotation[t] = @ - 1]
           rotation == [w.rotation EXCEPT ![t] = @ - 1]
<1>1. w \in WheelType /\ rotation \in [Timers -> Nat]
  BY DEF Sound, WheelType
<1>2. /\ rotation[t] = w.rotation[t] - 1
      /\ \A u \in Timers \ {t} : rotation[u] = w.rotation[u]
  BY <1>1 DEF WheelType
<1> HIDE DEF rotation
<1>3. v = [w EXCEPT !.rotation = rotation]
  BY <1>1 DEF rotation, WheelType
<1>4. /\ v \in WheelType /\ v.head = w.head /\ v.next = w.next /\ v.prev = w.prev /\ v.slot = w.slot
      /\ v.rotation = rotation
  BY <1>1, <1>3 DEF WheelType
<1> HIDE DEF v
<1>5. \A p : Chain(v, p) = Chain(w, p)
  BY <1>4 DEF Chain, Follows
<1>6. \A u : InWheel(v, u) <=> InWheel(w, u)
  BY <1>4 DEF InWheel
<1>7. Sound(v)
  BY <1>4, <1>5, <1>6 DEF Sound, HeadsFirst, Forward, Backward, Reached
<1>8. QED
  BY <1>2, <1>4, <1>5, <1>6, <1>7 DEF OthersStay, v

LEMMA InitListInv == Init => ListInv
<1>1. SUFFICES ASSUME Init PROVE ListInv
  OBVIOUS
<1>2. wheel \in WheelType
  BY <1>1, WheelInitInv DEF WheelInv, TypeOK, WheelType
<1>3. /\ \A s \in SlotIndices : wheel.head[s] = None
      /\ \A t \in Timers : wheel.prev[t] = None /\ wheel.next[t] = None /\ wheel.slot[t] \in SlotIndices
  BY <1>1, <1>2, Fields DEF Init
<1>4. \A t \in Timers : ~InWheel(wheel, t)
  BY <1>3, TimersAssumption DEF InWheel
<1>5. Sound(wheel)
  BY <1>2, <1>3, <1>4 DEF Sound, HeadsFirst, Forward, Backward, Reached
<1>6. QED
  BY <1>1, <1>5 DEF ListInv, ScanInv, Init

LEMMA CallKeepsLists ==
    ASSUME TypeOK, ListInv, NEW t \in Timers, AddTimer(t) \/ RemoveTimer(t) \/ AdjustTimer(t)
    PROVE  ListInv'
<1>1. Sound(wheel)
  BY DEF ListInv
<1>2. pc # "scan" /\ pc' = pc
  BY DEF AddTimer, RemoveTimer, AdjustTimer, Locked, Call, threadVars
<1>3. CASE AddTimer(t)
  BY <1>1, <1>2, <1>3, EnterSound DEF AddTimer, ListInv, ScanInv
<1>4. CASE RemoveTimer(t)
  BY <1>1, <1>2, <1>4, RemoveSound DEF RemoveTimer, ListInv, ScanInv
<1>5. CASE AdjustTimer(t)
  BY <1>1, <1>2, <1>5, AdjustSound DEF AdjustTimer, ListInv, ScanInv
<1>6. QED
  BY <1>3, <1>4, <1>5

\* Where the list goes on, when the scan is at p.
LEMMA NextIs ==
    ASSUME NEW w, Sound(w), NEW p \in Timers, InWheel(w, p)
    PROVE  /\ w.next[p] \in Timers \cup {None} /\ w.next[p] # p
           /\ w.next[p] # None => InWheel(w, w.next[p]) /\ w.slot[w.next[p]] = w.slot[p]
           /\ p \notin Chain(w, w.next[p]) /\ Chain(w, p) = {p} \cup Chain(w, w.next[p])
<1>1. w \in WheelType /\ w.next[p] \in Timers \cup {None} /\ p # None
  BY Fields, TimersAssumption DEF Sound
<1>2. p \notin Chain(w, w.next[p]) /\ Chain(w, p) = {p} \cup Chain(w, w.next[p])
  BY <1>1, NoWayBack, ChainUnfold
<1>3. w.next[p] # None => w.prev[w.next[p]] = p /\ w.slot[w.next[p]] = w.slot[p]
  BY DEF Sound, Forward
<1>4. w.next[p] # p
  BY <1>1, <1>2, ChainUnfold
<1>5. QED
  BY <1>1, <1>2, <1>3, <1>4 DEF InWheel

LEMMA ScanIs ==
    ASSUME TypeOK, ListInv, NotYet \/ FireTimer
    PROVE  /\ ptimer \in Timers /\ InWheel(wheel, ptimer) /\ wheel.slot[ptimer] = currentSlot
           /\ Locked /\ Locked' /\ ptimer' = wheel.next[ptimer]
           /\ UNCHANGED <<currentSlot, pc, timeout, once>>
<1>1. pc = "scan" /\ ptimer # None /\ ptimer' = wheel.next[ptimer] /\ UNCHANGED <<currentSlot, pc, timeout, once>>
  BY DEF NotYet, FireTimer, Scan
<1>2. ptimer \in Timers
  BY <1>1 DEF TypeOK
<1>3. QED
  BY <1>1, <1>2 DEF ListInv, ScanInv, Locked

\* What a step of the scan leaves of the lists.
LEMMA ScanSteps ==
    ASSUME TypeOK, ListInv, NotYet \/ FireTimer
    PROVE  /\ Sound(wheel') /\ OthersStay(wheel, wheel', ptimer)
           /\ Chain(wheel', ptimer') = Chain(wheel, ptimer')
<1>1. /\ ptimer \in Timers /\ InWheel(wheel, ptimer) /\ ptimer' = wheel.next[ptimer]
      /\ Sound(wheel)
  BY ScanIs DEF ListInv
<1>2. CASE NotYet
  BY <1>1, <1>2, CountDownSound DEF NotYet
<1>3. CASE FireTimer /\ once[ptimer]
  <2>1. wheel' = RemoveTimerFromTimeWheel(wheel, ptimer)
    BY <1>3 DEF FireTimer
  <2>2. QED
    BY <1>1, <2>1, RemoveSound
<1>4. CASE FireTimer /\ ~once[ptimer]
  <2> DEFINE again == AdjustTimerToWheel(wheel, ptimer)
  <2>1. /\ Sound(again) /\ OthersStay(wheel, again, ptimer)
        /\ Chain(again, wheel.next[ptimer]) = Chain(wheel, wheel.next[ptimer])
    BY <1>1, AdjustSound
  <2>2. wheel' = IF again.slot[ptimer] = currentSlot /\ again.rotation[ptimer] > 0
                 THEN [again EXCEPT !.rotation[ptimer] = @ - 1] ELSE again
    BY <1>4 DEF FireTimer
  <2> HIDE DEF again
  <2>3. CASE again.rotation[ptimer] > 0 /\ wheel' = [again EXCEPT !.rotation[ptimer] = @ - 1]
    <3>1. /\ Sound(wheel') /\ OthersStay(again, wheel', ptimer)
          /\ \A p : Chain(wheel', p) = Chain(again, p)
      BY <1>1, <2>1, <2>3, CountDownSound
    <3>2. OthersStay(wheel, wheel', ptimer)
      BY <2>1, <3>1 DEF OthersStay
    <3>3. QED
      BY <1>1, <2>1, <3>1, <3>2
  <2>4. CASE wheel' = again
    BY <1>1, <2>1, <2>4
  <2>5. QED
    BY <2>2, <2>3, <2>4
<1>5. QED
  BY <1>2, <1>3, <1>4

LEMMA ThreadKeepsLists == ASSUME TypeOK, ListInv, ThreadStep PROVE ListInv'
<1>1. Sound(wheel) /\ wheel \in WheelType /\ currentSlot \in SlotIndices
  BY DEF ListInv, TypeOK, WheelType
<1>2. CASE ReadClock \/ CheckTick \/ TicksDone
  BY <1>1, <1>2 DEF ReadClock, CheckTick, TicksDone, Goto, ListInv, ScanInv
<1>3. CASE ScanDone
  BY <1>1, <1>3 DEF ScanDone, Goto, ListInv, ScanInv
<1>4. CASE CheckTimer
  <2>1. wheel' = wheel /\ currentSlot' = currentSlot /\ ptimer' = wheel.head[currentSlot]
    BY <1>4 DEF CheckTimer
  <2>2. wheel.head[currentSlot] # None => wheel.slot[wheel.head[currentSlot]] = currentSlot
    BY <1>1 DEF Sound, HeadsFirst
  <2>3. wheel.head[currentSlot] # None => InWheel(wheel, wheel.head[currentSlot])
    BY <2>2 DEF InWheel
  <2>4. QED
    BY <1>1, <2>1, <2>2, <2>3 DEF ListInv, ScanInv
<1>5. CASE NotYet \/ FireTimer
  <2>1. /\ ptimer \in Timers /\ InWheel(wheel, ptimer) /\ ptimer' = wheel.next[ptimer]
        /\ wheel.slot[ptimer] = currentSlot /\ currentSlot' = currentSlot
    BY <1>5, ScanIs
  <2>2. Sound(wheel') /\ OthersStay(wheel, wheel', ptimer)
    BY <1>5, ScanSteps
  <2>3. ptimer' # None => ptimer' \in Timers \ {ptimer} /\ InWheel(wheel, ptimer') /\ wheel.slot[ptimer'] = currentSlot
    BY <1>1, <2>1, NextIs
  <2>4. QED
    BY <2>1, <2>2, <2>3 DEF ListInv, ScanInv, OthersStay
<1>6. QED
  BY <1>2, <1>3, <1>4, <1>5 DEF ThreadStep

LEMMA StepKeepsLists == TypeOK /\ ListInv /\ [Next]_vars => ListInv'
<1>1. SUFFICES ASSUME TypeOK, ListInv, [Next]_vars PROVE ListInv'
  OBVIOUS
<1>2. CASE UNCHANGED vars
  BY <1>1, <1>2 DEF vars, threadVars, ListInv, ScanInv
<1>3. CASE Advance \/ Stop \/ \E t \in Timers, T \in Timeouts, o \in BOOLEAN : Adjust(t, T, o)
  BY <1>1, <1>3 DEF Advance, Stop, Adjust, Call, threadVars, ListInv, ScanInv
<1>4. CASE Start
  BY <1>1, <1>4 DEF Start, ListInv, ScanInv
<1>5. QED
  BY <1>1, <1>2, <1>3, <1>4, CallKeepsLists, ThreadKeepsLists DEF Next

LEMMA ListAlways == Spec => [](TypeOK /\ ListInv)
<1>1. WheelInv => TypeOK
  BY DEF WheelInv
<1>2. QED
  BY <1>1, WheelAlways, InitListInv, StepKeepsLists, PTL DEF Spec

\* In every order of calls, from any threads and in the middle of CheckTimer, the
\* lists of the wheel stay lists (TimerManager.hpp:123-168), for any number of timers.
THEOREM ListsWellFormedHolds == Spec => []ListsWellFormed
<1>1. TypeOK /\ ListInv => ListsWellFormed
  <2>1. SUFFICES ASSUME TypeOK, ListInv PROVE ListsWellFormed
    OBVIOUS
  <2>2. Sound(wheel) /\ \A t \in Timers : wheel.slot[t] \in SlotIndices
    BY <2>1, Fields DEF ListInv, Sound
  <2>3. \A s \in SlotIndices : \A t \in Chain(wheel, wheel.head[s]) : wheel.slot[t] = s
    BY <2>2, WheelListIs
  <2>4. ASSUME NEW t \in Timers, t \in Chain(wheel, wheel.head[wheel.slot[t]])
        PROVE  /\ wheel.prev[t] = None <=> wheel.head[wheel.slot[t]] = t
               /\ wheel.next[t] # None => wheel.prev[wheel.next[t]] = t
    <3>1. InWheel(wheel, t)
      BY <2>2, <2>4, WheelListIs
    <3>2. wheel.head[wheel.slot[t]] = t => wheel.prev[t] = None
      BY <2>2, TimersAssumption DEF Sound, HeadsFirst
    <3>3. QED
      BY <2>2, <3>1, <3>2 DEF Sound, Forward, InWheel
  <2>5. ASSUME NEW t \in Timers, t \notin Chain(wheel, wheel.head[wheel.slot[t]])
        PROVE  wheel.prev[t] = None /\ wheel.next[t] = None
    BY <2>2, <2>5 DEF Sound, Reached, InWheel
  <2>6. QED
    BY <2>3, <2>4, <2>5 DEF ListsWellFormed
<1>2. QED
  BY <1>1, ListAlways, PTL

-----------------------------------------------------------------------------
(* The ticks that are left to a timer, and TimerService.                   *)

\* From slot c to slot s, in the direction in which the wheel is turned.
Distance(s, c) == IF s >= c THEN s - c ELSE s + SlotNum - c

LEMMA Quotient ==
    ASSUME NEW a \in Nat, NEW n \in Nat, n > 0
    PROVE  a = ((a \div n) * n) + (a % n)
<1>1. a = n * (a \div n) + (a % n)
  OBVIOUS
<1>2. QED
  BY <1>1, Division

LEMMA Remainder ==
    ASSUME NEW a \in Nat, NEW n \in Nat, n > 0, NEW k \in Nat, NEW r \in 0 .. n - 1, a = k * n + r
    PROVE  a % n = r
OBVIOUS

LEMMA DistanceIs ==
    ASSUME NEW s \in SlotIndices, NEW c \in SlotIndices
    PROVE  /\ (s + SlotNum - c) % SlotNum = Distance(s, c)
           /\ Distance(s, c) \in Nat /\ (Distance(s, c) = 0 <=> s = c)
<1>1. SlotNum \in Nat /\ SlotNum > 1 /\ s \in Nat /\ c \in Nat /\ s < SlotNum /\ c < SlotNum
  BY SlotNumAssumption DEF SlotIndices
<1>2. CASE s >= c
  <2>1. s - c \in 0 .. SlotNum - 1 /\ s + SlotNum - c = 1 * SlotNum + (s - c)
    BY <1>1, <1>2
  <2>2. (s + SlotNum - c) % SlotNum = s - c
    BY <1>1, <2>1, Remainder
  <2>3. QED
    BY <1>1, <1>2, <2>2 DEF Distance
<1>3. CASE s < c
  <2>1. s + SlotNum - c \in 0 .. SlotNum - 1
    BY <1>1, <1>3
  <2>2. (s + SlotNum - c) % SlotNum = s + SlotNum - c
    BY <1>1, <2>1
  <2>3. QED
    BY <1>1, <1>3, <2>1, <2>2 DEF Distance
<1>4. QED
  BY <1>1, <1>2, <1>3

\* The wheel is turned by one slot.
LEMMA DistanceTurned ==
    ASSUME NEW s \in SlotIndices, NEW c \in SlotIndices
    PROVE  Distance(s, (c + 1) % SlotNum) + 1 = IF s = c THEN SlotNum ELSE Distance(s, c)
<1>1. SlotNum \in Nat /\ SlotNum > 1 /\ s \in Nat /\ c \in Nat /\ s < SlotNum /\ c < SlotNum
  BY SlotNumAssumption DEF SlotIndices
<1>2. (c + 1) % SlotNum = IF c + 1 < SlotNum THEN c + 1 ELSE 0
  BY <1>1
<1>3. QED
  BY <1>1, <1>2 DEF Distance

\* A timer of T milliseconds is put T slots ahead: CalculateTimer.
LEMMA DistanceAhead ==
    ASSUME NEW c \in SlotIndices, NEW T \in Nat
    PROVE  /\ (c + T) % SlotNum \in SlotIndices /\ T \div SlotNum \in Nat
           /\ Distance((c + T) % SlotNum, c) + (T \div SlotNum) * SlotNum = T
<1> DEFINE q == T \div SlotNum
           r == T % SlotNum
           s == IF c + r < SlotNum THEN c + r ELSE c + r - SlotNum
<1>1. SlotNum \in Nat /\ SlotNum > 1 /\ c \in Nat /\ c < SlotNum
  BY SlotNumAssumption DEF SlotIndices
<1>2. q \in Nat /\ r \in 0 .. SlotNum - 1
  BY <1>1, Division
<1>3. T = (q * SlotNum) + r
  BY <1>1, Quotient
<1> HIDE DEF q, r
<1>4. s \in 0 .. SlotNum - 1 /\ Distance(s, c) = r
  BY <1>1, <1>2 DEF Distance
<1>5. PICK k \in {q, q + 1} : c + T = k * SlotNum + s
  <2>1. CASE c + r < SlotNum
    BY <1>1, <1>2, <1>3, <2>1
  <2>2. CASE c + r >= SlotNum
    BY <1>1, <1>2, <1>3, <2>2
  <2>3. QED
    BY <1>1, <1>2, <2>1, <2>2
<1> HIDE DEF s
<1>6. (c + T) % SlotNum = s
  <2>1. k \in Nat /\ c + T \in Nat /\ SlotNum \in Nat /\ SlotNum > 0
    BY <1>1, <1>2
  <2>2. QED
    BY <1>4, <1>5, <2>1, Remainder, Zenon
<1>7. r + (q * SlotNum) = T
  <2>1. q * SlotNum \in Nat
    BY <1>1, <1>2
  <2>2. QED
    BY <1>2, <1>3, <2>1
<1>8. QED
  BY <1>2, <1>4, <1>6, <1>7 DEF q, SlotIndices

\* TicksLeft as a function of the wheel w, the slot c, the timer p that the scan
\* is at, and whether there is a scan.
LeftOf(w, c, p, locked, t) ==
    LET distance == Distance(w.slot[t], c) + w.rotation[t] * SlotNum
    IN  IF ~InWheel(w, t) THEN None
        ELSE IF ~locked THEN distance + 1
        ELSE IF w.slot[t] = c /\ t \notin Chain(w, p) THEN distance + SlotNum ELSE distance

LEMMA LeftIs ==
    ASSUME TypeOK, NEW t \in Timers
    PROVE  /\ Locked => TicksLeft(t) = LeftOf(wheel, currentSlot, ptimer, TRUE, t)
           /\ ~Locked => TicksLeft(t) = LeftOf(wheel, currentSlot, ptimer, FALSE, t)
<1>1. wheel.slot[t] \in SlotIndices /\ currentSlot \in SlotIndices
  BY Fields DEF TypeOK, WheelType
<1>2. (wheel.slot[t] + SlotNum - currentSlot) % SlotNum = Distance(wheel.slot[t], currentSlot)
  BY <1>1, DistanceIs
<1>3. QED
  BY <1>2 DEF TicksLeft, LeftOf

LEMMA LeftWillBe ==
    ASSUME TypeOK', NEW t \in Timers
    PROVE  /\ Locked' => TicksLeft(t)' = LeftOf(wheel', currentSlot', ptimer', TRUE, t)
           /\ ~Locked' => TicksLeft(t)' = LeftOf(wheel', currentSlot', ptimer', FALSE, t)
<1>1. wheel' \in WheelType /\ currentSlot' \in SlotIndices
  BY DEF TypeOK, WheelType
<1>2. wheel'.slot[t] \in SlotIndices
  BY <1>1, Fields
<1>3. (wheel'.slot[t] + SlotNum - currentSlot') % SlotNum = Distance(wheel'.slot[t], currentSlot')
  BY <1>1, <1>2, DistanceIs
<1>4. QED
  BY <1>3 DEF TicksLeft, LeftOf, InWheel, Chain, Follows

\* The ticks of a timer in the wheel are a number.
LEMMA LeftType ==
    ASSUME NEW w \in WheelType, NEW c \in SlotIndices, NEW p, NEW t \in Timers, InWheel(w, t)
    PROVE  /\ LeftOf(w, c, p, FALSE, t) = Distance(w.slot[t], c) + w.rotation[t] * SlotNum + 1
           /\ Distance(w.slot[t], c) + w.rotation[t] * SlotNum \in Nat
           /\ LeftOf(w, c, p, FALSE, t) \in Nat /\ LeftOf(w, c, p, FALSE, t) > 0
           /\ LeftOf(w, c, p, FALSE, t) # None
<1> DEFINE turns == w.rotation[t] * SlotNum
           distance == Distance(w.slot[t], c)
<1>1. /\ w.slot[t] \in SlotIndices /\ w.rotation[t] \in Nat /\ SlotNum \in Nat
      /\ distance \in Nat
  BY Fields, SlotNumAssumption, DistanceIs
<1>2. turns \in Nat
  BY <1>1
<1>3. LeftOf(w, c, p, FALSE, t) = distance + turns + 1
  BY DEF LeftOf
<1> HIDE DEF turns, distance
<1>4. distance + turns \in Nat /\ distance + turns + 1 \in Nat /\ distance + turns + 1 > 0
  BY <1>1, <1>2
<1>5. None \notin Nat
  BY TimersAssumption
<1>6. LeftOf(w, c, p, FALSE, t) \in Nat /\ LeftOf(w, c, p, FALSE, t) > 0 /\ LeftOf(w, c, p, FALSE, t) # None
  BY <1>3, <1>4, <1>5
<1>7. QED
  BY <1>3, <1>4, <1>6 DEF turns, distance

\* The state function that stands for TimerService's variable.
Left == [t \in Timers |-> TicksLeft(t)]

\* TimerService's actions, with it.
LEMMA ArmIs ==
    ASSUME NEW t \in Timers, Left' = [Left EXCEPT ![t] = TS!Period(t) + 1], UNCHANGED <<timeout, once>>
    PROVE  TS!ServiceNext
BY DEF TS!ServiceNext, TS!Arm, Left

LEMMA DisarmIs ==
    ASSUME NEW t \in Timers, Left' = [Left EXCEPT ![t] = None], UNCHANGED <<timeout, once>>
    PROVE  TS!ServiceNext
BY DEF TS!ServiceNext, TS!Disarm, Left

LEMMA FireIs ==
    ASSUME NEW t \in Timers, Left[t] = 0, UNCHANGED <<timeout, once>>,
           Left' = [Left EXCEPT ![t] = IF once[t] THEN None ELSE TS!Period(t)]
    PROVE  TS!ServiceNext
BY DEF TS!ServiceNext, TS!Fire, Left

LEMMA TickIs ==
    ASSUME \A t \in Timers : Left[t] # 0, UNCHANGED <<timeout, once>>,
           Left' = [t \in Timers |-> IF Left[t] = None THEN None ELSE Left[t] - 1]
    PROVE  TS!ServiceNext
BY DEF TS!ServiceNext, TS!Tick, Left

LEMMA ChangeIs ==
    ASSUME NEW t \in Timers, NEW T \in Timeouts, NEW o \in BOOLEAN, Left' = Left,
           timeout' = [timeout EXCEPT ![t] = T], once' = [once EXCEPT ![t] = o]
    PROVE  TS!ServiceNext
BY DEF TS!ServiceNext, TS!Change, Left

LEMMA PeriodIs ==
    ASSUME TypeOK, NEW t \in Timers
    PROVE  TS!Period(t) = Turns(t)
BY TurnsIs DEF TS!Period, Turns

\* A step that moves neither wheel nor scan leaves the ticks alone.
LEMMA StutterLeft ==
    ASSUME TypeOK, TypeOK', UNCHANGED <<wheel, currentSlot>>, Locked' <=> Locked,
           Locked => ptimer' = ptimer
    PROVE  Left' = Left
<1>1. ASSUME NEW t \in Timers PROVE TicksLeft(t)' = TicksLeft(t)
  <2>1. LeftOf(wheel, currentSlot, ptimer', FALSE, t) = LeftOf(wheel, currentSlot, ptimer, FALSE, t)
    BY DEF LeftOf
  <2>2. QED
    BY <2>1, LeftIs, LeftWillBe
<1>2. QED
  BY <1>1 DEF Left

\* A timer that enters the wheel, or that fires again.
LEMMA EnteredIs ==
    ASSUME TypeOK, NEW t \in Timers, NEW v \in WheelType,
           v.slot[t] = (currentSlot + Turns(t)) % SlotNum, v.rotation[t] = Turns(t) \div SlotNum
    PROVE  Distance(v.slot[t], currentSlot) + v.rotation[t] * SlotNum = Turns(t)
BY TurnsIs, DistanceAhead

\* AddTimer, RemoveTimer and AdjustTimer arm or disarm one timer.
LEMMA CallMaps ==
    ASSUME TypeOK, TypeOK', ListInv, NEW t \in Timers, AddTimer(t) \/ RemoveTimer(t) \/ AdjustTimer(t)
    PROVE  TS!ServiceNext
<1>1. Sound(wheel) /\ wheel \in WheelType /\ wheel' \in WheelType
  BY DEF ListInv, TypeOK, WheelType
<1>2. ~Locked /\ ~Locked' /\ UNCHANGED <<currentSlot, timeout, once>>
  BY DEF AddTimer, RemoveTimer, AdjustTimer, Locked, Call, threadVars
<1>3. OthersStay(wheel, wheel', t)
  BY <1>1, EnterSound, RemoveSound, AdjustSound DEF AddTimer, RemoveTimer, AdjustTimer
<1>4. ASSUME NEW u \in Timers \ {t} PROVE TicksLeft(u)' = TicksLeft(u)
  <2>1. /\ InWheel(wheel', u) <=> InWheel(wheel, u)
        /\ wheel'.slot[u] = wheel.slot[u] /\ wheel'.rotation[u] = wheel.rotation[u]
    BY <1>3 DEF OthersStay
  <2>2. LeftOf(wheel', currentSlot, ptimer', FALSE, u) = LeftOf(wheel, currentSlot, ptimer, FALSE, u)
    BY <2>1 DEF LeftOf
  <2>3. QED
    BY <1>2, <2>2, LeftIs, LeftWillBe
<1>5. Left' = [Left EXCEPT ![t] = TicksLeft(t)']
  BY <1>4 DEF Left
<1>6. TicksLeft(t)' = LeftOf(wheel', currentSlot, ptimer', FALSE, t)
  BY <1>2, LeftWillBe
<1>7. CASE RemoveTimer(t)
  <2>1. ~InWheel(wheel', t)
    BY <1>1, <1>7, RemoveSound DEF RemoveTimer
  <2>2. TicksLeft(t)' = None
    BY <1>6, <2>1 DEF LeftOf
  <2>3. QED
    BY <1>2, <1>5, <2>2, DisarmIs
<1>8. CASE AddTimer(t) \/ AdjustTimer(t)
  <2>1. /\ InWheel(wheel', t)
        /\ wheel'.slot[t] = (currentSlot + Turns(t)) % SlotNum
        /\ wheel'.rotation[t] = Turns(t) \div SlotNum
    BY <1>1, <1>8, EnterSound, AdjustSound DEF AddTimer, AdjustTimer
  <2>2. Distance(wheel'.slot[t], currentSlot) + wheel'.rotation[t] * SlotNum = Turns(t)
    BY <1>1, <2>1, EnteredIs
  <2>3. TicksLeft(t)' = Turns(t) + 1
    BY <1>6, <2>1, <2>2 DEF LeftOf
  <2>4. QED
    BY <1>2, <1>5, <2>3, PeriodIs, ArmIs
<1>9. QED
  BY <1>7, <1>8

\* CheckTimer begins a tick, and finds every timer of the slot ahead of it.
LEMMA CheckTimerMaps ==
    ASSUME TypeOK, TypeOK', ListInv, CheckTimer
    PROVE  TS!ServiceNext
<1>1. /\ Sound(wheel) /\ wheel \in WheelType /\ currentSlot \in SlotIndices
      /\ ~Locked /\ Locked' /\ ptimer' = wheel.head[currentSlot]
      /\ UNCHANGED <<wheel, currentSlot, timeout, once>>
  BY DEF ListInv, TypeOK, WheelType, CheckTimer, Goto, Locked
<1>2. None \notin Nat
  BY TimersAssumption
<1>3. ASSUME NEW t \in Timers
      PROVE  /\ TicksLeft(t) # 0
             /\ TicksLeft(t)' = IF TicksLeft(t) = None THEN None ELSE TicksLeft(t) - 1
  <2> DEFINE d == Distance(wheel.slot[t], currentSlot) + wheel.rotation[t] * SlotNum
  <2>1. /\ TicksLeft(t) = LeftOf(wheel, currentSlot, ptimer, FALSE, t)
        /\ TicksLeft(t)' = LeftOf(wheel, currentSlot, wheel.head[currentSlot], TRUE, t)
    BY <1>1, LeftIs, LeftWillBe
  <2>2. CASE ~InWheel(wheel, t)
    <3>1. TicksLeft(t) = None /\ TicksLeft(t)' = None
      BY <2>1, <2>2 DEF LeftOf
    <3>2. QED
      BY <1>2, <3>1
  <2>3. CASE InWheel(wheel, t)
    <3>1. TicksLeft(t) = d + 1 /\ d \in Nat /\ TicksLeft(t) # None
      BY <1>1, <2>1, <2>3, LeftType
    <3>2. t \in Chain(wheel, wheel.head[wheel.slot[t]])
      BY <1>1, <2>3 DEF Sound, Reached
    <3>3. TicksLeft(t)' = d
      BY <2>1, <2>3, <3>2 DEF LeftOf
    <3> HIDE DEF d
    <3>4. QED
      BY <3>1, <3>3
  <2>4. QED
    BY <2>2, <2>3
<1>4. /\ \A t \in Timers : Left[t] # 0
      /\ Left' = [t \in Timers |-> IF Left[t] = None THEN None ELSE Left[t] - 1]
  BY <1>3 DEF Left
<1>5. QED
  BY <1>1, <1>4, TickIs

\* The end of a scan turns the wheel on by one slot: the timers of the slot it
\* leaves are a whole turn away.
LEMMA ScanDoneMaps ==
    ASSUME TypeOK, TypeOK', ScanDone
    PROVE  Left' = Left
<1>1. /\ wheel \in WheelType /\ currentSlot \in SlotIndices /\ ptimer = None
      /\ Locked /\ ~Locked' /\ wheel' = wheel /\ currentSlot' = (currentSlot + 1) % SlotNum
  BY DEF TypeOK, WheelType, ScanDone, Goto, Locked
<1>2. ASSUME NEW t \in Timers PROVE TicksLeft(t)' = TicksLeft(t)
  <2> DEFINE turns == wheel.rotation[t] * SlotNum
             before == Distance(wheel.slot[t], currentSlot)
             after == Distance(wheel.slot[t], currentSlot')
  <2>1. /\ TicksLeft(t) = LeftOf(wheel, currentSlot, None, TRUE, t)
        /\ TicksLeft(t)' = LeftOf(wheel, currentSlot', ptimer', FALSE, t)
    BY <1>1, LeftIs, LeftWillBe
  <2>2. /\ wheel.slot[t] \in SlotIndices /\ wheel.rotation[t] \in Nat /\ SlotNum \in Nat
        /\ currentSlot' \in SlotIndices
    BY <1>1, Fields, SlotNumAssumption DEF TypeOK
  <2>3. turns \in Nat /\ before \in Nat /\ after \in Nat /\ (before = 0 <=> wheel.slot[t] = currentSlot)
    <3>1. turns \in Nat
      BY <2>2
    <3>2. before \in Nat /\ after \in Nat /\ (before = 0 <=> wheel.slot[t] = currentSlot)
      BY <1>1, <2>2, DistanceIs, Zenon
    <3>3. QED
      BY <3>1, <3>2
  <2>4. after + 1 = IF wheel.slot[t] = currentSlot THEN SlotNum ELSE before
    BY <1>1, <2>2, DistanceTurned
  <2>5. t \notin Chain(wheel, None)
    BY ChainNone
  <2>6. /\ TicksLeft(t)' = IF ~InWheel(wheel, t) THEN None ELSE after + turns + 1
        /\ TicksLeft(t) = IF ~InWheel(wheel, t) THEN None
                          ELSE IF wheel.slot[t] = currentSlot THEN before + turns + SlotNum
                          ELSE before + turns
    BY <2>1, <2>5 DEF LeftOf
  <2> HIDE DEF turns, before, after
  <2>7. QED
    BY <2>2, <2>3, <2>4, <2>6
<1>3. QED
  BY <1>2 DEF Left

\* A scan that goes on leaves every timer but the one it was at.
LEMMA ScanMaps ==
    ASSUME TypeOK, TypeOK', ListInv, NotYet \/ FireTimer, NEW t \in Timers, t = ptimer
    PROVE  Left' = [Left EXCEPT ![t] = TicksLeft(t)']
<1>1. /\ ptimer \in Timers /\ InWheel(wheel, ptimer) /\ ptimer' = wheel.next[ptimer]
      /\ Locked /\ Locked' /\ currentSlot' = currentSlot
  BY ScanIs
<1>2. OthersStay(wheel, wheel', ptimer) /\ Chain(wheel', ptimer') = Chain(wheel, ptimer')
  BY ScanSteps
<1>3. Chain(wheel, ptimer) = {ptimer} \cup Chain(wheel, ptimer')
  BY <1>1, NextIs DEF ListInv
<1>4. ASSUME NEW u \in Timers \ {t} PROVE TicksLeft(u)' = TicksLeft(u)
  <2>1. u \in Chain(wheel', ptimer') <=> u \in Chain(wheel, ptimer)
    BY <1>2, <1>3
  <2>2. /\ InWheel(wheel', u) <=> InWheel(wheel, u)
        /\ wheel'.slot[u] = wheel.slot[u] /\ wheel'.rotation[u] = wheel.rotation[u]
    BY <1>1, <1>2 DEF OthersStay
  <2>3. LeftOf(wheel', currentSlot, ptimer', TRUE, u) = LeftOf(wheel, currentSlot, ptimer, TRUE, u)
    BY <2>1, <2>2 DEF LeftOf
  <2>4. QED
    BY <1>1, <2>3, LeftIs, LeftWillBe
<1>5. QED
  BY <1>1, <1>4 DEF Left

\* What the timer that the scan was at has left, before and after.
LEMMA ScanAtIs ==
    ASSUME TypeOK, TypeOK', ListInv, NotYet \/ FireTimer, NEW t \in Timers, t = ptimer
    PROVE  /\ TicksLeft(t) = wheel.rotation[t] * SlotNum
           /\ TicksLeft(t)' =
                IF ~InWheel(wheel', t) THEN None
                ELSE LET d == Distance(wheel'.slot[t], currentSlot) + wheel'.rotation[t] * SlotNum
                     IN  IF wheel'.slot[t] = currentSlot THEN d + SlotNum ELSE d
<1>1. /\ ptimer = t /\ InWheel(wheel, t) /\ wheel.slot[t] = currentSlot
      /\ Locked /\ Locked' /\ ptimer' = wheel.next[t] /\ currentSlot' = currentSlot
  BY ScanIs
<1>2. Sound(wheel) /\ wheel \in WheelType /\ currentSlot \in SlotIndices
  BY DEF ListInv, TypeOK, WheelType
<1>3. Chain(wheel', ptimer') = Chain(wheel, ptimer')
  BY ScanSteps
<1>4. t \in Chain(wheel, t) /\ t \notin Chain(wheel', ptimer')
  BY <1>1, <1>2, <1>3, NextIs
<1>5. Distance(wheel.slot[t], currentSlot) = 0 /\ wheel.rotation[t] \in Nat /\ SlotNum \in Nat
  BY <1>1, <1>2, DistanceIs, Fields, SlotNumAssumption
<1>6. 0 + wheel.rotation[t] * SlotNum = wheel.rotation[t] * SlotNum
  BY <1>5
<1>7. TicksLeft(t) = LeftOf(wheel, currentSlot, t, TRUE, t)
  BY <1>1, LeftIs
<1>8. TicksLeft(t)' = LeftOf(wheel', currentSlot, ptimer', TRUE, t)
  BY <1>1, LeftWillBe
<1>9. QED
  BY <1>1, <1>4, <1>5, <1>6, <1>7, <1>8 DEF LeftOf

\* A turn that a timer has behind it is a turn less to go.
LEMMA NotYetMaps ==
    ASSUME TypeOK, TypeOK', ListInv, NotYet
    PROVE  Left' = Left
<1>1. PICK t \in Timers : t = ptimer
  BY ScanIs
<1>2. /\ InWheel(wheel, t) /\ wheel.slot[t] = currentSlot /\ Sound(wheel)
      /\ wheel.rotation[t] > 0 /\ wheel' = [wheel EXCEPT !.rotation[t] = @ - 1]
  BY <1>1, ScanIs DEF ListInv, NotYet
<1>3. /\ InWheel(wheel', t) /\ wheel'.slot[t] = currentSlot
      /\ wheel'.rotation[t] = wheel.rotation[t] - 1
  BY <1>2, CountDownSound
<1>4. /\ wheel.rotation[t] \in Nat /\ SlotNum \in Nat /\ currentSlot \in SlotIndices
      /\ Distance(currentSlot, currentSlot) = 0
  BY Fields, SlotNumAssumption, DistanceIs DEF TypeOK, WheelType
<1>5. 0 + (wheel.rotation[t] - 1) * SlotNum + SlotNum = wheel.rotation[t] * SlotNum
  BY <1>2, <1>4
<1>6. TicksLeft(t)' = TicksLeft(t)
  BY <1>1, <1>3, <1>4, <1>5, ScanAtIs
<1>7. Left' = [Left EXCEPT ![t] = Left[t]]
  BY <1>1, <1>6, ScanMaps DEF Left
<1>8. QED
  BY <1>7 DEF Left

\* A timer whose turns are done fires, and a periodic one starts again.
LEMMA FireMaps ==
    ASSUME TypeOK, TypeOK', ListInv, FireTimer
    PROVE  TS!ServiceNext
<1>1. PICK t \in Timers : t = ptimer
  BY ScanIs
<1>2. /\ InWheel(wheel, t) /\ Sound(wheel) /\ wheel.rotation[t] = 0
      /\ UNCHANGED <<timeout, once>>
  BY <1>1, ScanIs DEF ListInv, FireTimer
<1>3. SlotNum \in Nat /\ SlotNum > 1 /\ currentSlot \in SlotIndices
  BY SlotNumAssumption DEF TypeOK
<1>4. TicksLeft(t) = 0
  <2>1. 0 * SlotNum = 0
    BY <1>3
  <2>2. QED
    BY <1>1, <1>2, <2>1, ScanAtIs
<1>5. CASE once[t]
  <2>1. wheel' = RemoveTimerFromTimeWheel(wheel, t)
    BY <1>1, <1>5 DEF FireTimer
  <2>2. ~InWheel(wheel', t)
    BY <1>2, <2>1, RemoveSound
  <2>3. TicksLeft(t)' = None
    BY <1>1, <2>2, ScanAtIs
  <2>4. QED
    BY <1>1, <1>2, <1>4, <1>5, <2>3, ScanMaps, FireIs DEF Left
<1>6. CASE ~once[t]
  <2> DEFINE again == AdjustTimerToWheel(wheel, t)
             T == Turns(t)
  <2>1. /\ Sound(again) /\ InWheel(again, t) /\ again.slot[t] = (currentSlot + T) % SlotNum
        /\ again.rotation[t] = T \div SlotNum
    BY <1>2, AdjustSound
  <2>2. wheel' = IF again.slot[t] = currentSlot /\ again.rotation[t] > 0
                 THEN [again EXCEPT !.rotation[t] = @ - 1] ELSE again
    BY <1>1, <1>6 DEF FireTimer
  <2>3. /\ Distance(again.slot[t], currentSlot) + again.rotation[t] * SlotNum = T
        /\ again.rotation[t] \in Nat /\ again.slot[t] \in SlotIndices
    BY <2>1, EnteredIs, Fields DEF Sound
  <2>4. T \in Nat /\ T > 0
    BY TurnsIs
  <2> HIDE DEF again, T
  <2>5. TicksLeft(t)' = T
    <3>1. CASE again.slot[t] # currentSlot
      <4>1. wheel' = again
        BY <2>2, <3>1
      <4>2. QED
        BY <1>1, <2>1, <2>3, <3>1, <4>1, ScanAtIs
    <3>2. CASE again.slot[t] = currentSlot
      <4>1. Distance(currentSlot, currentSlot) = 0
        BY <1>3, DistanceIs
      <4>2. again.rotation[t] > 0 /\ again.rotation[t] * SlotNum = T
        BY <1>3, <2>3, <2>4, <3>2, <4>1
      <4>3. wheel' = [again EXCEPT !.rotation[t] = @ - 1]
        BY <2>2, <3>2, <4>2
      <4>4. /\ InWheel(wheel', t) /\ wheel'.slot[t] = currentSlot
            /\ wheel'.rotation[t] = again.rotation[t] - 1
        BY <2>1, <3>2, <4>2, <4>3, CountDownSound
      <4>5. 0 + (again.rotation[t] - 1) * SlotNum + SlotNum = again.rotation[t] * SlotNum
        BY <1>3, <2>3
      <4>6. QED
        BY <1>1, <4>1, <4>2, <4>4, <4>5, ScanAtIs
    <3>3. QED
      BY <3>1, <3>2
  <2>6. Left' = [Left EXCEPT ![t] = TS!Period(t)]
    BY <1>1, <2>5, ScanMaps, PeriodIs DEF T
  <2>7. QED
    BY <1>2, <1>4, <1>6, <2>6, FireIs DEF Left
<1>7. QED
  BY <1>5, <1>6

LEMMA StepMaps ==
    TypeOK /\ ListInv /\ TypeOK' /\ [Next]_vars => [TS!ServiceNext]_TS!serviceVars
<1>1. SUFFICES ASSUME TypeOK, ListInv, TypeOK', [Next]_vars
               PROVE  TS!ServiceNext \/ UNCHANGED TS!serviceVars
  OBVIOUS
<1>2. Left' = Left /\ UNCHANGED <<timeout, once>> => UNCHANGED TS!serviceVars
  BY DEF TS!serviceVars, Left
<1>3. CASE UNCHANGED vars
  BY <1>1, <1>2, <1>3, StutterLeft DEF vars, threadVars, Locked
<1>4. CASE Advance \/ Start \/ Stop
  <2>1. /\ UNCHANGED <<wheel, currentSlot, ptimer, timeout, once>>
        /\ pc' = pc \/ (pc = "none" /\ pc' = "start")
    BY <1>4 DEF Advance, Start, Stop, Call, threadVars
  <2>2. QED
    BY <1>1, <1>2, <2>1, StutterLeft DEF Locked
<1>5. CASE ReadClock \/ CheckTick \/ TicksDone
  <2>1. /\ UNCHANGED <<wheel, currentSlot, ptimer, timeout, once>>
        /\ pc # "scan" /\ pc' # "scan"
    BY <1>5 DEF ReadClock, CheckTick, TicksDone, Goto
  <2>2. QED
    BY <1>1, <1>2, <2>1, StutterLeft DEF Locked
<1>6. ASSUME NEW t \in Timers, NEW T \in Timeouts, NEW o \in BOOLEAN, Adjust(t, T, o)
      PROVE  TS!ServiceNext
  <2>1. /\ UNCHANGED <<wheel, currentSlot, ptimer, pc>>
        /\ timeout' = [timeout EXCEPT ![t] = T] /\ once' = [once EXCEPT ![t] = o]
    BY <1>6 DEF Adjust, Call, threadVars
  <2>2. Left' = Left
    BY <1>1, <2>1, StutterLeft DEF Locked
  <2>3. QED
    BY <2>1, <2>2, ChangeIs
<1>7. CASE ScanDone
  <2>1. UNCHANGED <<timeout, once>>
    BY <1>7 DEF ScanDone
  <2>2. QED
    BY <1>1, <1>2, <1>7, <2>1, ScanDoneMaps
<1>8. CASE NotYet
  <2>1. UNCHANGED <<timeout, once>>
    BY <1>8 DEF NotYet, Scan
  <2>2. QED
    BY <1>1, <1>2, <1>8, <2>1, NotYetMaps
<1>9. CASE FireTimer
  BY <1>1, <1>9, FireMaps
<1>10. CASE CheckTimer
  BY <1>1, <1>10, CheckTimerMaps
<1>11. CASE \E t \in Timers : AddTimer(t) \/ RemoveTimer(t) \/ AdjustTimer(t)
  BY <1>1, <1>11, CallMaps
<1>12. QED
  BY <1>1, <1>3, <1>4, <1>5, <1>6, <1>7, <1>8, <1>9, <1>10, <1>11 DEF Next, ThreadStep

LEMMA InitMaps == Init => TS!ServiceInit
<1>1. SUFFICES ASSUME Init PROVE TS!ServiceInit
  OBVIOUS
<1>2. \A t \in Timers : ~InWheel(wheel, t)
  BY <1>1, SlotNumAssumption, TimersAssumption DEF Init, InWheel, SlotIndices
<1>3. \A t \in Timers : TicksLeft(t) = None
  BY <1>2 DEF TicksLeft
<1>4. QED
  BY <1>1, <1>3 DEF TS!ServiceInit, Init

\* A timer fires in the tick that its timeout names and in no other
\* (TimerManager.hpp:116-190), for any number of slots and timers and any timeouts:
\* the wheel, with its rotations and its lists, implements TimerService.
THEOREM TimerRefinement == Spec => ImplementsTimerService
<1>1. Init => TS!ServiceInit
  BY InitMaps
<1>2. TypeOK /\ ListInv /\ TypeOK' /\ [Next]_vars => [TS!ServiceNext]_TS!serviceVars
  BY StepMaps
<1>3. QED
  BY <1>1, <1>2, ListAlways, PTL DEF Spec, ImplementsTimerService, TS!ServiceSpec
=============================================================================
