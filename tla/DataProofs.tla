----------------------------- MODULE DataProofs ----------------------------
(***************************************************************************)
(* Coroutine, for every number of tasks: types, the agreement of the       *)
(* scheduler's notes with the processor, the count that schedule_finished  *)
(* stands for, and the loss of the main program.                           *)
(*                                                                         *)
(* HttpRequest, for any messages, files and number of requests: its types, *)
(* and that each request gets the answer that is due to it.                *)
(*                                                                         *)
(* PortProxy, for every number of workers, targets and requests: its types; *)
(* the index past the last target is never used, and without a race the    *)
(* targets serve in turn.                                                  *)
(*                                                                         *)
(* MCData: what is proved of a component holds beside the others.          *)
(***************************************************************************)
EXTENDS MCData, DocumentProofs, TimerManagerProofs, FiniteSetTheorems, SequenceTheorems, TLAPS

SchedulerTypes ==
    /\ threads \in Seq(ThreadStates)
    /\ Len(threads) <= capacity /\ capacity \in Nat
    /\ Len(threads) <= created /\ created \in 0 .. MaxTasks
    /\ runningThread \in Coroutines \cup {NoThread}
    /\ current \in Coroutines \cup {Main, Undefined}
    /\ mainctx \in Coroutines \cup {Main}
    /\ moved \subseteq Coroutines
    /\ ended \in Nat

\* Who executes is the coroutine in runningThread, or whoever mainctx returns to;
\* and both have been resumed and have neither yielded nor ended.
ContextInv ==
    /\ runningThread \in Coroutines => threads[runningThread] = "RUNNING"
    /\ current # Undefined =>
           /\ runningThread = NoThread => current = mainctx
           /\ runningThread # NoThread => current = runningThread /\ mainctx # current
           /\ current \in Coroutines => threads[current] = "RUNNING"
           /\ mainctx \in Coroutines => threads[mainctx] = "RUNNING"
           /\ mainctx = Main => \A i \in Coroutines : threads[i] = "RUNNING" => i = current

\* The tasks that are not over have a slot each.
Busy == {i \in Coroutines : threads[i] # "FREE"}
CountInv == created = ended + Cardinality(Busy)

SchedulerInv == SchedulerTypes /\ ContextInv /\ CountInv

-----------------------------------------------------------------------------

LEMMA BusyFinite == SchedulerTypes => IsFiniteSet(Busy) /\ Cardinality(Busy) \in Nat
<1>1. SUFFICES ASSUME SchedulerTypes PROVE IsFiniteSet(Busy) /\ Cardinality(Busy) \in Nat
  OBVIOUS
<1>2. Coroutines = 1 .. Len(threads) /\ Len(threads) \in Nat
  BY <1>1 DEF SchedulerTypes, Coroutines
<1>3. IsFiniteSet(Coroutines)
  BY <1>2, FS_Interval
<1>4. Busy \in SUBSET Coroutines
  BY DEF Busy
<1>5. QED
  BY <1>3, <1>4, FS_Subset, FS_CardinalityType

\* Slots are numbered from 1: neither the main program nor the lost one has a number of a slot.
LEMMA SlotNumbers ==
    SchedulerTypes => /\ Coroutines = 1 .. Len(threads) /\ Len(threads) \in 0 .. MaxTasks
                      /\ Main \notin Coroutines /\ Undefined \notin Coroutines
                      /\ Main # Undefined
  BY MaxTasksAssumption DEF SchedulerTypes, Coroutines, Main, Undefined

\* The first free slot exists.
LEMMA FirstFreeSlot ==
    ASSUME SchedulerTypes, FreeSlots # {},
           NEW i, i = CHOOSE k \in FreeSlots : \A j \in FreeSlots : k <= j
    PROVE  i \in Coroutines /\ threads[i] = "FREE"
<1>1. FreeSlots \subseteq Nat
  BY SlotNumbers DEF FreeSlots
<1>2. \E j \in FreeSlots : \A k \in FreeSlots : j <= k
  BY <1>1, Minimum
<1>3. i \in FreeSlots
  BY <1>2, Zenon
<1>4. QED
  BY <1>3 DEF FreeSlots

LEMMA SchedulerInitInv == CoroutineInit => SchedulerInv
<1>1. SUFFICES ASSUME CoroutineInit PROVE SchedulerInv
  OBVIOUS
<1>2. SchedulerTypes
  BY <1>1, MaxTasksAssumption DEF CoroutineInit, SchedulerTypes, Coroutines
<1>3. Coroutines = {}
  BY <1>1 DEF CoroutineInit, Coroutines
<1>4. ContextInv
  BY <1>1, <1>3 DEF CoroutineInit, ContextInv, Main, NoThread
<1>5. Busy = {}
  BY <1>3 DEF Busy
<1>6. CountInv
  BY <1>1, <1>5, FS_EmptySet DEF CoroutineInit, CountInv
<1>7. QED
  BY <1>2, <1>4, <1>6 DEF SchedulerInv

\* A task is created in a free slot, or in a new one.
LEMMA CreateStep == SchedulerInv /\ Create => SchedulerInv'
<1>1. SUFFICES ASSUME SchedulerInv, Create PROVE SchedulerInv'
  OBVIOUS
<1>2. SchedulerTypes /\ ContextInv /\ CountInv
  BY <1>1 DEF SchedulerInv
<1>3. /\ current # Undefined /\ created < MaxTasks /\ created' = created + 1
      /\ UNCHANGED <<runningThread, current, mainctx, ended>>
  BY <1>1 DEF Create
<1>4. IsFiniteSet(Busy) /\ Cardinality(Busy) \in Nat
  BY <1>2, BusyFinite
<1>5. CASE FreeSlots # {}
  <2>1. PICK i : i = CHOOSE k \in FreeSlots : \A j \in FreeSlots : k <= j
    OBVIOUS
  <2>2. i \in Coroutines /\ threads[i] = "FREE"
    BY <1>2, <1>5, <2>1, FirstFreeSlot
  <2>3. threads' = [threads EXCEPT ![i] = "RUNNABLE"] /\ moved' = moved \ {i} /\ UNCHANGED capacity
    BY <1>1, <1>5, <2>1, Zenon DEF Create
  <2>4. /\ threads' \in Seq(ThreadStates) /\ Len(threads') = Len(threads) /\ Coroutines' = Coroutines
        /\ \A j \in Coroutines : threads'[j] = IF j = i THEN "RUNNABLE" ELSE threads[j]
    BY <1>2, <2>2, <2>3, SlotNumbers DEF SchedulerTypes, Coroutines, ThreadStates
  <2>5. SchedulerTypes'
    BY <1>2, <1>3, <2>3, <2>4, MaxTasksAssumption DEF SchedulerTypes, Undefined
  <2>6. ContextInv'
    BY <1>2, <1>3, <2>2, <2>4 DEF ContextInv, Undefined
  <2>7. Busy' = Busy \cup {i} /\ i \notin Busy
    BY <2>2, <2>4 DEF Busy
  <2>8. Cardinality(Busy') = Cardinality(Busy) + 1
    BY <1>4, <2>7, FS_AddElement
  <2>9. CountInv'
    BY <1>2, <1>3, <1>4, <2>8 DEF CountInv, SchedulerTypes
  <2>10. QED
    BY <2>5, <2>6, <2>9 DEF SchedulerInv
<1>6. CASE FreeSlots = {}
  <2> DEFINE n == Len(threads) + 1
  <2>1. /\ threads' = Append(threads, "RUNNABLE")
        /\ \/ Len(threads) < capacity /\ UNCHANGED <<capacity, moved>>
           \/ /\ ~(Len(threads) < capacity) /\ moved' = Coroutines
              /\ capacity' = IF capacity = 0 THEN 1 ELSE 2 * capacity
    BY <1>1, <1>6 DEF Create
  <2>2. /\ threads' \in Seq(ThreadStates) /\ Len(threads') = n
        /\ \A j \in 1 .. Len(threads) : threads'[j] = threads[j]
        /\ threads'[n] = "RUNNABLE"
    BY <1>2, <2>1, AppendProperties DEF SchedulerTypes, ThreadStates
  <2>3. Coroutines = 1 .. Len(threads) /\ Len(threads) \in Nat /\ Coroutines' = 1 .. n
    BY <1>2, <2>2, SlotNumbers DEF Coroutines, SchedulerTypes
  <2>4. Coroutines' = Coroutines \cup {n} /\ n \notin Coroutines
    BY <2>3
  <2>5. Len(threads) <= capacity /\ capacity \in Nat
    BY <1>2 DEF SchedulerTypes
  <2>6. Len(threads') <= capacity' /\ capacity' \in Nat
    BY <2>1, <2>2, <2>3, <2>5
  <2>7. moved' \subseteq Coroutines'
    BY <1>2, <2>1, <2>4 DEF SchedulerTypes
  <2>8. SchedulerTypes'
    BY <1>2, <1>3, <2>2, <2>3, <2>4, <2>6, <2>7, MaxTasksAssumption DEF SchedulerTypes, Undefined
  <2>9. ContextInv'
    <3>1. current \in Coroutines \cup {Main} /\ mainctx \in Coroutines \cup {Main}
          /\ Main \notin Coroutines /\ runningThread \in Coroutines \cup {NoThread}
      BY <1>2, <1>3, SlotNumbers DEF SchedulerTypes
    <3>2. \A j \in Coroutines : threads'[j] = threads[j]
      BY <2>2, <2>3
    <3>3. Main \notin Coroutines'
      BY <2>3 DEF Main
    <3>4. \A j \in Coroutines' : threads'[j] = "RUNNING" => j \in Coroutines
      BY <2>2, <2>4
    <3> HIDE DEF n
    <3>5. QED
      BY <1>2, <1>3, <3>1, <3>2, <3>3, <3>4, <2>4 DEF ContextInv, Undefined, Main, NoThread
  <2>10. Busy' = Busy \cup {n} /\ n \notin Busy
    BY <2>2, <2>3, <2>4 DEF Busy
  <2>11. Cardinality(Busy') = Cardinality(Busy) + 1
    BY <1>4, <2>10, FS_AddElement
  <2>12. CountInv'
    BY <1>2, <1>3, <1>4, <2>11 DEF CountInv, SchedulerTypes
  <2>13. QED
    BY <2>8, <2>9, <2>12 DEF SchedulerInv
<1>7. QED
  BY <1>5, <1>6

\* The coroutine that yields gives the processor to mainctx, which is another one.
LEMMA YieldStep == SchedulerInv /\ Yield => SchedulerInv'
<1>1. SUFFICES ASSUME SchedulerInv, Yield PROVE SchedulerInv'
  OBVIOUS
<1>2. SchedulerTypes /\ ContextInv /\ CountInv
  BY <1>1 DEF SchedulerInv
<1>3. /\ current # Undefined /\ runningThread # NoThread
      /\ threads' = [threads EXCEPT ![runningThread] = "SUSPEND"]
      /\ runningThread' = NoThread /\ current' = mainctx
      /\ UNCHANGED <<mainctx, capacity, moved, created, ended>>
  BY <1>1 DEF Yield
<1>4. current = runningThread /\ mainctx # current /\ current \in Coroutines /\ threads[current] = "RUNNING"
  BY <1>2, <1>3 DEF ContextInv, SchedulerTypes
<1>5. /\ threads' \in Seq(ThreadStates) /\ Len(threads') = Len(threads) /\ Coroutines' = Coroutines
      /\ \A j \in Coroutines : threads'[j] = IF j = current THEN "SUSPEND" ELSE threads[j]
  BY <1>2, <1>3, <1>4, SlotNumbers DEF SchedulerTypes, Coroutines, ThreadStates
<1>6. SchedulerTypes'
  BY <1>2, <1>3, <1>5 DEF SchedulerTypes, Undefined
<1>7. ContextInv'
  BY <1>2, <1>3, <1>4, <1>5, SlotNumbers DEF ContextInv, Undefined, SchedulerTypes, Main, NoThread
<1>8. Busy' = Busy
  BY <1>4, <1>5 DEF Busy
<1>9. CountInv'
  BY <1>2, <1>3, <1>8 DEF CountInv
<1>10. QED
  BY <1>6, <1>7, <1>9 DEF SchedulerInv

\* Whoever resumes is found in mainctx, and is not the coroutine that is resumed.
LEMMA ResumeStep == ASSUME SchedulerInv, NEW id \in Coroutines, Resume(id) PROVE SchedulerInv'
<1>1. SchedulerTypes /\ ContextInv /\ CountInv
  BY DEF SchedulerInv
<1>2. /\ current # Undefined /\ threads[id] \in {"SUSPEND", "RUNNABLE"}
      /\ threads' = [threads EXCEPT ![id] = "RUNNING"]
      /\ runningThread' = id /\ current' = id /\ mainctx' = current
      /\ UNCHANGED <<capacity, moved, created, ended>>
  BY DEF Resume
<1>3. current \in Coroutines \cup {Main} /\ id # current /\ id # Main
  BY <1>1, <1>2, SlotNumbers DEF ContextInv, SchedulerTypes
<1>4. /\ threads' \in Seq(ThreadStates) /\ Len(threads') = Len(threads) /\ Coroutines' = Coroutines
      /\ \A j \in Coroutines : threads'[j] = IF j = id THEN "RUNNING" ELSE threads[j]
  BY <1>1, <1>2, SlotNumbers DEF SchedulerTypes, Coroutines, ThreadStates
<1>5. SchedulerTypes'
  BY <1>1, <1>2, <1>3, <1>4 DEF SchedulerTypes, Undefined
<1>6. current = Main => \A i \in Coroutines : threads[i] # "RUNNING"
  BY <1>1, <1>2, SlotNumbers DEF ContextInv, SchedulerTypes, Main, NoThread
<1>7. ContextInv'
  BY <1>1, <1>2, <1>3, <1>4, <1>6, SlotNumbers DEF ContextInv, Undefined, NoThread, Main
<1>8. Busy' = Busy
  BY <1>2, <1>4 DEF Busy
<1>9. CountInv'
  BY <1>1, <1>2, <1>8 DEF CountInv
<1>10. QED
  BY <1>5, <1>7, <1>9 DEF SchedulerInv

\* A task that ends leaves its slot, and the processor to mainctx.
LEMMA FinishStep == SchedulerInv /\ Finish => SchedulerInv'
<1>1. SUFFICES ASSUME SchedulerInv, Finish PROVE SchedulerInv'
  OBVIOUS
<1>2. SchedulerTypes /\ ContextInv /\ CountInv
  BY <1>1 DEF SchedulerInv
<1>3. /\ current \in Coroutines
      /\ threads' = [threads EXCEPT ![current] = "FREE"]
      /\ runningThread' = NoThread /\ ended' = ended + 1
      /\ current' = IF mainctx = current THEN Undefined ELSE mainctx
      /\ UNCHANGED <<mainctx, capacity, moved, created>>
  BY <1>1 DEF Finish, Continue
<1>4. current # Undefined /\ threads[current] = "RUNNING"
  BY <1>2, <1>3, SlotNumbers DEF ContextInv
<1>5. /\ threads' \in Seq(ThreadStates) /\ Len(threads') = Len(threads) /\ Coroutines' = Coroutines
      /\ \A j \in Coroutines : threads'[j] = IF j = current THEN "FREE" ELSE threads[j]
  BY <1>2, <1>3, SlotNumbers DEF SchedulerTypes, Coroutines, ThreadStates
<1>6. SchedulerTypes'
  BY <1>2, <1>3, <1>5 DEF SchedulerTypes, Undefined
<1>7. ContextInv'
  BY <1>2, <1>3, <1>4, <1>5, SlotNumbers DEF ContextInv, Undefined, SchedulerTypes, Main, NoThread
<1>8. Busy' = Busy \ {current} /\ current \in Busy
  BY <1>3, <1>4, <1>5 DEF Busy
<1>9. IsFiniteSet(Busy) /\ Cardinality(Busy) \in Nat
  BY <1>2, BusyFinite
<1>10. Cardinality(Busy') = Cardinality(Busy) - 1
  BY <1>8, <1>9, FS_RemoveElement
<1>11. CountInv'
  BY <1>2, <1>3, <1>9, <1>10 DEF CountInv, SchedulerTypes
<1>12. QED
  BY <1>6, <1>7, <1>11 DEF SchedulerInv

LEMMA SchedulerStepInv == SchedulerInv /\ [CoroutineNext]_coroutineVars => SchedulerInv'
<1>1. SUFFICES ASSUME SchedulerInv, [CoroutineNext]_coroutineVars PROVE SchedulerInv'
  OBVIOUS
<1>2. CASE RunOnFreedStack
  BY <1>1, <1>2 DEF RunOnFreedStack, SchedulerInv, SchedulerTypes, ContextInv, CountInv, Busy,
                    Coroutines, Undefined, Main
<1>3. CASE UNCHANGED coroutineVars
  BY <1>1, <1>3 DEF coroutineVars, SchedulerInv, SchedulerTypes, ContextInv, CountInv, Busy,
                    Coroutines, Undefined, Main
<1>4. QED
  BY <1>1, <1>2, <1>3, CreateStep, YieldStep, ResumeStep, FinishStep DEF CoroutineNext

LEMMA SchedulerAlways == CoroutineSpec => []SchedulerInv
  BY SchedulerInitInv, SchedulerStepInv, PTL DEF CoroutineSpec

-----------------------------------------------------------------------------

\* The types, and that no more tasks end than were created, for any MaxTasks.
THEOREM CoroutineTypeCorrect == CoroutineSpec => []CoroutineTypeOK
<1>1. SchedulerInv => CoroutineTypeOK
  <2>1. SUFFICES ASSUME SchedulerInv PROVE CoroutineTypeOK
    OBVIOUS
  <2>2. Cardinality(Busy) \in Nat
    BY <2>1, BusyFinite DEF SchedulerInv
  <2>3. ended \in 0 .. created
    BY <2>1, <2>2 DEF SchedulerInv, SchedulerTypes, CountInv
  <2>4. QED
    BY <2>1, <2>3 DEF SchedulerInv, SchedulerTypes, CoroutineTypeOK
<1>2. QED
  BY <1>1, SchedulerAlways, PTL

\* The coroutine in runningThread executes and is the only one in RUNNING while
\* only the main program resumes, and schedule_finished() counts right over all
\* reuses of the slots: uthread_create, uthread_resume, uthread_yield and
\* uthread_func, for any number of tasks.
THEOREM RunningIsCurrentHolds == CoroutineSpec => []RunningIsCurrent
<1>1. SchedulerInv => RunningIsCurrent
  <2>1. SUFFICES ASSUME SchedulerInv PROVE RunningIsCurrent
    OBVIOUS
  <2>2. SchedulerTypes /\ ContextInv /\ CountInv
    BY <2>1 DEF SchedulerInv
  <2>3. IsFiniteSet(Busy) /\ Cardinality(Busy) \in Nat
    BY <2>2, BusyFinite
  <2>4. ASSUME mainctx = Main, current # Undefined
        PROVE  runningThread = current /\ \A i \in Coroutines : threads[i] = "RUNNING" <=> i = current
    BY <2>2, <2>4 DEF ContextInv, Main, NoThread
  <2>5. created = ended <=> Busy = {}
    BY <2>2, <2>3, FS_EmptySet DEF CountInv, SchedulerTypes
  <2>6. Busy = {} <=> \A i \in Coroutines : threads[i] = "FREE"
    BY DEF Busy
  <2>7. Busy = {} => runningThread = NoThread
    <3>1. SUFFICES ASSUME \A i \in Coroutines : threads[i] = "FREE" PROVE runningThread = NoThread
      BY <2>6
    <3>2. QED
      BY <2>2, <3>1, SlotNumbers DEF ContextInv, SchedulerTypes
  <2>8. QED
    BY <2>4, <2>5, <2>6, <2>7 DEF RunningIsCurrent, ScheduleFinished
<1>2. QED
  BY <1>1, SchedulerAlways, PTL

\* Once a coroutine has resumed another one, the main program never runs again:
\* mainctx, coroutine.cpp:69 and 74, for any number of tasks.
THEOREM MainIsLostHolds == CoroutineSpec => MainIsLost
<1>1. SchedulerInv /\ [CoroutineNext]_coroutineVars
          => [mainctx # Main => current' # Main /\ mainctx' # Main]_coroutineVars
  <2>1. SUFFICES ASSUME SchedulerInv, CoroutineNext, mainctx # Main
                 PROVE  current' # Main /\ mainctx' # Main
    OBVIOUS
  <2>2. current # Main
    BY <2>1, SlotNumbers DEF SchedulerInv, SchedulerTypes, ContextInv, Main, NoThread
  <2>3. Main \notin Coroutines /\ Main # Undefined
    BY <2>1, SlotNumbers DEF SchedulerInv
  <2>4. CASE Create \/ RunOnFreedStack
    BY <2>1, <2>2, <2>3, <2>4 DEF Create, RunOnFreedStack
  <2>5. CASE Yield \/ Finish
    BY <2>1, <2>2, <2>3, <2>5 DEF Yield, Finish, Continue
  <2>6. ASSUME NEW id \in Coroutines, Resume(id) PROVE current' # Main /\ mainctx' # Main
    BY <2>2, <2>3, <2>6 DEF Resume
  <2>7. QED
    BY <2>1, <2>4, <2>5, <2>6 DEF CoroutineNext
<1>2. QED
  BY <1>1, SchedulerAlways, PTL DEF CoroutineSpec, MainIsLost

-----------------------------------------------------------------------------
(* The parts of a URL.                                                     *)

Handlers == Callbacks \cup {"HttpHandler", "GetImageResource", "CoverHandler"}
ServiceNames == {"HttpService", "ResourceService", "CoverService"}

LEMMA MinIs ==
    ASSUME NEW S, S \subseteq Nat, S # {}
    PROVE  Min(S) \in S /\ \A n \in S : Min(S) <= n
<1>1. \E m \in S : \A n \in S : m <= n
  BY Minimum
<1>2. QED
  BY <1>1 DEF Min

LEMMA FindIs ==
    ASSUME NEW T, NEW url \in Seq(T), NEW c, c # NoText
    PROVE  \/ Find(url, c) = 0 /\ \A i \in 2 .. Len(url) : url[i] # c
           \/ /\ Find(url, c) \in 2 .. Len(url) /\ url[Find(url, c)] = c
              /\ \A i \in 2 .. Len(url) : i < Find(url, c) => url[i] # c
<1> DEFINE later == [i \in 1 .. Len(url) |-> IF i = 1 THEN NoText ELSE url[i]]
<1> DEFINE S == {i \in 1 .. Len(later) : later[i] = c}
<1>1. Len(url) \in Nat /\ later \in Seq(T \cup {NoText}) /\ Len(later) = Len(url)
  OBVIOUS
<1>2. Find(url, c) = IF S # {} THEN Min(S) ELSE 0
  BY DEF Find, SelectInSeq
<1>3. S = {i \in 2 .. Len(url) : url[i] = c}
  BY <1>1
<1> HIDE DEF S, later
<1>4. CASE S = {}
  BY <1>2, <1>3, <1>4
<1>5. CASE S # {}
  <2>1. S \subseteq Nat
    BY <1>1, <1>3
  <2>2. Min(S) \in S /\ \A n \in S : Min(S) <= n
    BY <1>5, <2>1, MinIs
  <2>3. Find(url, c) = Min(S)
    BY <1>2, <1>5
  <2>4. Min(S) \in 2 .. Len(url) /\ url[Min(S)] = c
    BY <1>3, <2>2
  <2>5. ASSUME NEW i \in 2 .. Len(url), i < Min(S)
        PROVE  url[i] # c
    BY <1>1, <1>3, <2>2, <2>4, <2>5
  <2>6. QED
    BY <2>3, <2>4, <2>5
<1>6. QED
  BY <1>4, <1>5

LEMMA PrefixIs ==
    ASSUME NEW T, NEW p \in Seq(T), NEW U, NEW t \in Seq(U)
    PROVE  IsPrefix(p, t) <=> Len(p) <= Len(t) /\ \A i \in 1 .. Len(p) : p[i] = t[i]
<1>1. Len(p) \in Nat /\ Len(t) \in Nat
  OBVIOUS
<1>2. SUFFICES ASSUME Len(p) <= Len(t)
      PROVE  SubSeq(p, 1, Len(p)) = SubSeq(t, 1, Len(p)) <=> \A i \in 1 .. Len(p) : p[i] = t[i]
  BY DEF IsPrefix
<1> DEFINE a == SubSeq(p, 1, Len(p))  b == SubSeq(t, 1, Len(p))
<1>3. a \in Seq(T) /\ Len(a) = Len(p) /\ \A i \in 1 .. Len(p) : a[i] = p[i]
  BY <1>1
<1>4. b \in Seq(U) /\ Len(b) = Len(p) /\ \A i \in 1 .. Len(p) : b[i] = t[i]
  BY <1>1, <1>2
<1> HIDE DEF a, b
<1>5. a = b <=> \A i \in 1 .. Len(p) : a[i] = b[i]
  <2>1. ASSUME \A i \in 1 .. Len(p) : a[i] = b[i]
        PROVE  a = b
    BY <1>3, <1>4, <2>1
  <2>2. QED
    BY <2>1
<1>6. QED
  BY <1>3, <1>4, <1>5 DEF a, b

LEMMA SingleIs ==
    ASSUME NEW T, NEW t \in Seq(T), NEW h
    PROVE  t = <<h>> <=> Len(t) = 1 /\ t[1] = h
<1>1. ASSUME Len(t) = 1, t[1] = h
      PROVE  t = <<h>>
  BY <1>1
<1>2. QED
  BY <1>1

LEMMA NamesIs ==
    ASSUME NEW T, NEW url \in Seq(T), NEW s, NEW h
    PROVE  /\ Names(url, <<s, "/">>) <=> Len(url) >= 3 /\ url[2] = s /\ url[3] = "/"
           /\ Names(url, <<s, "/", h>>)
                  <=> Len(url) >= 4 /\ url[2] = s /\ url[3] = "/" /\ url[4] = h
<1>1. CASE url = <<>>
  BY <1>1 DEF Names
<1>2. CASE url # <<>>
  <2> DEFINE t == Tail(url)
  <2>1. t \in Seq(T) /\ Len(t) = Len(url) - 1 /\ \A i \in 1 .. Len(t) : t[i] = url[i + 1]
    BY <1>2
  <2>2. Len(url) \in Nat
    OBVIOUS
  <2>3. \A p : Names(url, p) <=> IsPrefix(p, t)
    BY <1>2 DEF Names
  <2> HIDE DEF t
  <2>4. /\ Names(url, <<s, "/">>) <=> Len(t) >= 2 /\ t[1] = s /\ t[2] = "/"
    <3> DEFINE p == <<s, "/">>
    <3>1. p \in Seq({s, "/"}) /\ Len(p) = 2 /\ p[1] = s /\ p[2] = "/"
      OBVIOUS
    <3> HIDE DEF p
    <3>2. IsPrefix(p, t) <=> 2 <= Len(t) /\ \A i \in 1 .. 2 : p[i] = t[i]
      <4>1. p \in Seq({s, "/"}) /\ t \in Seq(T)
        BY <2>1, <3>1
      <4>2. IsPrefix(p, t) <=> Len(p) <= Len(t) /\ \A i \in 1 .. Len(p) : p[i] = t[i]
        BY <4>1, PrefixIs, Zenon
      <4>3. QED
        BY <3>1, <4>2
    <3>3. (\A i \in 1 .. 2 : p[i] = t[i]) <=> p[1] = t[1] /\ p[2] = t[2]
      OBVIOUS
    <3>4. Names(url, p) <=> IsPrefix(p, t)
      BY <2>3
    <3>5. Names(url, p) <=> Len(t) >= 2 /\ t[1] = p[1] /\ t[2] = p[2]
      BY <2>1, <2>2, <3>2, <3>3, <3>4
    <3>6. QED
      BY <3>1, <3>5 DEF p
  <2>5. /\ Names(url, <<s, "/", h>>) <=> Len(t) >= 3 /\ t[1] = s /\ t[2] = "/" /\ t[3] = h
    <3> DEFINE p == <<s, "/", h>>
    <3>1. p \in Seq({s, "/", h}) /\ Len(p) = 3 /\ p[1] = s /\ p[2] = "/" /\ p[3] = h
      OBVIOUS
    <3> HIDE DEF p
    <3>2. IsPrefix(p, t) <=> 3 <= Len(t) /\ \A i \in 1 .. 3 : p[i] = t[i]
      <4>1. p \in Seq({s, "/", h}) /\ t \in Seq(T)
        BY <2>1, <3>1
      <4>2. IsPrefix(p, t) <=> Len(p) <= Len(t) /\ \A i \in 1 .. Len(p) : p[i] = t[i]
        BY <4>1, PrefixIs, Zenon
      <4>3. QED
        BY <3>1, <4>2
    <3>3. (\A i \in 1 .. 3 : p[i] = t[i]) <=> p[1] = t[1] /\ p[2] = t[2] /\ p[3] = t[3]
      OBVIOUS
    <3>4. Names(url, p) <=> IsPrefix(p, t)
      BY <2>3
    <3>5. Names(url, p) <=> Len(t) >= 3 /\ t[1] = p[1] /\ t[2] = p[2] /\ t[3] = p[3]
      BY <2>1, <2>2, <3>2, <3>3, <3>4
    <3>6. QED
      BY <3>1, <3>5 DEF p
  <2>6. QED
    BY <2>1, <2>2, <2>4, <2>5
<1>3. QED
  BY <1>1, <1>2

\* The first two searches and lengths: what is called the service.
LEMMA ServiceCut ==
    ASSUME NEW T, NEW url \in Seq(T), NEW s, s # "/"
    PROVE  /\ Find(url, "/") > 0 /\ SubSeq(url, 2, Find(url, "/") - 1) = <<s>>
                  <=> Names(url, <<s, "/">>)
           /\ Names(url, <<s, "/">>) => Find(url, "/") = 3
<1> DEFINE f == Find(url, "/")  t == SubSeq(url, 2, f - 1)
<1>1. \/ f = 0 /\ \A i \in 2 .. Len(url) : url[i] # "/"
      \/ /\ f \in 2 .. Len(url) /\ url[f] = "/"
         /\ \A i \in 2 .. Len(url) : i < f => url[i] # "/"
  BY FindIs DEF NoText
<1>2. Len(url) \in Nat
  OBVIOUS
<1>3. Names(url, <<s, "/">>) <=> Len(url) >= 3 /\ url[2] = s /\ url[3] = "/"
  BY NamesIs
<1>4. f > 0 => t \in Seq(T) /\ Len(t) = f - 2 /\ \A i \in 1 .. f - 2 : t[i] = url[i + 1]
  <2> HIDE DEF f
  <2>1. QED
    BY <1>1, <1>2
<1> HIDE DEF f, t
<1>5. ASSUME f > 0, t = <<s>>
      PROVE  Len(url) >= 3 /\ url[2] = s /\ url[3] = "/"
  <2>1. Len(t) = 1 /\ t[1] = s
    BY <1>5
  <2>2. f = 3
    BY <1>1, <1>2, <1>4, <1>5, <2>1
  <2>3. QED
    BY <1>1, <1>2, <1>4, <2>1, <2>2
<1>6. ASSUME Len(url) >= 3, url[2] = s, url[3] = "/"
      PROVE  f = 3 /\ t = <<s>>
  <2>1. f = 3
    BY <1>1, <1>2, <1>6
  <2>2. t \in Seq(T) /\ Len(t) = 1 /\ t[1] = s
    BY <1>4, <1>6, <2>1
  <2>3. QED
    BY <2>1, <2>2
<1>7. QED
  BY <1>3, <1>5, <1>6 DEF f, t

\* The last search and length: what is called the handler.
LEMMA HandlerCut ==
    ASSUME NEW T, NEW url \in Seq(T), NEW s, s # "?", NEW h, h # "?", Names(url, <<s, "/">>)
    PROVE  HandlerName(SubSeq(url, 3, Len(url))) = <<h>> <=> Reaches(url, s, h)
<1> DEFINE rest == SubSeq(url, 3, Len(url))  n == Len(url)
<1>1. n \in Nat /\ n >= 3 /\ url[2] = s /\ url[3] = "/"
  <2>1. Names(url, <<s, "/">>) <=> Len(url) >= 3 /\ url[2] = s /\ url[3] = "/"
    BY NamesIs, Zenon
  <2>2. Len(url) \in Nat
    OBVIOUS
  <2>3. QED
    BY <2>1, <2>2
<1>2. rest \in Seq(T) /\ Len(rest) = n - 2 /\ \A i \in 1 .. n - 2 : rest[i] = url[i + 2]
  BY <1>1
<1> HIDE DEF rest
<1> DEFINE q == Find(rest, "?")
<1>3. \/ q = 0 /\ \A i \in 2 .. n - 2 : rest[i] # "?"
      \/ /\ q \in 2 .. n - 2 /\ rest[q] = "?"
         /\ \A i \in 2 .. n - 2 : i < q => rest[i] # "?"
  <2>1. "?" # NoText
    BY Zenon DEF NoText
  <2>2. QED
    BY <1>2, <2>1, FindIs
<1>4. HandlerName(rest) = IF q = 0 THEN Tail(rest) ELSE SubSeq(rest, 2, n - q)
  <2>1. HandlerName(rest) = IF q = 0 THEN Tail(rest) ELSE SubSeq(rest, 2, Len(rest) - q + 2)
    BY DEF HandlerName
  <2> HIDE DEF q
  <2>2. q \in Nat
    BY <1>1, <1>3
  <2>3. Len(rest) - q + 2 = n - q
    BY <1>1, <1>2, <2>2
  <2>4. QED
    BY <2>1, <2>3
<1> HIDE DEF q
<1>5. Reaches(url, s, h) <=> /\ n >= 4 /\ url[4] = h
                             /\ n = 4 \/ \A i \in 2 .. n : url[i] = "?" <=> i = n
  <2>1. Names(url, <<s, "/", h>>) <=> n >= 4 /\ url[2] = s /\ url[3] = "/" /\ url[4] = h
    BY NamesIs
  <2>2. QED
    BY <1>1, <2>1 DEF Reaches
<1>6. CASE q = 0
  <2> DEFINE t == Tail(rest)
  <2>1. t \in Seq(T) /\ Len(t) = n - 3 /\ \A i \in 1 .. n - 3 : t[i] = url[i + 3]
    <3>1. rest # <<>>
      BY <1>1, <1>2
    <3>2. t \in Seq(T) /\ Len(t) = Len(rest) - 1 /\ \A i \in 1 .. Len(t) : t[i] = rest[i + 1]
      BY <1>2, <3>1
    <3> HIDE DEF t
    <3>3. Len(t) = n - 3
      BY <1>1, <1>2, <3>2
    <3>4. ASSUME NEW i \in 1 .. n - 3
          PROVE  t[i] = url[i + 3]
      <4>1. t[i] = rest[i + 1] /\ i + 1 \in 1 .. n - 2
        BY <1>1, <3>2, <3>3
      <4>2. rest[i + 1] = url[(i + 1) + 2]
        BY <1>2, <4>1
      <4>3. QED
        BY <1>1, <4>1, <4>2
    <3>5. QED
      BY <3>2, <3>3, <3>4
  <2> HIDE DEF t
  <2>2. t = <<h>> <=> n = 4 /\ url[4] = h
    <3>1. t = <<h>> <=> Len(t) = 1 /\ t[1] = h
      BY <2>1, SingleIs
    <3>2. QED
      BY <1>1, <2>1, <3>1
  <2>3. n > 4 => url[n] # "?"
    BY <1>1, <1>2, <1>3, <1>6
  <2>4. HandlerName(rest) = t
    BY <1>4, <1>6 DEF t
  <2>5. HandlerName(rest) = <<h>> <=> Reaches(url, s, h)
    BY <1>1, <1>5, <2>2, <2>3, <2>4
  <2>6. QED
    BY <2>5 DEF rest
<1>7. CASE q # 0
  <2> DEFINE t == SubSeq(rest, 2, n - q)
  <2>1. q \in 2 .. n - 2 /\ rest[q] = "?" /\ \A i \in 2 .. n - 2 : i < q => rest[i] # "?"
    BY <1>3, <1>7
  <2>2. t \in Seq(T) /\ Len(t) = n - q - 1 /\ t[1] = rest[2]
    BY <1>1, <1>2, <2>1
  <2> HIDE DEF t
  <2>3. t = <<h>> <=> q = n - 2 /\ url[4] = h
    <3>1. t = <<h>> <=> Len(t) = 1 /\ t[1] = h
      BY <2>2, SingleIs
    <3>2. QED
      BY <1>1, <1>2, <2>1, <2>2, <3>1
  <2>4. url[q + 2] = "?"
    BY <1>1, <1>2, <2>1
  <2>5. ASSUME NEW i \in 2 .. n, i < q + 2
        PROVE  url[i] # "?"
    <3>1. CASE i = 2 \/ i = 3
      BY <1>1, <3>1
    <3>2. CASE i > 3
      <4>1. i - 2 \in 2 .. n - 2 /\ i - 2 < q
        BY <1>1, <2>1, <2>5, <3>2
      <4>2. rest[i - 2] # "?" /\ rest[i - 2] = url[(i - 2) + 2]
        BY <1>1, <1>2, <2>1, <4>1
      <4>3. QED
        BY <1>1, <4>2
    <3>3. QED
      BY <1>1, <3>1, <3>2
  <2>6. (\A i \in 2 .. n : url[i] = "?" <=> i = n) <=> q + 2 = n
    BY <1>1, <2>1, <2>4, <2>5
  <2>7. n >= 4 /\ (url[4] = h => n # 4)
    BY <1>1, <2>1, <2>4, <2>5
  <2>8. HandlerName(rest) = t
    BY <1>4, <1>7 DEF t
  <2>9. HandlerName(rest) = <<h>> <=> Reaches(url, s, h)
    BY <1>1, <1>5, <2>1, <2>3, <2>6, <2>7, <2>8
  <2>10. QED
    BY <2>9 DEF rest
<1>8. QED
  BY <1>6, <1>7

-----------------------------------------------------------------------------
(* What a URL is bound to.                                                 *)

Registrations ==
    /\ registered \subseteq ServiceNames \X Handlers
    /\ coverAll \in BOOLEAN
    /\ coverAll => <<"CoverService", "CoverHandler">> \in registered
    /\ "HttpService" \in Services => <<"HttpService", "HttpHandler">> \in registered
    /\ "CoverService" \in Services => coverAll

NamesNone(url) == \A s \in Services : ~Names(url, <<s, "/">>)
NamesOnly(url, s) == Names(url, <<s, "/">>) /\ \A t \in Services : Names(url, <<t, "/">>) => t = s

LEMMA BindNone ==
    ASSUME Registrations, NEW T, NEW url \in Seq(T), NamesNone(url)
    PROVE  Bind(url) = IF "HttpService" \in Services \/ coverAll THEN <<"HttpService", "HttpHandler">>
                       ELSE <<>>
<1> DEFINE slash == Find(url, "/")
<1>1. \A s \in Services : s # "/"
  BY DEF Registrations, Services, ServiceNames
<1>2. ~(slash > 0 /\ \E s \in Services : SubSeq(url, 2, slash - 1) = <<s>>)
  BY <1>1, ServiceCut DEF NamesNone
<1> HIDE DEF slash
<1>3. QED
  BY <1>2 DEF Bind, slash

LEMMA BindNamed ==
    ASSUME Registrations, NEW T, NEW url \in Seq(T), NEW s \in Services, Names(url, <<s, "/">>)
    PROVE  /\ NamesOnly(url, s)
           /\ \/ \E h : <<s, h>> \in registered /\ Reaches(url, s, h) /\ Bind(url) = <<s, h>>
              \/ /\ \A h : <<s, h>> \in registered => ~Reaches(url, s, h)
                 /\ Bind(url) = IF coverAll THEN <<s, "CoverHandler">> ELSE <<>>
<1> DEFINE slash == Find(url, "/")  service == SubSeq(url, 2, slash - 1)
<1>1. \A t \in Services : t # "/" /\ t # "?"
  BY DEF Registrations, Services, ServiceNames
<1>2. slash = 3 /\ service = <<s>>
  BY <1>1, ServiceCut
<1>3. NamesOnly(url, s)
  <2>1. url[2] = s /\ \A t \in Services : Names(url, <<t, "/">>) => url[2] = t
    BY NamesIs
  <2>2. QED
    BY <2>1 DEF NamesOnly
<1> DEFINE hs == {r[2] : r \in {r \in registered : r[1] = s}}
<1>4. \A h : h \in hs <=> <<s, h>> \in registered
  BY DEF Registrations
<1>5. \A h : <<s, h>> \in registered => h # "?"
  BY DEF Registrations, Handlers, Callbacks
<1> DEFINE handler == HandlerName(SubSeq(url, 3, Len(url)))
<1>6. \A h : <<s, h>> \in registered => (handler = <<h>> <=> Reaches(url, s, h))
  BY <1>1, <1>5, HandlerCut
<1> HIDE DEF handler, slash, service, hs
<1>7. Bind(url) = IF \E h \in hs : handler = <<h>> THEN <<s, handler[1]>>
                  ELSE IF coverAll THEN <<s, "CoverHandler">> ELSE <<>>
  <2>1. \E t \in Services : <<s>> = <<t>>
    OBVIOUS
  <2>2. slash > 0 /\ service[1] = s
    BY <1>2
  <2>3. QED
    BY <1>2, <2>1, <2>2 DEF Bind, handler, slash, service, hs
<1>8. CASE \E h \in hs : handler = <<h>>
  <2>1. PICK h \in hs : handler = <<h>>
    BY <1>8
  <2>2. <<s, h>> \in registered /\ handler[1] = h
    BY <1>4, <2>1
  <2>3. Bind(url) = <<s, h>>
    BY <1>7, <1>8, <2>2
  <2>4. QED
    BY <1>3, <1>6, <2>1, <2>2, <2>3
<1>9. CASE ~\E h \in hs : handler = <<h>>
  BY <1>3, <1>4, <1>6, <1>7, <1>9
<1>10. QED
  BY <1>8, <1>9

-----------------------------------------------------------------------------
(* What is wanted, and what the services answer.                           *)

\* The request that was asked, with the first Connection header.
Asked(m, first) == [method |-> m.method, url |-> m.url, version |-> m.version,
                    connection |-> first, body |-> m.body]

\* What an answer is made of.
Alike(c, d) == /\ c.method = d.method /\ c.url = d.url /\ c.version = d.version
               /\ c.connection = d.connection /\ c.body = d.body

LEMMA AnswersAlike ==
    ASSUME NEW c, NEW d, Alike(c, d)
    PROVE  /\ HttpProcess(c) = HttpProcess(d) /\ GetImageResource(c) = GetImageResource(d)
           /\ \A what : HttpError(what, c) = HttpError(what, d) /\ Page(what, c) = Page(what, d)
<1>1. \A what : HttpError(what, c) = HttpError(what, d) /\ Page(what, c) = Page(what, d)
  BY DEF HttpError, Page, Alike
<1>2. HttpProcess(c) = HttpProcess(d)
  BY <1>1 DEF HttpProcess, SendFile, Alike
<1>3. GetImageResource(c) = GetImageResource(d)
  BY <1>1 DEF GetImageResource, SendImage, Alike
<1>4. QED
  BY <1>1, <1>2, <1>3

LEMMA WantedNone ==
    ASSUME NEW m, NEW first, NamesNone(m.url)
    PROVE  Due(m, first) = IF coverAll
                       THEN Page(<<"HttpService", m.method, m.url>>, Asked(m, first))
                       ELSE IF "HttpService" \in Services THEN HttpProcess(Asked(m, first))
                       ELSE HttpError("400", Asked(m, first))
<1> DEFINE named == {t \in Services : Names(m.url, <<t, "/">>)}
<1>1. named = {}
  BY DEF NamesNone
<1>2. QED
  BY <1>1 DEF Due, Asked

LEMMA WantedNamed ==
    ASSUME NEW m, NEW first, NEW s \in Services, NamesOnly(m.url, s)
    PROVE  Due(m, first) = IF coverAll THEN Page(<<s, m.method, m.url>>, Asked(m, first))
                       ELSE IF \A r \in registered : r[1] = s => ~Reaches(m.url, s, r[2])
                       THEN HttpError("400", Asked(m, first))
                       ELSE IF s = "HttpService" THEN HttpProcess(Asked(m, first))
                       ELSE GetImageResource(Asked(m, first))
<1> DEFINE named == {t \in Services : Names(m.url, <<t, "/">>)}
<1>1. named = {s}
  BY DEF NamesOnly
<1>2. named # {} /\ (CHOOSE t \in named : TRUE) = s
  BY <1>1
<1> HIDE DEF named
<1>3. QED
  BY <1>2 DEF Due, Asked, named

LEMMA ReachedIsThere ==
    ASSUME NEW T, NEW url \in Seq(T), NEW s, NEW h, Reaches(url, s, h)
    PROVE  Contains(url, h)
<1>1. Names(url, <<s, "/", h>>)
  BY DEF Reaches
<1>2. Names(url, <<s, "/", h>>) <=> Len(url) >= 4 /\ url[2] = s /\ url[3] = "/" /\ url[4] = h
  BY NamesIs, Zenon
<1>3. Len(url) \in Nat
  OBVIOUS
<1>4. 4 \in 1 .. Len(url) /\ url[4] = h
  BY <1>1, <1>2, <1>3
<1>5. QED
  BY <1>4 DEF Contains

\* A request that is bound.
LEMMA BoundAnswers ==
    ASSUME Registrations, NEW m, NEW first, NEW T, m.url \in Seq(T), Bind(m.url) # <<>>,
           NEW c, Alike(c, Asked(m, first)), c.service = Bind(m.url)[1],
           \A w \in Callbacks : ~Contains(m.url, w)
    PROVE  /\ Bound(Bind(m.url))[2] \notin Callbacks
           /\ Response(Bound(Bind(m.url))[1], c) = Due(m, first)
<1> DEFINE u == m.url  b == Bind(u)
<1>1. /\ HttpProcess(c) = HttpProcess(Asked(m, first)) /\ GetImageResource(c) = GetImageResource(Asked(m, first))
      /\ \A what : Page(what, c) = Page(what, Asked(m, first))
  BY AnswersAlike
<1>2. c.method = m.method /\ c.url = u
  BY DEF Alike, Asked
<1>3. CASE coverAll
  <2>1. Bound(b)[2] \notin Callbacks
    BY <1>3 DEF Bound, Callbacks
  <2>2. Response(Bound(b)[1], c) = Page(<<b[1], m.method, u>>, Asked(m, first))
    BY <1>1, <1>2, <1>3 DEF Bound, Response, Forwarded
  <2>3. Due(m, first) = Page(<<b[1], m.method, u>>, Asked(m, first))
    <3>1. CASE NamesNone(u)
      <4>1. b = <<"HttpService", "HttpHandler">>
        BY <1>3, <3>1, BindNone
      <4>2. QED
        BY <1>3, <3>1, <4>1, WantedNone
    <3>2. CASE ~NamesNone(u)
      <4>1. PICK s \in Services : Names(u, <<s, "/">>)
        BY <3>2 DEF NamesNone
      <4>2. /\ NamesOnly(u, s)
            /\ \/ \E h : <<s, h>> \in registered /\ Reaches(u, s, h) /\ Bind(u) = <<s, h>>
               \/ /\ \A h : <<s, h>> \in registered => ~Reaches(u, s, h)
                  /\ Bind(u) = IF coverAll THEN <<s, "CoverHandler">> ELSE <<>>
        BY <4>1, BindNamed, Zenon
      <4>3. \E h : b = <<s, h>>
        BY <1>3, <4>2
      <4>4. b[1] = s
        BY <4>3
      <4>5. QED
        BY <1>3, <4>2, <4>4, WantedNamed
    <3>3. QED
      BY <3>1, <3>2
  <2>4. QED
    BY <2>1, <2>2, <2>3
<1>4. CASE ~coverAll
  <2>1. CASE NamesNone(u)
    <3>1. b = <<"HttpService", "HttpHandler">> /\ "HttpService" \in Services
      BY <1>4, <2>1, BindNone
    <3>2. Due(m, first) = HttpProcess(Asked(m, first))
      BY <1>4, <2>1, <3>1, WantedNone
    <3>3. QED
      BY <1>1, <1>4, <3>1, <3>2 DEF Bound, Response, Callbacks
  <2>2. CASE ~NamesNone(u)
    <3>1. PICK s \in Services : Names(u, <<s, "/">>)
      BY <2>2 DEF NamesNone
    <3>2. PICK h : <<s, h>> \in registered /\ Reaches(u, s, h) /\ b = <<s, h>>
      BY <1>4, <3>1, BindNamed
    <3>3. NamesOnly(u, s)
      BY <3>1, BindNamed
    <3>4. Due(m, first) = IF s = "HttpService" THEN HttpProcess(Asked(m, first)) ELSE GetImageResource(Asked(m, first))
      BY <1>4, <3>2, <3>3, WantedNamed
    <3>5. s \in {"HttpService", "ResourceService"}
      BY <1>4 DEF Registrations, Services, ServiceNames
    <3>6. Response(s, c) = Due(m, first)
      BY <1>1, <3>4, <3>5 DEF Response
    <3>7. h \notin Callbacks
      <4>1. Contains(u, h)
        BY <3>2, ReachedIsThere, Zenon
      <4>2. QED
        BY <4>1
    <3>8. QED
      BY <1>4, <3>2, <3>6, <3>7 DEF Bound
  <2>3. QED
    BY <2>1, <2>2
<1>5. QED
  BY <1>3, <1>4 DEF Registrations

\* A request that is not.
LEMMA UnboundAnswers ==
    ASSUME Registrations, NEW m, NEW first, NEW T, m.url \in Seq(T), Bind(m.url) = <<>>,
           NEW c, Alike(c, Asked(m, first))
    PROVE  HttpError("400", c) = Due(m, first)
<1> DEFINE u == m.url
<1>1. HttpError("400", c) = HttpError("400", Asked(m, first))
  BY AnswersAlike
<1>2. CASE NamesNone(u)
  <2>1. "HttpService" \notin Services /\ ~coverAll
    <3>1. Bind(u) = IF "HttpService" \in Services \/ coverAll THEN <<"HttpService", "HttpHandler">>
                    ELSE <<>>
      BY <1>2, BindNone, Zenon
    <3>2. <<"HttpService", "HttpHandler">> # <<>>
      OBVIOUS
    <3>3. QED
      BY <3>1, <3>2
  <2>2. QED
    BY <1>1, <1>2, <2>1, WantedNone
<1>3. CASE ~NamesNone(u)
  <2>1. PICK s \in Services : Names(u, <<s, "/">>)
    BY <1>3 DEF NamesNone
  <2>2. /\ NamesOnly(u, s) /\ ~coverAll
        /\ \A h : <<s, h>> \in registered => ~Reaches(u, s, h)
    <3>1. /\ NamesOnly(u, s)
          /\ \/ \E h : <<s, h>> \in registered /\ Reaches(u, s, h) /\ Bind(u) = <<s, h>>
             \/ /\ \A h : <<s, h>> \in registered => ~Reaches(u, s, h)
                /\ Bind(u) = IF coverAll THEN <<s, "CoverHandler">> ELSE <<>>
      BY <2>1, BindNamed, Zenon
    <3>2. \A h : <<s, h>> # <<>>
      OBVIOUS
    <3>3. QED
      BY <3>1, <3>2
  <2>3. \A r \in registered : r[1] = s => ~Reaches(u, s, r[2])
    BY <2>2 DEF Registrations
  <2>4. QED
    BY <1>1, <2>2, <2>3, WantedNamed
<1>4. QED
  BY <1>2, <1>3

-----------------------------------------------------------------------------
(* The first header stays.                                                 *)

LEMMA FirstIs ==
    ASSUME NEW ms, NEW n \in Nat
    PROVE  \/ FirstConnection(ms, n) = NoText /\ \A i \in 1 .. n : ms[i].connection = NoText
           \/ \E k \in 1 .. n : /\ FirstConnection(ms, n) = ms[k].connection
                                /\ ms[k].connection # NoText
                                /\ \A i \in 1 .. n : i < k => ms[i].connection = NoText
<1> DEFINE given == {i \in 1 .. n : ms[i].connection # NoText}
<1>1. FirstConnection(ms, n) = IF given = {} THEN NoText ELSE ms[Min(given)].connection
  BY DEF FirstConnection
<1>2. CASE given = {}
  BY <1>1, <1>2
<1>3. CASE given # {}
  <2>1. given \subseteq Nat
    OBVIOUS
  <2>2. Min(given) \in given /\ \A i \in given : Min(given) <= i
    BY <1>3, <2>1, MinIs
  <2> DEFINE k == Min(given)
  <2>3. k \in 1 .. n /\ ms[k].connection # NoText /\ FirstConnection(ms, n) = ms[k].connection
    BY <1>1, <1>3, <2>2
  <2>4. \A i \in given : k <= i
    BY <2>2
  <2> HIDE DEF k
  <2>5. \A i \in 1 .. n : i < k => ms[i].connection = NoText
    BY <2>3, <2>4
  <2>6. QED
    BY <2>3, <2>5
<1>4. QED
  BY <1>2, <1>3

LEMMA FirstStays ==
    ASSUME NEW ms, NEW ns, NEW n \in Nat, \A i \in 1 .. n : ns[i] = ms[i]
    PROVE  FirstConnection(ns, n) = FirstConnection(ms, n)
<1> DEFINE given == {i \in 1 .. n : ms[i].connection # NoText}
<1>1. given = {i \in 1 .. n : ns[i].connection # NoText}
  OBVIOUS
<1>2. given # {} => Min(given) \in 1 .. n
  <2>1. given \subseteq Nat
    OBVIOUS
  <2>2. QED
    BY <2>1, MinIs
<1>3. FirstConnection(ms, n) = IF given = {} THEN NoText ELSE ms[Min(given)].connection
  BY DEF FirstConnection
<1>4. FirstConnection(ns, n) = IF given = {} THEN NoText ELSE ns[Min(given)].connection
  BY <1>1 DEF FirstConnection
<1> HIDE DEF given
<1>5. QED
  BY <1>2, <1>3, <1>4

LEMMA FirstGrows ==
    ASSUME NEW ms, NEW ns, NEW n \in Nat, \A i \in 1 .. n : ns[i] = ms[i]
    PROVE  FirstConnection(ns, n + 1) = IF FirstConnection(ms, n) = NoText THEN ns[n + 1].connection
                                        ELSE FirstConnection(ms, n)
<1> DEFINE F == FirstConnection(ns, n)  G == FirstConnection(ns, n + 1)
<1>1. F = FirstConnection(ms, n)
  BY FirstStays
<1>2. \/ F = NoText /\ \A i \in 1 .. n : ns[i].connection = NoText
      \/ \E k \in 1 .. n : /\ F = ns[k].connection /\ ns[k].connection # NoText
                           /\ \A i \in 1 .. n : i < k => ns[i].connection = NoText
  BY FirstIs
<1>3. \/ G = NoText /\ \A i \in 1 .. n + 1 : ns[i].connection = NoText
      \/ \E k \in 1 .. n + 1 : /\ G = ns[k].connection /\ ns[k].connection # NoText
                               /\ \A i \in 1 .. n + 1 : i < k => ns[i].connection = NoText
  <2>1. n + 1 \in Nat
    OBVIOUS
  <2>2. QED
    BY <2>1, FirstIs
<1> HIDE DEF F, G
<1>4. CASE \A i \in 1 .. n : ns[i].connection = NoText
  <2>1. F = NoText
    BY <1>2, <1>4
  <2>2. G = ns[n + 1].connection
    BY <1>3, <1>4
  <2>3. QED
    BY <1>1, <2>1, <2>2 DEF G
<1>5. CASE ~\A i \in 1 .. n : ns[i].connection = NoText
  <2>1. PICK k \in 1 .. n : /\ F = ns[k].connection /\ ns[k].connection # NoText
                            /\ \A i \in 1 .. n : i < k => ns[i].connection = NoText
    BY <1>2, <1>5
  <2>2. k \in 1 .. n + 1
    OBVIOUS
  <2>3. PICK j \in 1 .. n + 1 : /\ G = ns[j].connection /\ ns[j].connection # NoText
                                /\ \A i \in 1 .. n + 1 : i < j => ns[i].connection = NoText
    BY <1>3, <2>1, <2>2
  <2>4. ~(k < j)
    BY <2>1, <2>2, <2>3
  <2>5. ~(j < k)
    BY <2>1, <2>3
  <2>6. j = k
    BY <2>4, <2>5
  <2>7. QED
    BY <1>1, <2>1, <2>3, <2>6 DEF G
<1>6. QED
  BY <1>4, <1>5

-----------------------------------------------------------------------------
(* Types.                                                                  *)

\* What every step keeps: reqHandler_ is a registered pair or empty, no more is
\* answered than asked.
HttpTypes ==
    /\ Registrations
    /\ {bindedHandler, connected, reqHealthy, terminated, overlapped} \subseteq BOOLEAN
    /\ reqHandler \in registered \cup {<<>>}
    /\ asked \in Seq(HttpMessages) /\ Len(asked) <= MaxReads /\ context.url \in Seq(STRING)
    /\ httpTasks \in Nat
    /\ answers \in Seq(Range(answers))
    /\ Len(answers) + httpTasks <= Len(asked)

LEMMA Appended ==
    ASSUME NEW q, q \in Seq(Range(q)), NEW x, NEW r, r = Append(q, x)
    PROVE  /\ r \in Seq(Range(r)) /\ Len(r) = Len(q) + 1 /\ Len(q) \in Nat
           /\ r[Len(q) + 1] = x /\ \A i \in 1 .. Len(q) : r[i] = q[i]
<1>1. r \in Seq(Range(q) \cup {x}) /\ Len(r) = Len(q) + 1 /\ Len(q) \in Nat
      /\ r[Len(q) + 1] = x /\ \A i \in 1 .. Len(q) : r[i] = q[i]
  OBVIOUS
<1>2. DOMAIN r = 1 .. Len(r) /\ Len(r) \in Nat /\ r \in [1 .. Len(r) -> Range(q) \cup {x}]
  BY <1>1, LenProperties
<1>3. r \in [1 .. Len(r) -> Range(r)]
  BY <1>2 DEF Range
<1>4. r \in Seq(Range(r))
  <2> DEFINE R == Range(r)  n == Len(r)
  <2>1. r \in [1 .. n -> R] /\ n \in Nat
    BY <1>2, <1>3
  <2> HIDE DEF R, n
  <2>2. Seq(R) = UNION {[1 .. k -> R] : k \in Nat}
    BY SeqDef, Zenon
  <2>3. r \in Seq(R)
    BY <2>1, <2>2, Zenon
  <2>4. QED
    BY <2>3 DEF R
<1>5. QED
  BY <1>1, <1>4

LEMMA MessageIs ==
    ASSUME NEW m \in HttpMessages
    PROVE  m \in HttpMessage /\ m.url \in Seq(STRING)
BY HttpMessagesAssumption DEF HttpMessage

\* What BindDynamicHandler leaves in reqHandler_ is registered.
LEMMA BoundIsRegistered ==
    ASSUME Registrations, NEW T, NEW url \in Seq(T), Bind(url) # <<>>
    PROVE  Bound(Bind(url)) \in registered
<1>1. CASE coverAll
  BY <1>1 DEF Bound, Registrations
<1>2. CASE ~coverAll
  <2>1. CASE NamesNone(url)
    <3>1. Bind(url) = IF "HttpService" \in Services \/ coverAll THEN <<"HttpService", "HttpHandler">>
                      ELSE <<>>
      BY <2>1, BindNone, Zenon
    <3>2. Bind(url) = <<"HttpService", "HttpHandler">> /\ "HttpService" \in Services
      BY <1>2, <3>1
    <3>3. QED
      BY <1>2, <3>2 DEF Bound, Registrations
  <2>2. CASE ~NamesNone(url)
    <3>1. PICK s \in Services : Names(url, <<s, "/">>)
      BY <2>2 DEF NamesNone
    <3>2. \/ \E h : <<s, h>> \in registered /\ Reaches(url, s, h) /\ Bind(url) = <<s, h>>
          \/ Bind(url) = IF coverAll THEN <<s, "CoverHandler">> ELSE <<>>
      BY <3>1, BindNamed, Zenon
    <3>3. QED
      BY <1>2, <3>2 DEF Bound
  <2>3. QED
    BY <2>1, <2>2
<1>3. QED
  BY <1>1, <1>2 DEF Registrations

\* The three registrations: of whom, what, and whether all is covered.
LEMMA RegisterIs ==
    ASSUME RegisterHttp \/ RegisterResource \/ RegisterProxy
    PROVE  \E s \in ServiceNames, hs \in SUBSET Handlers, cover \in BOOLEAN :
             /\ cover => registered = {} /\ s = "CoverService" /\ "CoverHandler" \in hs
             /\ ~cover => s # "CoverService"
             /\ s = "HttpService" => "HttpHandler" \in hs
             /\ RegisterHandler(s, hs, cover)
<1>1. CASE RegisterHttp
  <2>1. Callbacks \cup {"HttpHandler"} \in SUBSET Handlers
    BY DEF Handlers
  <2>2. "HttpService" \in ServiceNames /\ FALSE \in BOOLEAN
    BY DEF ServiceNames
  <2>3. RegisterHandler("HttpService", Callbacks \cup {"HttpHandler"}, FALSE)
    BY <1>1 DEF RegisterHttp
  <2>4. "HttpHandler" \in Callbacks \cup {"HttpHandler"}
    OBVIOUS
  <2> HIDE DEF ServiceNames
  <2>5. QED
    BY <2>1, <2>2, <2>3, <2>4
<1>2. CASE RegisterResource
  <2>1. Callbacks \cup {"GetImageResource"} \in SUBSET Handlers
    BY DEF Handlers
  <2>2. "ResourceService" \in ServiceNames /\ FALSE \in BOOLEAN
    BY DEF ServiceNames
  <2>3. RegisterHandler("ResourceService", Callbacks \cup {"GetImageResource"}, FALSE)
    BY <1>2 DEF RegisterResource
  <2>4. QED
    BY <2>1, <2>2, <2>3
<1>3. CASE RegisterProxy
  <2>1. Callbacks \cup {"CoverHandler"} \in SUBSET Handlers
    BY DEF Handlers
  <2>2. "CoverService" \in ServiceNames /\ TRUE \in BOOLEAN
    BY DEF ServiceNames
  <2>3. RegisterHandler("CoverService", Callbacks \cup {"CoverHandler"}, TRUE) /\ registered = {}
    BY <1>3 DEF RegisterProxy
  <2>4. "CoverHandler" \in Callbacks \cup {"CoverHandler"}
    OBVIOUS
  <2>5. QED
    BY <2>1, <2>2, <2>3, <2>4
<1>4. QED
  BY <1>1, <1>2, <1>3

LEMMA RegistrationsKept ==
    ASSUME Registrations, NEW s \in ServiceNames, NEW hs \in SUBSET Handlers, NEW cover \in BOOLEAN,
           cover => registered = {} /\ s = "CoverService" /\ "CoverHandler" \in hs,
           ~cover => s # "CoverService", s = "HttpService" => "HttpHandler" \in hs,
           RegisterHandler(s, hs, cover)
    PROVE  Registrations' /\ registered \subseteq registered'
<1>1. CASE cover
  <2>1. registered' = {"CoverService"} \X hs /\ coverAll' = TRUE
    BY <1>1 DEF RegisterHandler, Registrations
  <2>2. Services' \subseteq {"CoverService"}
    BY <2>1 DEF Services
  <2>3. <<"CoverService", "CoverHandler">> \in registered'
    BY <1>1, <2>1
  <2>4. QED
    BY <1>1, <2>1, <2>2, <2>3 DEF Registrations, ServiceNames
<1>2. CASE ~cover
  <2>1. registered' = registered \cup ({s} \X hs) /\ coverAll' = coverAll /\ ~coverAll
    BY <1>2 DEF RegisterHandler, Registrations
  <2>2. Services' \subseteq Services \cup {s}
    BY <2>1 DEF Services
  <2>3. registered' \subseteq ServiceNames \X Handlers
    BY <2>1 DEF Registrations
  <2>4. "HttpService" \in Services' => <<"HttpService", "HttpHandler">> \in registered'
    BY <2>1, <2>2 DEF Registrations
  <2>5. QED
    BY <1>2, <2>1, <2>2, <2>3, <2>4 DEF Registrations
<1>3. QED
  BY <1>1, <1>2

LEMMA RegistersKeepTypes ==
    ASSUME HttpTypes, RegisterHttp \/ RegisterResource \/ RegisterProxy
    PROVE  HttpTypes'
<1>1. PICK s \in ServiceNames, hs \in SUBSET Handlers, cover \in BOOLEAN :
             /\ cover => registered = {} /\ s = "CoverService" /\ "CoverHandler" \in hs
             /\ ~cover => s # "CoverService"
             /\ s = "HttpService" => "HttpHandler" \in hs
             /\ RegisterHandler(s, hs, cover)
  BY RegisterIs
<1>2. Registrations' /\ registered \subseteq registered'
  BY <1>1, RegistrationsKept DEF HttpTypes
<1>3. UNCHANGED <<context, bindedHandler, reqHandler, httpTasks, connected, asked, answers,
                  reqHealthy, terminated, overlapped>>
  BY <1>1 DEF RegisterHandler
<1>4. QED
  BY <1>2, <1>3 DEF HttpTypes

LEMMA ReadsKeepTypes ==
    ASSUME HttpTypes, NEW m \in HttpMessages, Read(m)
    PROVE  HttpTypes'
<1>1. asked' \in Seq(HttpMessages) /\ Len(asked') = Len(asked) + 1 /\ Len(asked') <= MaxReads
      /\ Len(asked) \in Nat
  BY MaxReadsAssumption DEF HttpTypes, Read
<1>2. Registrations' /\ registered' = registered
  BY DEF HttpTypes, Read, Registrations, Services
<1>3. terminated' = terminated /\ {reqHealthy', overlapped', terminated'} \subseteq BOOLEAN
  BY DEF HttpTypes, Read
<1>4. Parse(m).url \in Seq(STRING)
  BY MessageIs DEF Parse, HttpTypes
<1>5. CASE ReadMalformed(m)
  <2>1. /\ reqHandler' = reqHandler /\ httpTasks' = httpTasks /\ bindedHandler' = bindedHandler
        /\ connected' \in BOOLEAN
        /\ answers' = answers \/ \E x : answers' = Append(answers, x)
    BY <1>5 DEF ReadMalformed, HttpTypes
  <2>2. answers' \in Seq(Range(answers')) /\ Len(answers') <= Len(answers) + 1 /\ Len(answers') \in Nat
        /\ Len(answers) \in Nat
    BY <2>1, Appended DEF HttpTypes
  <2>3. Len(answers') + httpTasks' <= Len(asked')
    BY <1>1, <2>1, <2>2 DEF HttpTypes
  <2>4. context'.url \in Seq(STRING)
    BY <1>5, <1>4 DEF ReadMalformed
  <2>5. QED
    BY <1>1, <1>2, <1>3, <2>1, <2>2, <2>3, <2>4 DEF HttpTypes
<1>6. CASE ReadRequest(m)
  <2> DEFINE c == Parse(m)  b == Bind(c.url)
  <2>1. connected' = connected /\ bindedHandler' \in BOOLEAN
    BY <1>6 DEF ReadRequest
  <2>2. context'.url \in Seq(STRING)
    <3>1. context'.url = c.url
      BY <1>6 DEF ReadRequest, Parse
    <3>2. QED
      BY <1>4, <3>1
  <2>3. CASE b = <<>>
    <3>1. /\ \E x : answers' = Append(answers, x)
          /\ reqHandler' = reqHandler /\ httpTasks' = httpTasks
      BY <1>6, <2>3 DEF ReadRequest
    <3>2. answers' \in Seq(Range(answers')) /\ Len(answers') <= Len(answers) + 1
          /\ Len(answers') \in Nat /\ Len(answers) \in Nat
      <4>1. answers \in Seq(Range(answers))
        BY DEF HttpTypes
      <4>2. PICK x : answers' = Append(answers, x)
        BY <3>1
      <4>3. answers' \in Seq(Range(answers')) /\ Len(answers') = Len(answers) + 1 /\ Len(answers) \in Nat
        BY <4>1, <4>2, Appended
      <4>4. QED
        BY <4>3
    <3>3. Len(answers') + httpTasks' <= Len(asked')
      BY <1>1, <3>1, <3>2 DEF HttpTypes
    <3>4. QED
      BY <1>1, <1>2, <1>3, <2>1, <2>2, <3>1, <3>2, <3>3 DEF HttpTypes
  <2>4. CASE b # <<>>
    <3>1. /\ reqHandler' = Bound(b) /\ httpTasks' = httpTasks + 1 /\ answers' = answers
      BY <1>6, <2>4 DEF ReadRequest
    <3>2. Bound(b) \in registered
      BY <1>4, <2>4, BoundIsRegistered DEF HttpTypes
    <3>3. httpTasks' \in Nat /\ Len(answers') + httpTasks' <= Len(asked')
      BY <1>1, <3>1 DEF HttpTypes
    <3>4. QED
      BY <1>1, <1>2, <1>3, <2>1, <2>2, <3>1, <3>2, <3>3 DEF HttpTypes
  <2>5. QED
    BY <2>3, <2>4
<1>7. QED
  BY <1>5, <1>6 DEF Read

LEMMA ServesKeepTypes ==
    ASSUME HttpTypes, ServeNothing \/ ServeMessage \/ ServeRequest
    PROVE  HttpTypes'
<1>1. /\ UNCHANGED <<registered, coverAll, context, bindedHandler, reqHandler, connected, asked,
                     reqHealthy, overlapped>>
      /\ httpTasks \in Nat /\ httpTasks > 0
  BY DEF ServeNothing, ServeMessage, ServeRequest, EndTask, HttpTypes
<1>2. Registrations'
  BY <1>1 DEF HttpTypes, Registrations, Services
<1>3. terminated' \in BOOLEAN
  BY DEF ServeNothing, ServeMessage, ServeRequest, HttpTypes
<1>4. \/ httpTasks' = httpTasks /\ answers' = answers
      \/ httpTasks' = httpTasks - 1 /\ answers' = answers
      \/ httpTasks' = httpTasks - 1 /\ \E x : answers' = Append(answers, x)
  BY DEF ServeNothing, ServeMessage, ServeRequest
<1>5. /\ answers' \in Seq(Range(answers')) /\ Len(answers') \in Nat /\ httpTasks' \in Nat
      /\ Len(answers') + httpTasks' <= Len(answers) + httpTasks
  <2>1. answers \in Seq(Range(answers))
    BY DEF HttpTypes
  <2>2. CASE answers' = answers
    BY <1>1, <1>4, <2>1, <2>2
  <2>3. ASSUME NEW x, answers' = Append(answers, x), httpTasks' = httpTasks - 1
        PROVE  <1>5!:
    <3>1. answers' \in Seq(Range(answers')) /\ Len(answers') = Len(answers) + 1 /\ Len(answers) \in Nat
      BY <2>1, <2>3, Appended
    <3>2. QED
      BY <1>1, <2>3, <3>1
  <2>4. QED
    BY <1>4, <2>2, <2>3
<1>6. Len(asked) \in Nat /\ Len(answers) \in Nat /\ Len(answers') + httpTasks' <= Len(asked')
  BY <1>1, <1>5 DEF HttpTypes
<1>7. QED
  BY <1>1, <1>2, <1>3, <1>5, <1>6 DEF HttpTypes

LEMMA HttpTypesHold == HttpSpec => []HttpTypes
<1>1. HttpInit => HttpTypes
  <2> SUFFICES ASSUME HttpInit PROVE HttpTypes
    OBVIOUS
  <2>1. Registrations
    BY DEF HttpInit, Registrations, Services
  <2>2. Range(answers) = {} /\ answers = <<>>
    BY DEF HttpInit, Range
  <2>3. asked = <<>> /\ context.url = <<>> /\ reqHandler = <<>> /\ httpTasks = 0
    BY DEF HttpInit
  <2>4. answers \in Seq(Range(answers)) /\ Len(answers) = 0 /\ Len(asked) = 0 /\ asked \in Seq(HttpMessages)
    BY <2>2, <2>3
  <2>5. context.url \in Seq(STRING)
    BY <2>3
  <2>6. Len(asked) <= MaxReads /\ Len(answers) + httpTasks <= Len(asked) /\ httpTasks \in Nat
    BY <2>3, <2>4, MaxReadsAssumption
  <2>7. {bindedHandler, connected, reqHealthy, terminated, overlapped} \subseteq BOOLEAN
    BY DEF HttpInit
  <2>8. QED
    BY <2>1, <2>3, <2>4, <2>5, <2>6, <2>7 DEF HttpTypes
<1>2. HttpTypes /\ [HttpNext]_httpVars => HttpTypes'
  <2> SUFFICES ASSUME HttpTypes, [HttpNext]_httpVars PROVE HttpTypes'
    OBVIOUS
  <2>1. CASE UNCHANGED httpVars
    BY <2>1 DEF HttpTypes, httpVars, Registrations, Services
  <2>2. CASE HttpNext
    BY <2>2, RegistersKeepTypes, ServesKeepTypes, ReadsKeepTypes DEF HttpNext
  <2>3. QED
    BY <2>1, <2>2
<1>3. QED
  BY <1>1, <1>2, PTL DEF HttpSpec

\* HttpRequest.HttpTypeOK: the pairs of serviceHandlers_ and reqHandler_, and never
\* more answers and tasks than requests.
THEOREM HttpTypeCorrect == HttpSpec => []HttpTypeOK
<1>1. HttpTypes => HttpTypeOK
  <2> SUFFICES ASSUME HttpTypes PROVE HttpTypeOK
    OBVIOUS
  <2>1. Len(answers) \in Nat /\ Len(asked) \in Nat
    BY DEF HttpTypes
  <2>2. httpTasks \in 0 .. MaxReads
    BY <2>1, MaxReadsAssumption DEF HttpTypes
  <2>3. QED
    BY <2>2 DEF HttpTypes, HttpTypeOK, Registrations, ServiceNames, Handlers
<1>2. QED
  BY <1>1, HttpTypesHold, PTL

-----------------------------------------------------------------------------
(* Answers in order.                                                       *)

\* While requests come one after the other: the context is that of the last
\* request, the task is bound as its URL says, and what was answered was wanted.
OneAfterTheOther ==
    LET n == Len(asked)
    IN  /\ connected /\ httpTasks <= 1 /\ Len(answers) + httpTasks = n
        /\ context.connection = FirstConnection(asked, n)
        /\ n > 0 => reqHealthy /\ Alike(context, Asked(asked[n], FirstConnection(asked, n)))
        /\ httpTasks = 1 => /\ Bind(asked[n].url) # <<>>
                            /\ reqHandler = Bound(Bind(asked[n].url))
                            /\ context.service = Bind(asked[n].url)[1]
        /\ \A i \in 1 .. Len(answers) : answers[i] = Wanted(i)
        /\ terminated => httpTasks = 1 /\ Wanted(n) = Terminates

OrderInv == InOrder => OneAfterTheOther

LEMMA ServesInOrder ==
    ASSUME HttpTypes, OrderInv, ServeNothing \/ ServeMessage \/ ServeRequest
    PROVE  OrderInv'
<1> SUFFICES ASSUME InOrder'
             PROVE  OneAfterTheOther'
  BY DEF OrderInv
<1>1. UNCHANGED <<registered, coverAll, context, bindedHandler, reqHandler, connected, asked,
                  reqHealthy, overlapped>>
  BY DEF ServeNothing, ServeMessage, ServeRequest, EndTask
<1>2. InOrder /\ OneAfterTheOther
  BY <1>1 DEF InOrder, OrderInv
<1> DEFINE n == Len(asked)
<1>3. n \in Nat /\ Len(answers) \in Nat /\ httpTasks \in Nat /\ answers \in Seq(Range(answers))
  BY DEF HttpTypes
<1>4. httpTasks > 0 /\ ~terminated
  BY DEF ServeNothing, ServeMessage, ServeRequest, EndTask
<1>5. httpTasks = 1 /\ n > 0 /\ Len(answers) = n - 1 /\ n \in DOMAIN asked
  <2>1. httpTasks <= 1 /\ Len(answers) + httpTasks = n
    BY <1>2 DEF OneAfterTheOther
  <2> HIDE DEF n
  <2>2. httpTasks = 1 /\ n > 0 /\ Len(answers) = n - 1
    BY <1>3, <1>4, <2>1
  <2>3. DOMAIN asked = 1 .. n
    BY DEF HttpTypes, n
  <2>4. QED
    BY <1>3, <2>2, <2>3
<1>6. /\ reqHandler[2] \notin Callbacks /\ Response(reqHandler[1], context) = Wanted(n)
  <2>1. asked[n].url \in Seq(STRING)
    BY <1>5, MessageIs DEF HttpTypes
  <2> DEFINE first == FirstConnection(asked, n)
  <2>2. /\ Bind(asked[n].url) # <<>> /\ reqHandler = Bound(Bind(asked[n].url))
        /\ context.service = Bind(asked[n].url)[1] /\ Alike(context, Asked(asked[n], first))
    BY <1>2, <1>5 DEF OneAfterTheOther
  <2>3. \A w \in Callbacks : ~Contains(asked[n].url, w)
    BY <1>2, <1>5 DEF InOrder
  <2>4. Registrations
    BY DEF HttpTypes
  <2> DEFINE m == asked[n]
  <2> HIDE DEF n, first, m
  <2>5. /\ Bound(Bind(m.url))[2] \notin Callbacks
        /\ Response(Bound(Bind(m.url))[1], context) = Due(m, first)
    BY <2>1, <2>2, <2>3, <2>4, BoundAnswers DEF m
  <2>6. Wanted(n) = Due(m, first)
    BY DEF Wanted, m, first
  <2>7. QED
    BY <2>2, <2>5, <2>6 DEF m
<1>7. connected /\ "ReadMessageHandler" \in Callbacks
  BY <1>2 DEF OneAfterTheOther, Callbacks
<1>8. ServeRequest
  <2>0. reqHandler[2] \notin Callbacks /\ reqHandler[2] # "ReadMessageHandler"
    BY <1>6, <1>7, Zenon
  <2>1. ~ServeNothing
    BY <1>7, <2>0, Zenon DEF ServeNothing, HandlerRuns
  <2>2. ~ServeMessage
    BY <2>0, Zenon DEF ServeMessage
  <2>3. QED
    BY <2>1, <2>2
<1>9. \A i : Wanted(i)' = Wanted(i)
  BY <1>1 DEF Wanted, Due, Services
<1>10. Bind(asked[n].url)' = Bind(asked[n].url) /\ Bound(Bind(asked[n].url))' = Bound(Bind(asked[n].url))
  BY <1>1, Zenon DEF Bind, Bound, Services
<1>11. CASE Wanted(n) = Terminates
  <2>1. terminated' = TRUE /\ httpTasks' = httpTasks /\ answers' = answers
    BY <1>6, <1>8, <1>11 DEF ServeRequest
  <2>2. QED
    BY <1>1, <1>2, <1>5, <1>9, <1>10, <1>11, <2>1, Zenon DEF OneAfterTheOther, Alike
<1>12. CASE Wanted(n) # Terminates
  <2>1. terminated' = terminated /\ httpTasks' = httpTasks - 1 /\ answers' = Append(answers, Wanted(n))
    BY <1>6, <1>8, <1>12 DEF ServeRequest
  <2>2. /\ Len(answers') = Len(answers) + 1 /\ answers'[Len(answers) + 1] = Wanted(n)
        /\ \A i \in 1 .. Len(answers) : answers'[i] = answers[i]
    BY <1>3, <2>1, Appended
  <2>3. httpTasks' = 0 /\ Len(answers') = n
    BY <1>3, <1>5, <2>1, <2>2
  <2>4. \A i \in 1 .. Len(answers') : answers'[i] = Wanted(i)
    BY <1>2, <1>3, <1>5, <2>2 DEF OneAfterTheOther
  <2>5. QED
    BY <1>1, <1>2, <1>3, <1>4, <1>9, <2>1, <2>3, <2>4 DEF OneAfterTheOther, Alike
<1>13. QED
  BY <1>11, <1>12

LEMMA RegistersInOrder ==
    ASSUME HttpTypes, OrderInv, RegisterHttp \/ RegisterResource \/ RegisterProxy
    PROVE  OrderInv'
<1> SUFFICES ASSUME InOrder'
             PROVE  OneAfterTheOther'
  BY DEF OrderInv
<1>1. /\ asked = <<>>
      /\ UNCHANGED <<context, bindedHandler, reqHandler, httpTasks, connected, asked, answers,
                     reqHealthy, terminated, overlapped>>
  BY DEF RegisterHttp, RegisterResource, RegisterProxy, RegisterHandler
<1>2. InOrder /\ OneAfterTheOther
  BY <1>1 DEF InOrder, OrderInv
<1>3. Len(asked) = 0 /\ Len(asked') = 0
  BY <1>1
<1>4. Len(answers) \in Nat /\ httpTasks \in Nat
  BY DEF HttpTypes
<1>5. Len(answers) = 0 /\ httpTasks = 0 /\ ~terminated
  <2>1. Len(answers) + httpTasks = Len(asked) /\ (terminated => httpTasks = 1)
    BY <1>2 DEF OneAfterTheOther
  <2>2. Len(answers) = 0 /\ httpTasks = 0
    BY <1>3, <1>4, <2>1
  <2>3. QED
    BY <2>1, <2>2
<1>6. FirstConnection(asked, 0)' = FirstConnection(asked, 0)
  BY <1>1
<1>7. context.connection = FirstConnection(asked, 0)
  BY <1>2, <1>3 DEF OneAfterTheOther
<1>8. QED
  BY <1>1, <1>2, <1>3, <1>4, <1>5, <1>6, <1>7 DEF OneAfterTheOther

\* What was wanted does not change when more is asked.
LEMMA WantedKept ==
    ASSUME UNCHANGED <<registered, coverAll>>, NEW i \in Nat, \A j \in 1 .. i : asked'[j] = asked[j],
           i > 0
    PROVE  Wanted(i)' = Wanted(i)
<1>1. FirstConnection(asked', i) = FirstConnection(asked, i)
  BY FirstStays
<1>2. asked'[i] = asked[i]
  OBVIOUS
<1>3. \A m, first : Due(m, first)' = Due(m, first)
  BY DEF Due, Services
<1>4. QED
  BY <1>1, <1>2, <1>3 DEF Wanted

LEMMA ReadsInOrder ==
    ASSUME HttpTypes, OrderInv, NEW m \in HttpMessages, Read(m)
    PROVE  OrderInv'
<1> SUFFICES ASSUME InOrder'
             PROVE  OneAfterTheOther'
  BY DEF OrderInv
<1>1. PICK n \in Nat : n = Len(asked)
  BY DEF HttpTypes
<1> DEFINE k == n + 1
<1>2. /\ asked' = Append(asked, m) /\ UNCHANGED <<registered, coverAll, terminated>>
      /\ ~terminated /\ connected /\ reqHealthy' = (m.complete = "all")
      /\ overlapped' = (overlapped \/ httpTasks > 0)
  BY DEF Read
<1>3. /\ n \in Nat /\ Len(asked') = k /\ DOMAIN asked = 1 .. n /\ DOMAIN asked' = 1 .. k
      /\ asked'[k] = m /\ \A i \in 1 .. n : asked'[i] = asked[i]
  BY <1>1, <1>2 DEF HttpTypes
<1>4. Len(answers) \in Nat /\ httpTasks \in Nat /\ answers \in Seq(Range(answers)) /\ Registrations
  BY DEF HttpTypes
<1>5. InOrder /\ httpTasks = 0
  <2>1. ~overlapped /\ ~(httpTasks > 0)
    BY <1>2, <1>4 DEF InOrder, HttpTypes
  <2>2. \A i \in 1 .. n : i \in 1 .. k
    BY <1>3
  <2>3. QED
    BY <1>3, <1>4, <2>1, <2>2 DEF InOrder
<1>6. m.complete = "all" /\ m.words = 3 /\ \A w \in Callbacks : ~Contains(m.url, w)
  BY <1>3 DEF InOrder
<1>7. OneAfterTheOther
  BY <1>5 DEF OrderInv
<1> DEFINE c == Parse(m)  b == Bind(c.url)
<1>8. /\ c.method = m.method /\ c.url = m.url /\ c.version = m.version /\ c.body = m.body
      /\ c.connection = IF context.connection = NoText THEN m.connection ELSE context.connection
  BY <1>6 DEF Parse
<1>9. c.connection = FirstConnection(asked', k)
  <2>1. context.connection = FirstConnection(asked, n)
    BY <1>1, <1>7 DEF OneAfterTheOther
  <2>2. FirstConnection(asked', k) = IF FirstConnection(asked, n) = NoText THEN asked'[k].connection
                                     ELSE FirstConnection(asked, n)
    BY <1>3, FirstGrows
  <2>3. QED
    BY <1>3, <1>8, <2>1, <2>2
<1>10. ReadRequest(m)
  BY <1>6 DEF Read, ReadMalformed
<1>11. PICK first : first = FirstConnection(asked', k)
  OBVIOUS
<1>12. Alike(c, Asked(m, first)) /\ Wanted(k)' = Due(m, first)
  <2>1. Alike(c, Asked(m, first))
    BY <1>8, <1>9, <1>11 DEF Alike, Asked
  <2>2. Wanted(k)' = Due(m, first)'
    BY <1>3, <1>11 DEF Wanted
  <2>3. Due(m, first)' = Due(m, first)
    BY <1>2 DEF Due, Services
  <2>4. QED
    BY <2>1, <2>2, <2>3
<1>13. Len(answers) = n
  BY <1>1, <1>4, <1>5, <1>7 DEF OneAfterTheOther
<1>14. \A i \in 1 .. n : Wanted(i)' = Wanted(i)
  BY <1>2, <1>3, WantedKept
<1>15. \A i \in 1 .. n : answers[i] = Wanted(i)'
  BY <1>7, <1>13, <1>14 DEF OneAfterTheOther
<1>16. Bind(m.url)' = Bind(m.url) /\ Bound(Bind(m.url))' = Bound(Bind(m.url)) /\ Registrations'
  BY <1>2, <1>4 DEF Bind, Bound, Services, Registrations
<1>17. m.url \in Seq(STRING)
  BY MessageIs
<1>18. connected' /\ ~terminated' /\ reqHealthy'
  BY <1>2, <1>6, <1>10 DEF ReadRequest
<1>19. OneAfterTheOther' <=>
         /\ connected' /\ httpTasks' <= 1 /\ Len(answers') + httpTasks' = k
         /\ context'.connection = first
         /\ reqHealthy' /\ Alike(context', Asked(m, first))
         /\ httpTasks' = 1 => /\ Bind(m.url)' # <<>>
                              /\ reqHandler' = Bound(Bind(m.url))'
                              /\ context'.service = Bind(m.url)'[1]
         /\ \A i \in 1 .. Len(answers') : answers'[i] = Wanted(i)'
         /\ terminated' => httpTasks' = 1 /\ Wanted(k)' = Terminates
  <2>1. Len(asked') = k /\ k > 0 /\ asked'[k] = m /\ first = FirstConnection(asked', k)
    BY <1>3, <1>11
  <2> HIDE DEF k
  <2>2. QED
    BY <2>1 DEF OneAfterTheOther
<1>20. CASE b = <<>>
  <2>1. context' = c /\ answers' = Append(answers, HttpError("400", c)) /\ httpTasks' = 0
    BY <1>5, <1>10, <1>20 DEF ReadRequest
  <2>2. /\ Len(answers') = k /\ answers'[k] = HttpError("400", c)
        /\ \A i \in 1 .. n : answers'[i] = answers[i]
    BY <1>4, <1>13, <2>1, Appended
  <2>3. HttpError("400", c) = Wanted(k)'
    <3>1. HttpError("400", c) = Due(m, first)
      BY <1>4, <1>8, <1>12, <1>17, <1>20, UnboundAnswers
    <3>2. QED
      BY <1>12, <3>1
  <2>4. \A i \in 1 .. k : answers'[i] = Wanted(i)'
    BY <1>3, <1>15, <2>2, <2>3
  <2>5. context'.connection = first /\ Alike(context', Asked(m, first))
    BY <1>9, <1>12, <1>11, <2>1
  <2>6. QED
    BY <1>18, <1>19, <2>1, <2>2, <2>4, <2>5
<1>21. CASE b # <<>>
  <2>1. /\ context' = [c EXCEPT !.service = b[1]] /\ answers' = answers /\ httpTasks' = 1
        /\ reqHandler' = Bound(b)
    BY <1>5, <1>10, <1>21 DEF ReadRequest
  <2>2. /\ context'.method = c.method /\ context'.url = c.url /\ context'.version = c.version
        /\ context'.body = c.body /\ context'.connection = c.connection /\ context'.service = b[1]
    BY <2>1 DEF Parse
  <2>3. context'.connection = first /\ Alike(context', Asked(m, first))
    BY <1>9, <1>12, <1>11, <2>2 DEF Alike
  <2>4. /\ Bind(m.url)' # <<>> /\ reqHandler' = Bound(Bind(m.url))' /\ context'.service = Bind(m.url)'[1]
    BY <1>8, <1>16, <1>21, <2>1, <2>2
  <2>5. QED
    BY <1>13, <1>15, <1>18, <1>19, <2>1, <2>3, <2>4
<1>22. QED
  BY <1>20, <1>21

\* HttpRequest.AnswersAsked: a client that sends whole requests, one after the
\* other, and names no callback of a service, gets for each the answer to this
\* request, whatever is registered, whatever it asks and however often.
THEOREM AnswersAskedHolds == HttpSpec => []AnswersAsked
<1>1. HttpInit => OrderInv
  <2> SUFFICES ASSUME HttpInit PROVE OrderInv
    OBVIOUS
  <2>1. /\ asked = <<>> /\ answers = <<>> /\ httpTasks = 0 /\ connected /\ ~terminated
        /\ context.connection = NoText
    BY DEF HttpInit
  <2>2. FirstConnection(asked, 0) = NoText
    BY FirstIs
  <2>3. QED
    BY <2>1, <2>2 DEF OrderInv, OneAfterTheOther
<1>2. HttpTypes /\ OrderInv /\ [HttpNext]_httpVars => OrderInv'
  <2> SUFFICES ASSUME HttpTypes, OrderInv, [HttpNext]_httpVars PROVE OrderInv'
    OBVIOUS
  <2>1. CASE UNCHANGED httpVars
    <3>1. UNCHANGED <<registered, coverAll, context, bindedHandler, reqHandler, httpTasks, connected,
                      asked, answers, reqHealthy, terminated, overlapped>>
      BY <2>1 DEF httpVars
    <3>2. \A i : Wanted(i)' = Wanted(i) /\ Bind(asked[i].url)' = Bind(asked[i].url)
                /\ Bound(Bind(asked[i].url))' = Bound(Bind(asked[i].url))
      BY <3>1 DEF Bind, Bound, Services, Due, Wanted
    <3>3. InOrder' => InOrder
      BY <3>1 DEF InOrder
    <3>4. OneAfterTheOther => OneAfterTheOther'
      BY <3>1, <3>2 DEF OneAfterTheOther
    <3>5. QED
      BY <3>3, <3>4 DEF OrderInv
  <2>2. CASE HttpNext
    BY <2>2, RegistersInOrder, ServesInOrder, ReadsInOrder DEF HttpNext
  <2>3. QED
    BY <2>1, <2>2
<1>3. HttpTypes /\ OrderInv => AnswersAsked
  <2> SUFFICES ASSUME HttpTypes, OrderInv, InOrder
               PROVE  /\ Len(answers) + httpTasks = Len(asked)
                      /\ \A i \in DOMAIN answers : answers[i] = Wanted(i)
                      /\ terminated => Wanted(Len(asked)) = Terminates
    BY DEF AnswersAsked
  <2>1. DOMAIN answers = 1 .. Len(answers)
    BY DEF HttpTypes
  <2>2. QED
    BY <2>1 DEF OrderInv, OneAfterTheOther
<1>4. QED
  BY <1>1, <1>2, <1>3, HttpTypesHold, PTL DEF HttpSpec

-----------------------------------------------------------------------------
(* The targets of a proxy.                                                 *)

ProxyTypes == /\ selectIndex \in 0 .. TargetNum
              /\ proxyWorker \in [ProxyWorkers -> [at : {"idle", "write", "use", "connect"},
                                                   index : 0 .. TargetNum]]
              /\ picks \in [0 .. TargetNum -> Nat]
              /\ selectRaced \in BOOLEAN

\* The index is written before it is used, and nobody writes TargetNum.
WrittenInv == /\ \A w \in ProxyWorkers : proxyWorker[w].at = "use" => selectIndex < TargetNum
              /\ picks[TargetNum] = 0

\* Without a race one worker is selecting, and what it has read is still true.
AloneInv == ~selectRaced =>
    /\ \A v, w \in Selecting : v = w
    /\ \A w \in ProxyWorkers : proxyWorker[w].at = "write" => proxyWorker[w].index = selectIndex

\* The first round begins with target 1: TargetNum, the index that was registered, is moved on.
Place(i) == IF i = 0 THEN TargetNum - 1 ELSE i - 1

\* How many targets of this round have served.
Served == IF \E w \in ProxyWorkers : proxyWorker[w].at = "use" THEN Place(selectIndex)
          ELSE IF selectIndex = TargetNum THEN 0 ELSE Place(selectIndex) + 1

RoundInv == ~selectRaced =>
    \E q \in Nat : \A i \in 0 .. TargetNum - 1 : picks[i] = IF Place(i) < Served THEN q + 1 ELSE q

ProxyInv == ProxyTypes /\ WrittenInv /\ AloneInv /\ RoundInv

-----------------------------------------------------------------------------

\* The modulus, case by case.
LEMMA NextIndexCases ==
    ASSUME NEW i \in 0 .. TargetNum
    PROVE  NextIndex(i) = IF i + 1 < TargetNum THEN i + 1
                          ELSE IF i + 1 = TargetNum \/ TargetNum = 1 THEN 0 ELSE 1
<1>1. TargetNum \in Nat /\ TargetNum > 0 /\ i \in Nat /\ i <= TargetNum
  BY TargetNumAssumption
<1>2. CASE i + 1 < TargetNum
  BY <1>1, <1>2, SMT DEF NextIndex
<1>3. CASE i + 1 = TargetNum
  BY <1>1, <1>3, SMT DEF NextIndex
<1>4. CASE i = TargetNum /\ TargetNum = 1
  BY <1>1, <1>4, SMT DEF NextIndex
<1>5. CASE i = TargetNum /\ TargetNum > 1
  BY <1>1, <1>5, SMT DEF NextIndex
<1>6. QED
  BY <1>1, <1>2, <1>3, <1>4, <1>5

LEMMA ProxyInitInv == ProxyInit => ProxyInv
<1>1. SUFFICES ASSUME ProxyInit PROVE ProxyInv
  OBVIOUS
<1>2. Served = 0
  BY <1>1, TargetNumAssumption DEF ProxyInit, Served, RegisteredIndex
<1>3. \A i \in 0 .. TargetNum - 1 : picks[i] = 0 /\ ~(Place(i) < 0)
  BY <1>1, TargetNumAssumption DEF ProxyInit, Place
<1>4. RoundInv
  BY <1>2, <1>3 DEF RoundInv
<1>5. ProxyTypes
  <2>1. 0 \in 0 .. TargetNum /\ TargetNum \in 0 .. TargetNum
    BY TargetNumAssumption
  <2>2. [at |-> "idle", index |-> 0] \in [at : {"idle", "write", "use", "connect"}, index : 0 .. TargetNum]
    BY <2>1
  <2>3. QED
    BY <1>1, <2>1, <2>2 DEF ProxyInit, ProxyTypes, RegisteredIndex
<1>6. WrittenInv /\ AloneInv
  BY <1>1, TargetNumAssumption DEF ProxyInit, WrittenInv, AloneInv, Selecting
<1>7. QED
  BY <1>4, <1>5, <1>6 DEF ProxyInv

\* One step for each action; only WriteIndex begins a round.
LEMMA ProxyStepInv == ProxyInv /\ [ProxyNext]_proxyVars => ProxyInv'
<1>1. SUFFICES ASSUME ProxyInv, [ProxyNext]_proxyVars PROVE ProxyInv'
  OBVIOUS
<1>2. ProxyTypes /\ WrittenInv /\ AloneInv /\ RoundInv
  BY <1>1 DEF ProxyInv
<1>3. TargetNum \in Nat /\ TargetNum > 0
  BY TargetNumAssumption
<1>4. CASE HandleRequest \/ UNCHANGED proxyVars
  <2>1. UNCHANGED <<selectIndex, proxyWorker, picks, selectRaced>>
    BY <1>4 DEF HandleRequest, proxyVars
  <2>2. UNCHANGED <<Selecting, Served>>
    BY <2>1 DEF Selecting, Served, Place
  <2>3. QED
    BY <1>2, <2>1, <2>2 DEF ProxyInv, ProxyTypes, WrittenInv, AloneInv, RoundInv, Place
<1>5. ASSUME NEW w \in ProxyWorkers, BeginTask(w) PROVE ProxyInv'
  <2>1. UNCHANGED <<selectIndex, picks>>
    BY <1>5 DEF BeginTask
  <2>2. CASE proxyWorker' = [proxyWorker EXCEPT ![w] = proxyWorker[w]] /\ selectRaced' = selectRaced
    <3>1. proxyWorker' = proxyWorker
      BY <1>2, <2>2 DEF ProxyTypes
    <3>2. UNCHANGED <<Selecting, Served>>
      BY <2>1, <3>1 DEF Selecting, Served, Place
    <3>3. QED
      BY <1>2, <2>1, <2>2, <3>1, <3>2
         DEF ProxyInv, ProxyTypes, WrittenInv, AloneInv, RoundInv, Place
  <2>3. CASE /\ proxyWorker' = [proxyWorker EXCEPT ![w] = [at |-> "write", index |-> selectIndex]]
             /\ selectRaced' = (selectRaced \/ Selecting # {})
             /\ proxyWorker[w].at = "idle"
    <3>1. ProxyTypes'
      BY <1>2, <2>1, <2>3 DEF ProxyTypes
    <3>2. \A v \in ProxyWorkers : proxyWorker'[v] = IF v = w THEN [at |-> "write", index |-> selectIndex]
                                                    ELSE proxyWorker[v]
      BY <1>2, <2>3 DEF ProxyTypes
    <3>3. WrittenInv'
      BY <1>2, <2>1, <3>2 DEF WrittenInv
    <3>4. AloneInv'
      <4>1. SUFFICES ASSUME ~selectRaced, Selecting = {} PROVE AloneInv'
        BY <2>3 DEF AloneInv
      <4>2. \A v \in ProxyWorkers : proxyWorker'[v].at \in {"write", "use"} => v = w
        BY <3>2, <4>1 DEF Selecting
      <4>3. \A u, v \in Selecting' : u = v
        BY <4>2 DEF Selecting
      <4>4. \A v \in ProxyWorkers : proxyWorker'[v].at = "write" => proxyWorker'[v].index = selectIndex'
        BY <2>1, <3>2, <4>2
      <4>5. QED
        BY <4>3, <4>4 DEF AloneInv
    <3>5. Served' = Served
      BY <2>1, <2>3, <3>2 DEF Served, Place
    <3>6. RoundInv'
      BY <1>2, <2>1, <2>3, <3>5 DEF RoundInv, Place
    <3>7. QED
      BY <3>1, <3>3, <3>4, <3>6 DEF ProxyInv
  <2>4. QED
    BY <1>5, <2>2, <2>3 DEF BeginTask, WorkerAt
<1>6. ASSUME NEW w \in ProxyWorkers, WriteIndex(w) PROVE ProxyInv'
  <2> DEFINE next == NextIndex(proxyWorker[w].index)
  <2>1. /\ proxyWorker[w].at = "write" /\ proxyWorker[w].index \in 0 .. TargetNum
        /\ proxyWorker' = [proxyWorker EXCEPT ![w] = [at |-> "use", index |-> next]]
        /\ selectIndex' = next
        /\ UNCHANGED <<selectRaced, picks>>
    BY <1>2, <1>6 DEF WriteIndex, WorkerAt, ProxyTypes
  <2>2. next = IF proxyWorker[w].index + 1 < TargetNum THEN proxyWorker[w].index + 1
               ELSE IF proxyWorker[w].index + 1 = TargetNum \/ TargetNum = 1 THEN 0 ELSE 1
    BY <2>1, NextIndexCases
  <2>3. next \in 0 .. TargetNum - 1
    BY <1>3, <2>1, <2>2
  <2> HIDE DEF next
  <2>4. \A v \in ProxyWorkers : proxyWorker'[v] = IF v = w THEN [at |-> "use", index |-> next]
                                                  ELSE proxyWorker[v]
    BY <1>2, <2>1 DEF ProxyTypes
  <2>5. ProxyTypes'
    BY <1>2, <1>3, <2>1, <2>3 DEF ProxyTypes
  <2>6. WrittenInv'
    BY <1>2, <1>3, <2>1, <2>3 DEF WrittenInv
  <2>7. AloneInv'
    BY <1>2, <2>1, <2>4 DEF AloneInv, Selecting
  <2>8. RoundInv'
    <3>1. SUFFICES ASSUME ~selectRaced
                   PROVE  \E q \in Nat : \A i \in 0 .. TargetNum - 1 :
                              picks[i] = IF Place(i) < Served' THEN q + 1 ELSE q
      BY <2>1 DEF RoundInv, Place
    <3>2. \A v \in ProxyWorkers : proxyWorker[v].at # "use"
      BY <1>2, <2>1, <3>1 DEF AloneInv, Selecting
    <3>3. Served = IF selectIndex = TargetNum THEN 0 ELSE Place(selectIndex) + 1
      BY <3>2 DEF Served
    <3>4. Served' = Place(next)
      BY <2>1, <2>4 DEF Served, Place
    <3>5. proxyWorker[w].index = selectIndex
      BY <1>2, <2>1, <3>1 DEF AloneInv
    <3>6. PICK q \in Nat : \A i \in 0 .. TargetNum - 1 :
                               picks[i] = IF Place(i) < Served THEN q + 1 ELSE q
      BY <1>2, <3>1 DEF RoundInv
    <3>7. CASE Served = TargetNum
      <4>1. Served' = 0
        BY <1>3, <2>1, <2>2, <3>3, <3>4, <3>5, <3>7 DEF Place
      <4>2. \A i \in 0 .. TargetNum - 1 : Place(i) \in 0 .. TargetNum - 1
        BY <1>3 DEF Place
      <4>3. \A i \in 0 .. TargetNum - 1 : picks[i] = q + 1 /\ ~(Place(i) < Served')
        BY <1>3, <3>6, <3>7, <4>1, <4>2
      <4>4. QED
        BY <4>3
    <3>8. CASE Served # TargetNum
      <4>1. Served' = Served
        BY <1>3, <2>1, <2>2, <3>3, <3>4, <3>5, <3>8 DEF Place
      <4>2. QED
        BY <3>6, <4>1
    <3>9. QED
      BY <3>7, <3>8
  <2>9. QED
    BY <2>5, <2>6, <2>7, <2>8 DEF ProxyInv
<1>7. ASSUME NEW w \in ProxyWorkers, UseIndex(w) PROVE ProxyInv'
  <2>1. /\ proxyWorker[w].at = "use"
        /\ proxyWorker' = [proxyWorker EXCEPT ![w] = [at |-> "connect", index |-> selectIndex]]
        /\ picks' = [picks EXCEPT ![selectIndex] = @ + 1]
        /\ UNCHANGED <<selectIndex, selectRaced>>
    BY <1>7 DEF UseIndex, WorkerAt
  <2>2. selectIndex \in 0 .. TargetNum - 1
    BY <1>2, <1>3, <2>1 DEF ProxyTypes, WrittenInv
  <2>3. \A v \in ProxyWorkers : proxyWorker'[v] = IF v = w THEN [at |-> "connect", index |-> selectIndex]
                                                  ELSE proxyWorker[v]
    BY <1>2, <2>1 DEF ProxyTypes
  <2>4. \A i \in 0 .. TargetNum : picks'[i] = IF i = selectIndex THEN picks[i] + 1 ELSE picks[i]
    BY <1>2, <2>1 DEF ProxyTypes
  <2>5. ProxyTypes'
    BY <1>2, <2>1 DEF ProxyTypes
  <2>6. WrittenInv'
    BY <1>2, <1>3, <2>1, <2>2, <2>3, <2>4 DEF WrittenInv
  <2>7. AloneInv'
    BY <1>2, <2>1, <2>3 DEF AloneInv, Selecting
  <2>8. RoundInv'
    <3>1. SUFFICES ASSUME ~selectRaced
                   PROVE  \E q \in Nat : \A i \in 0 .. TargetNum - 1 :
                              picks'[i] = IF Place(i) < Served' THEN q + 1 ELSE q
      BY <2>1 DEF RoundInv, Place
    <3>2. \A v \in ProxyWorkers : proxyWorker'[v].at # "use"
      BY <1>2, <2>1, <2>3, <3>1 DEF AloneInv, Selecting
    <3>3. Served = Place(selectIndex) /\ Served' = Place(selectIndex) + 1
      BY <1>3, <2>1, <2>2, <3>2 DEF Served, Place
    <3>4. PICK q \in Nat : \A i \in 0 .. TargetNum - 1 :
                               picks[i] = IF Place(i) < Served THEN q + 1 ELSE q
      BY <1>2, <3>1 DEF RoundInv
    <3>5. \A i \in 0 .. TargetNum - 1 : /\ Place(i) \in Nat
                                        /\ Place(i) = Place(selectIndex) <=> i = selectIndex
      BY <1>3, <2>2 DEF Place
    <3>6. \A i \in 0 .. TargetNum - 1 : picks'[i] = IF Place(i) < Served' THEN q + 1 ELSE q
      BY <1>3, <2>2, <2>4, <3>3, <3>4, <3>5
    <3>7. QED
      BY <3>6
  <2>9. QED
    BY <2>5, <2>6, <2>7, <2>8 DEF ProxyInv
<1>8. ASSUME NEW w \in ProxyWorkers, ConnectTarget(w) PROVE ProxyInv'
  <2>1. /\ proxyWorker[w].at = "connect"
        /\ proxyWorker' = [proxyWorker EXCEPT ![w] = [at |-> "idle", index |-> 0]]
        /\ UNCHANGED <<selectIndex, picks, selectRaced>>
    BY <1>8 DEF ConnectTarget, WorkerAt
  <2>2. \A v \in ProxyWorkers : proxyWorker'[v] = IF v = w THEN [at |-> "idle", index |-> 0]
                                                  ELSE proxyWorker[v]
    BY <1>2, <2>1 DEF ProxyTypes
  <2>3. ProxyTypes'
    BY <1>2, <1>3, <2>1 DEF ProxyTypes
  <2>4. WrittenInv' /\ AloneInv'
    BY <1>2, <2>1, <2>2 DEF WrittenInv, AloneInv, Selecting
  <2>5. Served' = Served
    BY <2>1, <2>2 DEF Served, Place
  <2>6. RoundInv'
    BY <1>2, <2>1, <2>5 DEF RoundInv, Place
  <2>7. QED
    BY <2>3, <2>4, <2>6 DEF ProxyInv
<1>9. QED
  BY <1>1, <1>4, <1>5, <1>6, <1>7, <1>8 DEF ProxyNext

\* The index that was registered is never used, and the targets serve in turn
\* while no two workers select at once: PortProxyServer.hpp:259-260, for any
\* number of workers, targets and requests.
THEOREM SelectsInTurnHolds == ProxySpec => []SelectsInTurn
<1>1. ProxyInv => SelectsInTurn
  <2>1. SUFFICES ASSUME ProxyInv, ~selectRaced, NEW i \in 0 .. TargetNum - 1, NEW j \in 0 .. TargetNum - 1
                 PROVE  picks[i] <= picks[j] + 1
    BY DEF SelectsInTurn, ProxyInv, WrittenInv
  <2>2. PICK q \in Nat : \A k \in 0 .. TargetNum - 1 : picks[k] = IF Place(k) < Served THEN q + 1 ELSE q
    BY <2>1 DEF ProxyInv, RoundInv
  <2>3. picks[i] \in {q, q + 1} /\ picks[j] \in {q, q + 1}
    BY <2>2
  <2>4. QED
    BY <2>3
<1>2. QED
  BY <1>1, ProxyInitInv, ProxyStepInv, PTL DEF ProxySpec

LEMMA ProxyAlways == ProxySpec => []ProxyInv
BY ProxyInitInv, ProxyStepInv, PTL DEF ProxySpec

\* A request is a task, an error page, or a worker on its way to a target, which
\* gives a page when the target does not answer; and it chooses one target.
Serving == {w \in ProxyWorkers : proxyWorker[w].at # "idle"}
RequestInv == /\ requests \in 0 .. MaxRequests /\ waitingTasks \in Nat /\ pages \in Nat
            /\ IsFiniteSet(Serving) /\ IsFiniteSet(Selecting)
            /\ waitingTasks + pages + Cardinality(Serving) <= requests
            /\ \A i \in 0 .. TargetNum : picks[i] + waitingTasks + Cardinality(Selecting) <= requests

LEMMA ProxyCounts == ProxySpec => []RequestInv
<1>1. ProxyInit => RequestInv
  <2> SUFFICES ASSUME ProxyInit PROVE RequestInv
    OBVIOUS
  <2>1. Serving = {} /\ Selecting = {}
    BY DEF ProxyInit, Serving, Selecting
  <2>2. Cardinality({}) = 0 /\ IsFiniteSet({})
    BY FS_EmptySet
  <2>3. QED
    BY <2>1, <2>2, TargetNumAssumption DEF ProxyInit, RequestInv
<1>2. ProxyInv /\ RequestInv /\ [ProxyNext]_proxyVars => RequestInv'
  <2> SUFFICES ASSUME ProxyInv, RequestInv, [ProxyNext]_proxyVars PROVE RequestInv'
    OBVIOUS
  <2>1. /\ proxyWorker \in [ProxyWorkers -> [at : {"idle", "write", "use", "connect"}, index : 0 .. TargetNum]]
        /\ picks \in [0 .. TargetNum -> Nat] /\ selectIndex \in 0 .. TargetNum
        /\ requests \in Nat /\ requests <= MaxRequests /\ waitingTasks \in Nat /\ pages \in Nat
        /\ MaxRequests \in Nat /\ TargetNum \in Nat
    BY TargetNumAssumption DEF ProxyInv, ProxyTypes, RequestInv
  <2>2. /\ IsFiniteSet(Serving) /\ IsFiniteSet(Selecting)
        /\ Cardinality(Serving) \in Nat /\ Cardinality(Selecting) \in Nat
        /\ waitingTasks + pages + Cardinality(Serving) <= requests
        /\ \A i \in 0 .. TargetNum :
              picks[i] + waitingTasks + Cardinality(Selecting) <= requests /\ picks[i] \in Nat
    <3>1. \A i \in 0 .. TargetNum : picks[i] \in Nat
      BY <2>1
    <3>2. QED
      BY <3>1, FS_CardinalityType DEF RequestInv
  <2>3. \A S : \A w : IsFiniteSet(S) =>
          /\ IsFiniteSet(S \cup {w}) /\ Cardinality(S \cup {w}) <= Cardinality(S) + 1
          /\ IsFiniteSet(S \ {w})
          /\ w \in S => Cardinality(S \ {w}) = Cardinality(S) - 1
    <3> SUFFICES ASSUME NEW S, NEW w, IsFiniteSet(S)
                 PROVE  /\ IsFiniteSet(S \cup {w}) /\ Cardinality(S \cup {w}) <= Cardinality(S) + 1
                        /\ IsFiniteSet(S \ {w})
                        /\ w \in S => Cardinality(S \ {w}) = Cardinality(S) - 1
      OBVIOUS
    <3>1. Cardinality(S) \in Nat
      BY FS_CardinalityType
    <3>2. QED
      BY <3>1, FS_AddElement, FS_RemoveElement
  <2>4. CASE HandleRequest
    <3>1. Serving' = Serving /\ Selecting' = Selecting
      BY <2>4 DEF HandleRequest, Serving, Selecting
    <3>2. waitingTasks' + pages' + Cardinality(Serving') <= requests'
      <4>1. /\ requests' = requests + 1
            /\ (waitingTasks' = waitingTasks + 1 /\ pages' = pages) \/ (pages' = pages + 1 /\ waitingTasks' = waitingTasks)
        BY <2>4 DEF HandleRequest
      <4>2. /\ waitingTasks \in Nat /\ pages \in Nat /\ requests \in Nat /\ Cardinality(Serving) \in Nat
            /\ waitingTasks + pages + Cardinality(Serving) <= requests
        BY <2>1, <2>2
      <4>3. Cardinality(Serving') = Cardinality(Serving)
        BY <3>1
      <4>4. QED
        BY <4>1, <4>2, <4>3
    <3>3. \A i \in 0 .. TargetNum : picks'[i] + waitingTasks' + Cardinality(Selecting') <= requests'
      <4> SUFFICES ASSUME NEW i \in 0 .. TargetNum
                   PROVE  picks'[i] + waitingTasks' + Cardinality(Selecting') <= requests'
        OBVIOUS
      <4>0. /\ picks' = picks /\ requests' = requests + 1
            /\ waitingTasks' = waitingTasks + 1 \/ waitingTasks' = waitingTasks
        BY <2>4 DEF HandleRequest
      <4>1. /\ picks'[i] = picks[i] /\ waitingTasks' <= waitingTasks + 1 /\ waitingTasks' \in Nat /\ requests' = requests + 1
            /\ Cardinality(Selecting') = Cardinality(Selecting)
        <5>1. waitingTasks \in Nat
          BY <2>1
        <5>2. QED
          BY <3>1, <4>0, <5>1
      <4>2. /\ picks[i] \in Nat /\ waitingTasks \in Nat /\ requests \in Nat /\ Cardinality(Selecting) \in Nat
            /\ picks[i] + waitingTasks + Cardinality(Selecting) <= requests
        BY <2>1, <2>2
      <4>3. picks'[i] + waitingTasks' + Cardinality(Selecting') = picks[i] + waitingTasks' + Cardinality(Selecting)
        BY <4>1
      <4>4. waitingTasks' <= waitingTasks + 1 /\ waitingTasks' \in Nat /\ requests' = requests + 1
        BY <4>1
      <4>5. picks[i] + waitingTasks' + Cardinality(Selecting) <= requests'
        BY <4>2, <4>4
      <4>6. QED
        BY <4>3, <4>5
    <3>4. /\ IsFiniteSet(Serving') /\ IsFiniteSet(Selecting')
          /\ requests' \in 0 .. MaxRequests /\ waitingTasks' \in Nat /\ pages' \in Nat
      <4>1. IsFiniteSet(Serving') /\ IsFiniteSet(Selecting')
        BY <2>2, <3>1
      <4>2. requests' = requests + 1 /\ requests < MaxRequests
        BY <2>4 DEF HandleRequest
      <4>3. requests' \in 0 .. MaxRequests
        BY <2>1, <4>2
      <4>4. waitingTasks' \in {waitingTasks, waitingTasks + 1} /\ pages' \in {pages, pages + 1}
        BY <2>4 DEF HandleRequest
      <4>5. waitingTasks' \in Nat /\ pages' \in Nat
        BY <2>1, <4>4
      <4>6. QED
        BY <4>1, <4>3, <4>5
    <3>5. QED
      BY <3>2, <3>3, <3>4 DEF RequestInv
  <2>5. ASSUME NEW w \in ProxyWorkers, BeginTask(w) PROVE RequestInv'
    <3>1. CASE proxyWorker' = [proxyWorker EXCEPT ![w] = [at |-> "write", index |-> selectIndex]]
                 /\ pages' = pages
      <4>1. w \notin Serving /\ w \notin Selecting
        BY <2>1, <2>5 DEF BeginTask, WorkerAt, Serving, Selecting
      <4>2. Serving' = Serving \cup {w} /\ Selecting' = Selecting \cup {w}
        BY <2>1, <3>1 DEF Serving, Selecting
      <4>3. /\ IsFiniteSet(Serving') /\ IsFiniteSet(Selecting')
            /\ Cardinality(Serving') <= Cardinality(Serving) + 1
            /\ Cardinality(Selecting') <= Cardinality(Selecting) + 1
            /\ Cardinality(Serving') \in Nat /\ Cardinality(Selecting') \in Nat
        BY <2>2, <2>3, <4>2, FS_CardinalityType
      <4>4. waitingTasks > 0 /\ waitingTasks' = waitingTasks - 1 /\ picks' = picks /\ requests' = requests
        BY <2>5 DEF BeginTask, WorkerAt
      <4>5. \A i \in 0 .. TargetNum : picks[i] \in Nat
        BY <2>1
      <4>6. waitingTasks' + pages' + Cardinality(Serving') <= requests'
        <5>1. /\ waitingTasks \in Nat /\ pages \in Nat /\ requests \in Nat /\ Cardinality(Serving) \in Nat
              /\ waitingTasks + pages + Cardinality(Serving) <= requests
          BY <2>1, <2>2
        <5>2. Cardinality(Serving') <= Cardinality(Serving) + 1 /\ Cardinality(Serving') \in Nat
          BY <4>3
        <5>3. pages' = pages /\ waitingTasks' = waitingTasks - 1 /\ requests' = requests
          BY <3>1, <4>4
        <5>4. QED
          BY <5>1, <5>2, <5>3
      <4>7. \A i \in 0 .. TargetNum : picks'[i] + waitingTasks' + Cardinality(Selecting') <= requests'
        <5> SUFFICES ASSUME NEW i \in 0 .. TargetNum
                     PROVE  picks'[i] + waitingTasks' + Cardinality(Selecting') <= requests'
          OBVIOUS
        <5>1. /\ picks'[i] = picks[i] /\ waitingTasks' = waitingTasks - 1 /\ requests' = requests
            /\ Cardinality(Selecting') <= Cardinality(Selecting) + 1 /\ Cardinality(Selecting') \in Nat
          BY <4>3, <4>4
        <5>2. /\ picks[i] \in Nat /\ waitingTasks \in Nat /\ requests \in Nat /\ Cardinality(Selecting) \in Nat
              /\ picks[i] + waitingTasks + Cardinality(Selecting) <= requests
          BY <2>1, <2>2
        <5>3. QED
          BY <5>1, <5>2
      <4>8. /\ IsFiniteSet(Serving') /\ IsFiniteSet(Selecting')
            /\ requests' \in 0 .. MaxRequests /\ waitingTasks' \in Nat /\ pages' \in Nat
        BY <2>1, <2>2, <3>1, <4>3, <4>4, <4>5
      <4>9. QED
        BY <4>6, <4>7, <4>8 DEF RequestInv
    <3>2. CASE proxyWorker' = proxyWorker /\ pages' = pages + 1
      <4>1. Serving' = Serving /\ Selecting' = Selecting
        BY <3>2 DEF Serving, Selecting
      <4>2. waitingTasks > 0 /\ waitingTasks' = waitingTasks - 1 /\ picks' = picks /\ requests' = requests
        BY <2>5 DEF BeginTask, WorkerAt
      <4>3. waitingTasks' + pages' + Cardinality(Serving') <= requests'
        <5>1. /\ waitingTasks \in Nat /\ pages \in Nat /\ requests \in Nat /\ Cardinality(Serving) \in Nat
              /\ waitingTasks + pages + Cardinality(Serving) <= requests
          BY <2>1, <2>2
        <5>2. Cardinality(Serving') = Cardinality(Serving)
          BY <4>1
        <5>3. QED
          BY <3>2, <4>2, <5>1, <5>2
      <4>4. \A i \in 0 .. TargetNum : picks'[i] + waitingTasks' + Cardinality(Selecting') <= requests'
        <5> SUFFICES ASSUME NEW i \in 0 .. TargetNum
                     PROVE  picks'[i] + waitingTasks' + Cardinality(Selecting') <= requests'
          OBVIOUS
        <5>1. /\ picks[i] \in Nat /\ waitingTasks \in Nat /\ requests \in Nat /\ Cardinality(Selecting) \in Nat
              /\ picks[i] + waitingTasks + Cardinality(Selecting) <= requests
          BY <2>1, <2>2
        <5>2. Cardinality(Selecting') = Cardinality(Selecting) /\ picks'[i] = picks[i]
          BY <4>1, <4>2
        <5>3. QED
          BY <4>2, <5>1, <5>2
      <4>5. /\ IsFiniteSet(Serving') /\ IsFiniteSet(Selecting')
            /\ requests' \in 0 .. MaxRequests /\ waitingTasks' \in Nat /\ pages' \in Nat
        BY <2>1, <2>2, <3>2, <4>1, <4>2
      <4>6. QED
        BY <4>3, <4>4, <4>5 DEF RequestInv
    <3>3. QED
      BY <2>1, <2>5, <3>1, <3>2 DEF BeginTask, WorkerAt
  <2>6. ASSUME NEW w \in ProxyWorkers, WriteIndex(w) PROVE RequestInv'
    <3>1. Serving' = Serving /\ Selecting' = Selecting
      BY <2>1, <2>6 DEF WriteIndex, WorkerAt, Serving, Selecting
    <3>2. QED
      BY <2>1, <2>2, <2>6, <3>1 DEF WriteIndex, WorkerAt, RequestInv
  <2>7. ASSUME NEW w \in ProxyWorkers, UseIndex(w) PROVE RequestInv'
    <3>1. w \in Selecting /\ Serving' = Serving /\ Selecting' = Selecting \ {w}
      BY <2>1, <2>7 DEF UseIndex, WorkerAt, Serving, Selecting
    <3>2. IsFiniteSet(Selecting') /\ Cardinality(Selecting') = Cardinality(Selecting) - 1
      BY <2>2, <2>3, <3>1
    <3>3. \A i \in 0 .. TargetNum : picks'[i] <= picks[i] + 1 /\ picks'[i] \in Nat /\ picks[i] \in Nat
      BY <2>1, <2>7 DEF UseIndex
    <3>4. waitingTasks' + pages' + Cardinality(Serving') <= requests'
      BY <2>1, <2>2, <2>7, <3>1, <3>2, <3>3 DEF UseIndex, WorkerAt
    <3>5. \A i \in 0 .. TargetNum : picks'[i] + waitingTasks' + Cardinality(Selecting') <= requests'
      <4> SUFFICES ASSUME NEW i \in 0 .. TargetNum
                   PROVE  picks'[i] + waitingTasks' + Cardinality(Selecting') <= requests'
        OBVIOUS
      <4>1. /\ picks'[i] <= picks[i] + 1 /\ picks'[i] \in Nat /\ waitingTasks' = waitingTasks /\ requests' = requests
            /\ Cardinality(Selecting') = Cardinality(Selecting) - 1
        BY <2>1, <2>2, <2>7, <3>1, <3>2, <3>3 DEF UseIndex, WorkerAt
      <4>2. /\ picks[i] \in Nat /\ waitingTasks \in Nat /\ requests \in Nat /\ Cardinality(Selecting) \in Nat
            /\ picks[i] + waitingTasks + Cardinality(Selecting) <= requests
        BY <2>1, <2>2
      <4>3. QED
        BY <4>1, <4>2
    <3>6. /\ IsFiniteSet(Serving') /\ IsFiniteSet(Selecting')
          /\ requests' \in 0 .. MaxRequests /\ waitingTasks' \in Nat /\ pages' \in Nat
      BY <2>1, <2>2, <2>7, <3>1, <3>2, <3>3 DEF UseIndex, WorkerAt
    <3>7. QED
      BY <3>4, <3>5, <3>6 DEF RequestInv
  <2>8. ASSUME NEW w \in ProxyWorkers, ConnectTarget(w) PROVE RequestInv'
    <3>1. w \in Serving /\ Serving' = Serving \ {w} /\ Selecting' = Selecting
      BY <2>1, <2>8 DEF ConnectTarget, WorkerAt, Serving, Selecting
    <3>2. IsFiniteSet(Serving') /\ Cardinality(Serving') = Cardinality(Serving) - 1
      BY <2>2, <2>3, <3>1
    <3>3. waitingTasks' + pages' + Cardinality(Serving') <= requests'
      <4>1. pages' \in {pages, pages + 1} /\ waitingTasks' = waitingTasks /\ requests' = requests
        BY <2>8 DEF ConnectTarget, WorkerAt
      <4>2. /\ waitingTasks \in Nat /\ pages \in Nat /\ requests \in Nat /\ Cardinality(Serving) \in Nat
            /\ waitingTasks + pages + Cardinality(Serving) <= requests
        BY <2>1, <2>2
      <4>3. Cardinality(Serving') = Cardinality(Serving) - 1
        BY <3>2
      <4>4. QED
        BY <4>1, <4>2, <4>3
    <3>4. \A i \in 0 .. TargetNum : picks'[i] + waitingTasks' + Cardinality(Selecting') <= requests'
      <4>1. /\ picks' = picks /\ waitingTasks' = waitingTasks /\ requests' = requests
            /\ Cardinality(Selecting') = Cardinality(Selecting)
        BY <2>8, <3>1 DEF ConnectTarget, WorkerAt
      <4>2. \A i \in 0 .. TargetNum : picks[i] + waitingTasks + Cardinality(Selecting) <= requests
        BY <2>2
      <4>3. QED
        BY <4>1, <4>2, Zenon
    <3>5. /\ IsFiniteSet(Serving') /\ IsFiniteSet(Selecting')
          /\ requests' \in 0 .. MaxRequests /\ waitingTasks' \in Nat /\ pages' \in Nat
      <4>1. pages' \in {pages, pages + 1} /\ waitingTasks' = waitingTasks /\ requests' = requests
        BY <2>8 DEF ConnectTarget, WorkerAt
      <4>2. requests \in Nat /\ requests <= MaxRequests /\ MaxRequests \in Nat /\ waitingTasks \in Nat /\ pages \in Nat
        BY <2>1
      <4>3. requests' \in 0 .. MaxRequests /\ waitingTasks' \in Nat /\ pages' \in Nat
        BY <4>1, <4>2
      <4>4. IsFiniteSet(Serving') /\ IsFiniteSet(Selecting')
        BY <2>2, <3>1, <3>2
      <4>5. QED
        BY <4>3, <4>4
    <3>6. QED
      BY <3>3, <3>4, <3>5 DEF RequestInv
  <2>9. CASE UNCHANGED proxyVars
    BY <2>9 DEF proxyVars, RequestInv, Serving, Selecting
  <2>10. QED
    BY <2>4, <2>5, <2>6, <2>7, <2>8, <2>9 DEF ProxyNext
<1>3. QED
  BY <1>1, <1>2, ProxyAlways, PTL DEF ProxySpec

\* The types of the proxy: no index is used more often, and there are not more error
\* pages and waiting tasks, than there were requests.
THEOREM ProxyTypeCorrect == ProxySpec => []ProxyTypeOK
<1>1. ProxyInv /\ RequestInv => ProxyTypeOK
  <2> SUFFICES ASSUME ProxyInv, RequestInv PROVE ProxyTypeOK
    OBVIOUS
  <2>1. /\ requests \in Nat /\ requests <= MaxRequests /\ waitingTasks \in Nat /\ pages \in Nat
        /\ Cardinality(Serving) \in Nat /\ Cardinality(Selecting) \in Nat /\ MaxRequests \in Nat
    BY TargetNumAssumption, FS_CardinalityType DEF RequestInv
  <2>2. \A i \in 0 .. TargetNum : picks[i] \in 0 .. MaxRequests
    BY <2>1 DEF RequestInv, ProxyInv, ProxyTypes
  <2>3. picks \in [0 .. TargetNum -> 0 .. MaxRequests]
    BY <2>2 DEF ProxyInv, ProxyTypes
  <2>4. waitingTasks + pages <= 2 * requests
    BY <2>1 DEF RequestInv
  <2>5. QED
    BY <2>3, <2>4 DEF RequestInv, ProxyInv, ProxyTypes, ProxyTypeOK
<1>2. QED
  BY <1>1, ProxyAlways, ProxyCounts, PTL

-----------------------------------------------------------------------------
(* The components beside each other, where a step is a step of one of them. *)

AllBehave == /\ Spec /\ CoroutineSpec /\ ProxySpec /\ HttpSpec
             /\ ValueSpec /\ TextSpec /\ NumberSpec /\ ReaderSpec /\ CharReaderSpec

AnyStep == /\ [Next]_vars /\ [CoroutineNext]_coroutineVars /\ [ProxyNext]_proxyVars /\ [HttpNext]_httpVars
           /\ [ValueNext]_valueVars /\ [TextNext]_textVars /\ [NumberNext]_numberVars
           /\ [ReaderNext]_readerVars /\ [CharReaderNext]_charVars

\* Each behaves as it does alone, so what is proved of one holds.
LEMMA EachBehaves == DataSpec => AllBehave
<1>1. DataInit => /\ Init /\ CoroutineInit /\ ProxyInit /\ HttpInit
                  /\ ValueInit /\ TextInit /\ NumberInit /\ ReaderInit /\ CharReaderInit
  BY DEF DataInit
<1>2. [DataNext]_dataVars => AnyStep
  <2>1. TimersMove => AnyStep
    BY Zenon DEF TimersMove, Moves, AnyStep
  <2>2. CoroutineMoves => AnyStep
    BY Zenon DEF CoroutineMoves, Moves, AnyStep
  <2>3. ProxyMoves => AnyStep
    BY Zenon DEF ProxyMoves, Moves, AnyStep
  <2>4. HttpMoves => AnyStep
    BY Zenon DEF HttpMoves, Moves, AnyStep
  <2>5. ValueMoves => AnyStep
    BY Zenon DEF ValueMoves, Moves, AnyStep
  <2>6. TextMoves => AnyStep
    BY Zenon DEF TextMoves, Moves, AnyStep
  <2>7. NumberMoves => AnyStep
    BY Zenon DEF NumberMoves, Moves, AnyStep
  <2>8. ReaderMoves => AnyStep
    BY Zenon DEF ReaderMoves, Moves, AnyStep
  <2>9. CharsMove => AnyStep
    BY Zenon DEF CharsMove, Moves, AnyStep
  <2>10. UNCHANGED dataVars => AnyStep
    BY Zenon DEF dataVars, AnyStep
  <2>11. QED
    BY <2>1, <2>2, <2>3, <2>4, <2>5, <2>6, <2>7, <2>8, <2>9, <2>10 DEF DataNext
<1>3. QED
  BY <1>1, <1>2, PTL DEF DataSpec, AnyStep, AllBehave, Spec, CoroutineSpec, ProxySpec, HttpSpec,
                         ValueSpec, TextSpec, NumberSpec, ReaderSpec, CharReaderSpec

\* The types of every component hold in the composition that TLC runs.
THEOREM ComponentsTypeCorrect == DataSpec => []ComponentsTypeOK
BY EachBehaves, WheelTypeCorrect, CoroutineTypeCorrect, ProxyTypeCorrect, HttpTypeCorrect,
   ValueTypeCorrect, TextTypeCorrect, NumberTypeCorrect, ReaderTypeCorrect, CharReaderTypeCorrect, PTL
   DEF AllBehave, ComponentsTypeOK

\* Both readers of JSON, for any tokens and length of document, any limit of nesting
\* and the settings of the code or others: each accepts exactly the documents of its
\* grammar unless it throws, which takes a nesting as deep as the limit, and the copy
\* reads as Reader does.
THEOREM ReadersReadTheirGrammarHolds == DataSpec => []ReadersReadTheirGrammar
BY EachBehaves, ReaderInductive, CharReaderInductive, BothAreRead, PTL DEF AllBehave

\* The writers of JSON, for any tokens, names, width, length of document and limit of
\* nesting: what a writer writes of a value that was read is read as that value again,
\* whichever way an array is laid out, and only StyledWriter cuts names.
THEOREM WritersRoundTripHolds == DataSpec => []WritersRoundTrip
BY EachBehaves, ReaderInductive, WhatIsWrittenIsRead, PTL DEF AllBehave
=============================================================================
