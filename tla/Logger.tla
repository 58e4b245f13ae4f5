------------------------------- MODULE Logger -------------------------------
(***************************************************************************)
(* library/log/logger.cpp: an asynchronous log.  Every thread that logs    *)
(* fills a buffer of its own; a full buffer is handed to one flush thread, *)
(* which writes it to the file and puts it on a list of free buffers.      *)
(* LogServer.hpp keeps the same flush thread and destructor, with an       *)
(* Append that only prints.  A buffer holds lines of equal length.         *)
(* buftotalnum is incremented under mtx in one place and under freemtx in  *)
(* another, so an increment is a read and a write.                         *)
(***************************************************************************)
EXTENDS Naturals, Sequences, FiniteSets, SequencesExt

CONSTANTS Writers,      \* the threads that log
          Capacity,     \* lines that fit into a LogBuffer (BUFSIZE)
          Limit,        \* buffers that fit into MEM_LIMIT
          MaxLines,     \* bound: lines that each thread logs
          MaxBufs,      \* bound: buffers that are ever allocated
          None

ASSUME WritersAssumption == IsFiniteSet(Writers)
ASSUME SizesAssumption == Capacity \in Nat \ {0} /\ Limit \in Nat
ASSUME BoundsAssumption == MaxLines \in Nat /\ MaxBufs \in Nat
ASSUME NoneAssumption == None \notin Nat

Bufs == 1..MaxBufs

VARIABLES map,          \* threadbufmap
          buf,          \* the LogBuffers: their lines and their state
          flushq,       \* flushbufqueue
          freeq,        \* freebufqueue
          total,        \* buftotalnum
          made,         \* buffers that exist
          th,           \* of each thread: its place in Append, currentlogbuffer,
                        \* the buftotalnum an increment has read, lines logged
          flush,        \* the flush thread: its place in Flush and p
          start,        \* start: the flush thread is to go on
          file,         \* the lines of each thread in the file, oldest first
          close,        \* ~Logger: its place, and map entries still to be pushed
          dropped       \* history: Append has returned without storing a line

poolVars == <<total, made>>
vars == <<map, buf, flushq, freeq, total, made, th, flush, start, file, close, dropped>>

(* idle     not in Append                                                  *)
(* count    has its first buffer, holds mtx at buftotalnum++               *)
(* store    at GetAvailLen() >= len && GetState() == FREE                  *)
(* retest   at the second GetState() == FREE                               *)
(* push     has set FLUSH, about to lock flushmtx                          *)
(* notify   at flushcond.notify_one()                                      *)
(* replace  about to lock freemtx for another buffer                       *)
(* recount  holds freemtx at the other buftotalnum++                       *)
(* update   holds freemtx, about to lock mtx and change the map            *)
(* busy     its buffer is being flushed: about to lock freemtx             *)
WriterStates == {"idle", "count", "store", "retest", "push", "notify", "replace",
                 "recount", "update", "busy"}

(* begin    created by Init, has not run                                   *)
(* test     about to lock flushmtx and test the queue                      *)
(* wait     holds flushmtx, has found nothing to do, about to wait         *)
(* blocked  asleep in flushcond.wait                                       *)
(* write    at FlushToFile                                                 *)
(* give     about to lock freemtx and push                                 *)
FlushStates == {"begin", "test", "wait", "blocked", "write", "give", "exited"}
CloseStates == {"alive", "pushing", "notify", "join", "deleted"}

TypeOK == /\ map \in [Writers -> Bufs \cup {None}]
          /\ buf \in [Bufs -> [lines : Seq(Writers \X (1..MaxLines)),
                               state : {"FREE", "FLUSH"}]]
          /\ flushq \in Seq(Bufs)
          /\ freeq \in Seq(Bufs)
          /\ total \in 0..MaxBufs
          /\ made \in 0..MaxBufs
          /\ th \in [Writers -> [pc : WriterStates, cur : Bufs \cup {None},
                                 seen : 0..MaxBufs, count : 0..MaxLines]]
          /\ flush \in [pc : FlushStates, p : Bufs \cup {None}]
          /\ start \in BOOLEAN
          /\ file \in [Writers -> Seq(1..MaxLines)]
          /\ close \in [pc : CloseStates, unpushed : SUBSET Writers]
          /\ dropped \in BOOLEAN

Init == /\ map = [w \in Writers |-> None]
        /\ buf = [b \in Bufs |-> [lines |-> <<>>, state |-> "FREE"]]
        /\ flushq = <<>> /\ freeq = <<>>
        /\ total = 0 /\ made = 0
        /\ th = [w \in Writers |-> [pc |-> "idle", cur |-> None, seen |-> 0, count |-> 0]]
        /\ flush = [pc |-> "begin", p |-> None]
        /\ start = FALSE
        /\ file = [w \in Writers |-> <<>>]
        /\ close = [pc |-> "alive", unpushed |-> {}]
        /\ dropped = FALSE

\* Nobody holds the mutex.  A section that is one step holds it in no state.
MtxFree == close.pc # "pushing" /\ \A w \in Writers : th[w].pc # "count"
FreeMtxFree == \A w \in Writers : th[w].pc \notin {"recount", "update"}

\* A change of FlushMtxFree: the queue is used without the mutex.
FlushMtxIgnored == TRUE
FlushMtxFree == flush.pc # "wait"

-----------------------------------------------------------------------------
(* A thread that logs: Append.                                             *)

At(w, place) == th[w].pc = place
Goto(w, place) == th' = [th EXCEPT ![w].pc = place]

\* currentlogbuffer becomes b.
Use(w, b, place) == th' = [th EXCEPT ![w].pc = place, ![w].cur = b]
Return(w) == Use(w, None, "idle")

\* LogBuffer::append of the line that w is logging.
StoreIn(b, w) == buf' = [buf EXCEPT ![b].lines = Append(@, <<w, th[w].count>>)]

\* new LogBuffer(BUFSIZE), and the read of buftotalnum++; Counted is its write.
Make == made < MaxBufs /\ made' = made + 1

\* A change of Counted: the number is written back as it was less one.
CountedDown(w) == /\ total' = th[w].seen - 1
                  /\ UNCHANGED <<map, flushq, freeq, made, flush, start, file, close, dropped>>

Counted(w) == /\ total' = th[w].seen + 1
              /\ UNCHANGED <<map, flushq, freeq, made, flush, start, file, close, dropped>>

\* The thread's buffer is looked up, or made at its first line, under mtx.
\* Append is not called once the destructor of the static Logger runs.
Lookup(w) == /\ close.pc = "alive" /\ MtxFree
             /\ At(w, "idle") /\ th[w].count < MaxLines
             /\ \/ /\ map[w] # None
                   /\ th' = [th EXCEPT ![w] = [pc |-> "store", cur |-> map[w], seen |-> @.seen,
                                               count |-> @.count + 1]]
                   /\ UNCHANGED <<map, made>>
                \/ /\ map[w] = None
                   /\ Make
                   /\ th' = [th EXCEPT ![w] = [pc |-> "count", cur |-> made', seen |-> total,
                                               count |-> @.count + 1]]
                   /\ map' = [map EXCEPT ![w] = made']
             /\ UNCHANGED <<buf, flushq, freeq, total, flush, start, file, close, dropped>>

CountFirst(w) == /\ At(w, "count")
                 /\ Goto(w, "store")
                 /\ Counted(w)
                 /\ UNCHANGED buf

Room(b) == Len(buf[b].lines) < Capacity /\ buf[b].state = "FREE"

Store(w) == /\ At(w, "store")
            /\ IF Room(th[w].cur)
               THEN StoreIn(th[w].cur, w) /\ Return(w)
               ELSE Goto(w, "retest") /\ UNCHANGED buf
            /\ UNCHANGED <<map, flushq, freeq, poolVars, flush, start, file, close, dropped>>

Retest(w) == /\ At(w, "retest")
             /\ IF buf[th[w].cur].state = "FREE"
                THEN buf' = [buf EXCEPT ![th[w].cur].state = "FLUSH"] /\ Goto(w, "push")
                ELSE Goto(w, "busy") /\ UNCHANGED buf
             /\ UNCHANGED <<map, flushq, freeq, poolVars, flush, start, file, close, dropped>>

\* A change of Queue: the newest full buffer is put at the head.
QueueFirst(b) == FlushMtxFree /\ flushq' = <<b>> \o flushq
Queue(b) == FlushMtxFree /\ flushq' = Append(flushq, b)

PushFlush(w) == /\ At(w, "push")
                /\ Queue(th[w].cur)
                /\ Goto(w, "notify")
                /\ UNCHANGED <<map, buf, freeq, poolVars, flush, start, file, close, dropped>>

\* notify_one: only the flush thread ever waits.
NotifyOne == flush' = IF flush.pc = "blocked" THEN [flush EXCEPT !.pc = "test"] ELSE flush

Notify(w) == /\ At(w, "notify")
             /\ NotifyOne
             /\ Goto(w, "replace")
             /\ UNCHANGED <<map, buf, flushq, freeq, poolVars, start, file, close, dropped>>

\* A change of PopFree: the buffer is taken with front() only.
PeekFree == FreeMtxFree /\ freeq # <<>> /\ freeq' = freeq
PopFree == FreeMtxFree /\ freeq # <<>> /\ freeq' = Tail(freeq)

\* The append is not preceded by a test of the buffer's room or state.
TakeFree(w) == /\ At(w, "replace")
               /\ PopFree
               /\ Use(w, Head(freeq), "update")
               /\ StoreIn(Head(freeq), w)
               /\ UNCHANGED <<map, flushq, poolVars, flush, start, file, close, dropped>>

\* A change of AtLimit: off by one.
AtLimitEarly == total + 1 >= Limit
AtLimit == total >= Limit

NewBuffer(w) == /\ At(w, "replace")
                /\ FreeMtxFree /\ freeq = <<>> /\ ~AtLimit
                /\ Make
                /\ th' = [th EXCEPT ![w] = [pc |-> "recount", cur |-> made', seen |-> total,
                                         count |-> @.count]]
                /\ UNCHANGED <<map, buf, flushq, freeq, total, flush, start, file, close, dropped>>

Recount(w) == /\ At(w, "recount")
              /\ Goto(w, "update")
              /\ Counted(w)
              /\ StoreIn(th[w].cur, w)

\* The map still names the buffer that is on its way to the file.
Drop(w) == /\ At(w, "replace")
           /\ FreeMtxFree /\ freeq = <<>> /\ AtLimit
           /\ Return(w)
           /\ dropped' = TRUE
           /\ UNCHANGED <<map, buf, flushq, freeq, poolVars, flush, start, file, close>>

\* mtx is locked while freemtx is held.
Update(w) == /\ At(w, "update") /\ MtxFree
             /\ map' = [map EXCEPT ![w] = th[w].cur]
             /\ Return(w)
             /\ UNCHANGED <<buf, flushq, freeq, poolVars, flush, start, file, close, dropped>>

\* The map may get a free buffer; the line is stored nowhere.
Busy(w) == /\ At(w, "busy")
           /\ \/ PopFree /\ Use(w, Head(freeq), "update")
              \/ FreeMtxFree /\ freeq = <<>> /\ Return(w) /\ UNCHANGED freeq
           /\ dropped' = TRUE
           /\ UNCHANGED <<map, buf, flushq, poolVars, flush, start, file, close>>

WriterStep(w) == \/ CountFirst(w) \/ Store(w) \/ Retest(w) \/ PushFlush(w) \/ Notify(w)
                 \/ TakeFree(w) \/ NewBuffer(w) \/ Recount(w) \/ Drop(w) \/ Update(w) \/ Busy(w)

-----------------------------------------------------------------------------
(* The flush thread: Flush.                                                *)

FlushGoto(from, to) == flush.pc = from /\ flush' = [flush EXCEPT !.pc = to]

FlushStart == /\ FlushGoto("begin", "test")
              /\ start' = TRUE
              /\ UNCHANGED <<map, buf, flushq, freeq, poolVars, th, file, close, dropped>>

\* A change of Finished: the thread stops without a look at the queue.
FinishedAtOnce == ~start
Finished == flushq = <<>> /\ ~start

\* One step under flushmtx: the test of the loop and the one behind it.
FlushTest == /\ \/ /\ flushq = <<>> /\ start
                   /\ FlushGoto("test", "wait")
                   /\ UNCHANGED flushq
                \/ /\ Finished
                   /\ FlushGoto("test", "exited")
                   /\ UNCHANGED flushq
                \/ /\ flushq # <<>> /\ ~Finished
                   /\ flush.pc = "test"
                   /\ flush' = [pc |-> "write", p |-> Head(flushq)]
                   /\ flushq' = Tail(flushq)
             /\ UNCHANGED <<map, buf, freeq, poolVars, th, start, file, close, dropped>>

\* wait releases flushmtx; it may return without a notification.
FlushWait == /\ FlushGoto("wait", "blocked") \/ FlushGoto("blocked", "test")
             /\ UNCHANGED <<map, buf, flushq, freeq, poolVars, th, start, file, close, dropped>>

\* The numbers of w's lines in a sequence of lines.
Of(w, s) == FlattenSeq([i \in DOMAIN s |-> IF s[i][1] = w THEN <<s[i][2]>> ELSE <<>>])

\* FlushToFile and SetState: nobody but Append's second test, which reads the
\* state alone, sees the buffer in between.
FlushWrite == /\ FlushGoto("write", "give")
              /\ file' = [w \in Writers |-> file[w] \o Of(w, buf[flush.p].lines)]
              /\ buf' = [buf EXCEPT ![flush.p] = [lines |-> <<>>, state |-> "FREE"]]
              /\ UNCHANGED <<map, flushq, freeq, poolVars, th, start, close, dropped>>

FlushGive == /\ flush.pc = "give" /\ FreeMtxFree
             /\ freeq' = Append(freeq, flush.p)
             /\ flush' = [pc |-> "test", p |-> None]
             /\ UNCHANGED <<map, buf, flushq, poolVars, th, start, file, close, dropped>>

FlushNext == FlushStart \/ FlushTest \/ FlushWait \/ FlushWrite \/ FlushGive

-----------------------------------------------------------------------------
(* The end of the program: ~Logger, when no thread is in Append.           *)

Close == /\ close.pc = "alive"
         /\ \A w \in Writers : At(w, "idle")
         /\ close' = [pc |-> "pushing", unpushed |-> {w \in Writers : map[w] # None}]
         /\ UNCHANGED <<map, buf, flushq, freeq, poolVars, th, flush, start, file, dropped>>

ClosePush(w) == /\ close.pc = "pushing" /\ w \in close.unpushed
                /\ buf' = [buf EXCEPT ![map[w]].state = "FLUSH"]
                /\ Queue(map[w])
                /\ close' = [close EXCEPT !.unpushed = @ \ {w}]
                /\ UNCHANGED <<map, freeq, poolVars, th, flush, start, file, dropped>>

\* notify_one and start = false, without flushmtx.
CloseStop == /\ close = [pc |-> "pushing", unpushed |-> {}]
             /\ NotifyOne
             /\ start' = FALSE
             /\ close' = [close EXCEPT !.pc = "notify"]
             /\ UNCHANGED <<map, buf, flushq, freeq, poolVars, th, file, dropped>>

CloseNotify == /\ close.pc = "notify"
               /\ NotifyOne
               /\ close' = [close EXCEPT !.pc = "join"]
               /\ UNCHANGED <<map, buf, flushq, freeq, poolVars, th, start, file, dropped>>

CloseJoin == /\ close.pc = "join" /\ flush.pc = "exited"
             /\ flushq' = <<>> /\ freeq' = <<>>
             /\ close' = [close EXCEPT !.pc = "deleted"]
             /\ UNCHANGED <<map, buf, poolVars, th, flush, start, file, dropped>>

CloseStep == CloseStop \/ CloseNotify \/ CloseJoin \/ \E w \in Writers : ClosePush(w)

Next == \/ \E w \in Writers : Lookup(w) \/ WriterStep(w)
        \/ FlushNext
        \/ Close \/ CloseStep

Spec == Init /\ [][Next]_vars

-----------------------------------------------------------------------------
(* Properties                                                              *)

\* The flush thread, apart from a spurious wake-up, Append and a destructor
\* that runs go on whenever they can; a mutex is held for a bounded time.
FairSpec == /\ Spec
            /\ WF_vars(FlushNext /\ flush.pc # "blocked")
            /\ WF_vars(CloseStep)
            /\ \A w \in Writers : WF_vars(WriterStep(w))

\* The buffer that w alone may touch: between notify_one and the next buffer
\* it has none.
Owned(w) == CASE th[w].pc \in {"notify", "replace"} -> {}
              [] At(w, "idle") -> IF close.pc = "alive" \/ w \in close.unpushed
                                  THEN {map[w]} \ {None} ELSE {}
              [] OTHER -> {th[w].cur}

Places(b, q) == Cardinality({i \in DOMAIN q : q[i] = b})

\* Until a line is dropped, every buffer is in one place only: with one
\* thread that logs, in the flush queue, in the flush thread's hand or on the
\* free list (Append, Flush and ~Logger hand it from one to the next, each
\* under another mutex).
OnePlace ==
  ~dropped /\ close.pc # "deleted" =>
    \A b \in 1..made :
      Cardinality({w \in Writers : b \in Owned(w)}) + Places(b, flushq) + Places(b, freeq)
        + (IF b = flush.p THEN 1 ELSE 0) = 1

\* The buffers whose lines are not yet in the file, in the order in which the
\* flush thread will meet them, and the buffer of w last.
Ahead(w) == (IF flush.p = None THEN <<>> ELSE <<flush.p>>) \o flushq \o SetToSeq(Owned(w))

\* How many lines w has stored: all but the one that Append is about.
Stored(w) == IF th[w].pc \in {"idle", "update"} THEN th[w].count ELSE th[w].count - 1

\* Until a line is dropped, the lines of a thread are in the file, then in
\* the buffers on the way to the file, then in its own buffer, each once and
\* in the order in which they were logged.
LinesInOrder ==
  ~dropped => \A w \in Writers :
    LET ahead == Ahead(w)
        waiting == FlattenSeq([i \in DOMAIN ahead |-> Of(w, buf[ahead[i]].lines)])
    IN file[w] \o waiting = [i \in 1..Stored(w) |-> i]

\* Append loses a line only when as many buffers as the limit allows exist
\* (the memory limit of Append, and its silent branch for a buffer in FLUSH).
DropsAtLimit == dropped => made >= Limit

\* When the destructor has joined the flush thread, every line that was not
\* dropped at the limit is in the file.
ClosedHasAll ==
  close.pc = "deleted" /\ ~dropped =>
    \A w \in Writers : file[w] = [i \in 1..th[w].count |-> i]

\* A buffer that is in the flush queue is written and free again in the end:
\* notify_one is never lost while Append pushes under flushmtx.
QueuedIsWritten ==
  \A b \in Bufs : (\E i \in DOMAIN flushq : flushq[i] = b) ~> (buf[b].state = "FREE")

\* "Every thread has its own write buffer" (library/log/README.md): no buffer
\* is at any time the one that Append would use for two threads.
EachThreadOwnsItsBuffer ==
  \A w, v \in Writers : w # v => Owned(w) \cap Owned(v) = {}
=============================================================================
