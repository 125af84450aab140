----------------------------- MODULE WatcherProofs -----------------------------
(***************************************************************************)
(* The watcher's callback has the last word of the disk on every file when *)
(* nothing is on its way, and a loop that was cancelled leaves nothing     *)
(* pending, whatever the files and however events, timers and drains       *)
(* interleave with the writes.                                             *)
(***************************************************************************)
EXTENDS Watcher, TLAPS, SequenceTheorems

-------------------------------------------------------------------------------
(***************************************************************************)
(* The invariant.                                                          *)
(***************************************************************************)
FileEvents == [op : {"write", "remove"}, file : Files]

DirEvents == [op : {"create"}, dir : Dirs]

Told == FileEvents \cup DirEvents

\* The loop holds an event exactly while it handles one.
LoopOK ==
  /\ queue \in Seq(Told)
  /\ IF loop = "event" THEN event \in Told ELSE event = NoEvent

\* A drain takes its files from what is pending, which nobody adds to while it
\* holds the lock.
DrainOK ==
  \/ drain = NoDrain
  \/ /\ drain \in [by : {"loop", "timer"}, left : SUBSET pending,
                   file : pending \cup {NoFile}]
     /\ drain.by = "loop" => loop = "draining"

StateOK ==
  /\ disk \in [Files -> Contents \cup {Absent}]
  /\ DOMAIN reported = Files
  /\ pending \subseteq Files
  /\ closed => watched = {}

\* The callback was told of the content, or never will be.
Current(f) == disk[f] \in TooLarge \/ reported[f] = disk[f]

InQueue(f) ==
  \E i \in DOMAIN queue : queue[i] \in FileEvents /\ queue[i].file = f

InEvent(f) == event \in FileEvents /\ event.file = f

\* A drain that has begun will still look at the file, or read it.
InDrain(f) ==
  \/ f \in drain.left
  \/ drain.file = f /\ disk[f] # Absent

\* Where the news of a file is: with the callback, on its way to what is
\* pending, pending, or in the hands of the drain.  A file that went away
\* between the two looks of a drain has an event behind it.
NewsOf(f) ==
  \/ Current(f)
  \/ InQueue(f)
  \/ InEvent(f)
  \/ drain = NoDrain /\ f \in pending
  \/ drain # NoDrain /\ InDrain(f)

NewsOK == \A f \in Files \ missed : NewsOf(f)

IInv == LoopOK /\ DrainOK /\ StateOK /\ NewsOK

-------------------------------------------------------------------------------
(***************************************************************************)
(* The initial state, and what fsnotify does to the queue.                 *)
(***************************************************************************)
LEMMA InitNews == Init => IInv
<1> SUFFICES ASSUME Init PROVE IInv
  OBVIOUS
<1>1. LoopOK
  BY DEF Init, LoopOK
<1>2. DrainOK /\ StateOK
  BY WatcherAssumption DEF Init, DrainOK, StateOK
<1>3. NewsOK
  BY DEF Init, NewsOK, NewsOf, Current
<1> QED
  BY <1>1, <1>2, <1>3 DEF IInv

\* What is queued stays queued, and so is what is told of a watched directory.
LEMMA Telling ==
  ASSUME queue \in Seq(Told), closed => watched = {},
         NEW dir, NEW told \in Told, Tell(dir, told)
  PROVE  /\ queue' \in Seq(Told)
         /\ \A i \in DOMAIN queue : i \in DOMAIN queue' /\ queue'[i] = queue[i]
         /\ dir \in watched => \E i \in DOMAIN queue' : queue'[i] = told
<1>1. CASE dir \in watched
  <2>1. queue' = Append(queue, told)
    BY <1>1 DEF Tell
  <2>2. /\ queue' \in Seq(Told)
        /\ Len(queue') = Len(queue) + 1
        /\ \A i \in 1 .. Len(queue) : queue'[i] = queue[i]
        /\ queue'[Len(queue) + 1] = told
    BY <2>1, AppendProperties
  <2>3. Len(queue) \in Nat
    OBVIOUS
  <2>4. DOMAIN queue = 1 .. Len(queue) /\ DOMAIN queue' = 1 .. Len(queue) + 1
    BY <2>2
  <2> QED
    BY <2>2, <2>3, <2>4
<1>2. CASE dir \notin watched
  BY <1>2 DEF Tell
<1> QED
  BY <1>1, <1>2

\* The news of a file that a step does not change: it is where it was.
LEMMA SameNews ==
  ASSUME NEW f, NewsOf(f), disk'[f] = disk[f], reported'[f] = reported[f],
         InQueue(f) => InQueue(f)', UNCHANGED <<event, pending, drain>>
  PROVE  NewsOf(f)'
BY DEF NewsOf, Current, InEvent, InDrain

-------------------------------------------------------------------------------
(***************************************************************************)
(* The steps of the disk and of the session.                               *)
(***************************************************************************)
LEMMA ChangeKeepsNews ==
  ASSUME IInv, NEW f \in Files, NEW c \in Contents \cup {Absent},
         ChangeFile(f, c)
  PROVE  IInv'
<1> USE DEF IInv
<1> DEFINE told == [op |-> IF c = Absent THEN "remove" ELSE "write", file |-> f]
<1>1. told \in FileEvents
  BY DEF FileEvents
<1>2. Tell(DirOf[f], told) /\ told \in Told
  BY <1>1 DEF ChangeFile, Told
<1>3. /\ queue' \in Seq(Told)
      /\ \A i \in DOMAIN queue : i \in DOMAIN queue' /\ queue'[i] = queue[i]
      /\ DirOf[f] \in watched => \E i \in DOMAIN queue' : queue'[i] = told
  BY <1>2, Telling DEF LoopOK, StateOK
<1>4. /\ disk' = [disk EXCEPT ![f] = c]
      /\ missed' = IF DirOf[f] \in watched THEN missed \ {f}
                                           ELSE missed \cup {f}
      /\ UNCHANGED <<signals, timers, watched, loop, event, pending, drain,
                     reported>>
  BY DEF ChangeFile
<1>5. LoopOK' /\ DrainOK' /\ StateOK'
  BY <1>3, <1>4 DEF LoopOK, DrainOK, StateOK, signals
<1>6. ASSUME NEW g \in Files \ missed'
      PROVE  NewsOf(g)'
  <2>1. CASE g = f
    <3>1. InQueue(f)'
      BY <1>1, <1>3, <1>4, <1>6, <2>1 DEF InQueue
    <3> QED
      BY <2>1, <3>1 DEF NewsOf
  <2>2. CASE g # f
    <3>1. g \in Files \ missed /\ disk'[g] = disk[g]
      BY <1>4, <1>6, <2>2 DEF StateOK
    <3>2. InQueue(g) => InQueue(g)'
      BY <1>3 DEF InQueue
    <3> QED
      BY <1>4, <3>1, <3>2, SameNews DEF NewsOK
  <2> QED
    BY <2>1, <2>2
<1> QED
  BY <1>5, <1>6 DEF NewsOK

LEMMA DirKeepsNews ==
  ASSUME IInv, NEW d \in Dirs, CreateDir(d)
  PROVE  IInv'
<1> USE DEF IInv
<1> DEFINE told == [op |-> "create", dir |-> d]
<1>1. told \in Told /\ Tell(Parent[d], told)
  BY DEF Told, DirEvents, CreateDir
<1>2. /\ queue' \in Seq(Told)
      /\ \A i \in DOMAIN queue : i \in DOMAIN queue' /\ queue'[i] = queue[i]
  BY <1>1, Telling DEF LoopOK, StateOK
<1>3. UNCHANGED <<disk, signals, timers, watched, loop, event, pending, drain,
                  reported, missed>>
  BY DEF CreateDir
<1>4. LoopOK' /\ DrainOK' /\ StateOK'
  BY <1>2, <1>3 DEF LoopOK, DrainOK, StateOK, signals
<1>5. \A g : InQueue(g) => InQueue(g)'
  BY <1>2 DEF InQueue
<1>6. NewsOK'
  BY <1>3, <1>5, SameNews DEF NewsOK
<1> QED
  BY <1>4, <1>6

\* What is still queued when the watcher is closed is missed.
LEMMA CloseKeepsNews ==
  ASSUME IInv, Close
  PROVE  IInv'
<1> USE DEF IInv
<1>1. /\ queue' = <<>> /\ watched' = {}
      /\ missed' = missed \cup {queue[i].file : i \in {j \in DOMAIN queue :
                                                  queue[j].op # "create"}}
      /\ UNCHANGED <<disk, loop, event, pending, drain, reported>>
  BY DEF Close, world
<1>2. LoopOK' /\ DrainOK' /\ StateOK'
  BY <1>1 DEF LoopOK, DrainOK, StateOK
<1>3. \A g : InQueue(g) => g \in missed'
  BY <1>1 DEF InQueue, FileEvents
<1>4. NewsOK'
  BY <1>1, <1>3, SameNews DEF NewsOK
<1> QED
  BY <1>2, <1>4

-------------------------------------------------------------------------------
(***************************************************************************)
(* The steps of the loop.                                                  *)
(***************************************************************************)

\* The head of the queue goes to the loop.
LEMMA TakeKeepsNews ==
  ASSUME IInv, TakeEvent
  PROVE  IInv'
<1> USE DEF IInv
<1>1. /\ loop = "select" /\ queue # <<>>
      /\ event' = Head(queue) /\ queue' = Tail(queue) /\ loop' = "event"
      /\ UNCHANGED <<disk, signals, timers, watched, pending, drain, reported,
                     missed>>
  BY DEF TakeEvent, world
<1>2. queue \in Seq(Told) /\ event = NoEvent
  BY <1>1 DEF LoopOK
<1>3. /\ Head(queue) \in Told /\ Tail(queue) \in Seq(Told)
      /\ Len(Tail(queue)) = Len(queue) - 1
      /\ \A i \in 1 .. Len(queue) - 1 : Tail(queue)[i] = queue[i + 1]
      /\ Head(queue) = queue[1]
  BY <1>1, <1>2, HeadTailProperties
<1>4. LoopOK' /\ DrainOK' /\ StateOK'
  BY <1>1, <1>3 DEF LoopOK, DrainOK, StateOK, signals
<1>5. ASSUME NEW g, InQueue(g)
      PROVE  InQueue(g)' \/ InEvent(g)'
  <2>1. PICK i \in DOMAIN queue : queue[i] \in FileEvents /\ queue[i].file = g
    BY <1>5 DEF InQueue
  <2>2. CASE i = 1
    BY <1>1, <1>3, <2>1, <2>2 DEF InEvent
  <2>3. CASE i # 1
    <3>1. i - 1 \in 1 .. Len(queue) - 1 /\ (i - 1) + 1 = i
      BY <1>2, <2>1, <2>3
    <3>2. i - 1 \in DOMAIN queue' /\ queue'[i - 1] = queue[i]
      BY <1>1, <1>3, <3>1
    <3> QED
      BY <2>1, <3>2 DEF InQueue
  <2> QED
    BY <2>2, <2>3
<1>6. \A g : ~InEvent(g)
  BY <1>2 DEF InEvent, FileEvents, NoEvent
<1>7. ASSUME NEW g \in Files \ missed'
      PROVE  NewsOf(g)'
  <2>1. NewsOf(g)
    BY <1>1, <1>7 DEF NewsOK
  <2> QED
    BY <1>1, <1>5, <1>6, <2>1 DEF NewsOf, Current, InDrain
<1> QED
  BY <1>4, <1>7 DEF NewsOK

\* A path that becomes pending is no event any more.
LEMMA AddKeepsNews ==
  ASSUME IInv, AddPending
  PROVE  IInv'
<1> USE DEF IInv
<1>1. /\ loop = "event" /\ event.op \in {"write", "remove"} /\ drain = NoDrain
      /\ pending' = pending \cup {event.file}
      /\ loop' = "select" /\ event' = NoEvent
      /\ UNCHANGED <<disk, signals, watched, queue, drain, reported, missed>>
  BY DEF AddPending, Unlocked, world
<1>2. event \in FileEvents
  BY <1>1 DEF LoopOK, Told, FileEvents, DirEvents
<1>3. LoopOK' /\ DrainOK' /\ StateOK'
  BY <1>1, <1>2 DEF LoopOK, DrainOK, StateOK, signals, FileEvents
<1>4. \A g \in Files : NewsOf(g) => NewsOf(g)'
  BY <1>1 DEF NewsOf, Current, InQueue, InEvent
<1> QED
  BY <1>1, <1>3, <1>4 DEF NewsOK

LEMMA DirectoryKeepsNews ==
  ASSUME IInv, AddDirectory
  PROVE  IInv'
<1> USE DEF IInv
<1>1. /\ loop = "event" /\ event.op = "create"
      /\ loop' = "select" /\ event' = NoEvent
      /\ closed => watched' = watched
      /\ UNCHANGED <<disk, signals, queue, pending, drain, reported, missed>>
  BY DEF AddDirectory, world
<1>2. LoopOK' /\ DrainOK' /\ StateOK'
  BY <1>1 DEF LoopOK, DrainOK, StateOK, signals
<1>3. \A g : ~InEvent(g)
  BY <1>1 DEF InEvent, FileEvents
<1>4. \A g : NewsOf(g) => NewsOf(g)'
  BY <1>1, <1>3 DEF NewsOf, Current, InQueue, InDrain
<1> QED
  BY <1>1, <1>2, <1>4 DEF NewsOK

\* A drain that begins has all that is pending before it.
LEMMA BeginKeepsNews ==
  ASSUME IInv, NEW by \in {"loop", "timer"},
         drain = NoDrain, drain' = Drain(by),
         UNCHANGED <<disk, signals, watched, queue, event, pending, reported,
                     missed>>,
         \/ by = "loop" /\ loop = "last" /\ loop' = "draining"
         \/ by = "timer" /\ UNCHANGED loop
  PROVE  IInv'
<1> USE DEF IInv
<1>1. /\ drain' \in [by : {"loop", "timer"}, left : SUBSET pending,
                     file : pending \cup {NoFile}]
      /\ drain'.left = pending /\ drain'.by = by
  BY DEF Drain
<1>2. LoopOK' /\ DrainOK' /\ StateOK'
  <2>1. LoopOK' /\ StateOK'
    BY DEF LoopOK, StateOK, signals
  <2>2. drain'.by = "loop" => loop' = "draining"
    BY <1>1
  <2> QED
    BY <1>1, <2>1, <2>2 DEF DrainOK
<1>3. drain' # NoDrain
  BY <1>1 DEF NoDrain
<1>4. \A g : NewsOf(g) => NewsOf(g)'
  BY <1>1, <1>3 DEF NewsOf, Current, InQueue, InEvent, InDrain
<1> QED
  BY <1>2, <1>4 DEF NewsOK

LEMMA LoopKeepsNews ==
  ASSUME IInv, Loop \/ TimerFires \/ TimerDrain \/ Cancel
  PROVE  IInv'
<1>1. CASE LastDrain
  BY <1>1, BeginKeepsNews DEF LastDrain, Unlocked, world
<1>2. CASE TimerDrain
  BY <1>2, BeginKeepsNews DEF TimerDrain, Unlocked, world
<1>3. CASE StopTimer \/ EventsClosed \/ TimerFires \/ Cancel
  <2>1. /\ UNCHANGED <<disk, closed, watched, queue, event, pending, drain,
                       reported, missed>>
        /\ \/ loop' = loop
           \/ loop = "select" /\ loop' \in {"last", "done"}
    BY <1>3 DEF StopTimer, EventsClosed, TimerFires, Cancel, world, signals
  <2>2. LoopOK' /\ DrainOK' /\ StateOK'
    BY <2>1 DEF IInv, LoopOK, DrainOK, StateOK
  <2>3. \A g : InQueue(g) => InQueue(g)'
    BY <2>1 DEF InQueue
  <2>4. NewsOK'
    BY <2>1, <2>3, SameNews DEF IInv, NewsOK
  <2> QED
    BY <2>2, <2>4 DEF IInv
<1> QED
  BY <1>1, <1>2, <1>3, TakeKeepsNews, AddKeepsNews, DirectoryKeepsNews DEF Loop

-------------------------------------------------------------------------------
(***************************************************************************)
(* The steps of a drain.                                                   *)
(***************************************************************************)
LEMMA StatKeepsNews ==
  ASSUME IInv, StatFile
  PROVE  IInv'
<1> USE DEF IInv
<1>1. /\ drain # NoDrain /\ drain.file = NoFile
      /\ UNCHANGED <<disk, signals, watched, queue, loop, event, pending,
                     missed>>
  BY DEF StatFile, Unlocked, world
<1>2. PICK f \in drain.left :
        \/ /\ disk[f] = Absent
           /\ reported' = [reported EXCEPT ![f] = Absent]
           /\ drain' = [drain EXCEPT !.left = drain.left \ {f}]
        \/ /\ disk[f] \in TooLarge
           /\ drain' = [drain EXCEPT !.left = drain.left \ {f}]
           /\ UNCHANGED reported
        \/ /\ disk[f] \notin TooLarge \cup {Absent}
           /\ drain' = [drain EXCEPT !.left = drain.left \ {f}, !.file = f]
           /\ UNCHANGED reported
  BY DEF StatFile
<1>3. drain \in [by : {"loop", "timer"}, left : SUBSET pending,
                 file : pending \cup {NoFile}]
  BY <1>1 DEF DrainOK
<1>4. f \in pending /\ f \in Files
  BY <1>2, <1>3 DEF StateOK
<1>5. /\ drain' \in [by : {"loop", "timer"}, left : SUBSET pending,
                     file : pending \cup {NoFile}]
      /\ drain'.by = drain.by /\ drain'.left = drain.left \ {f}
      /\ drain'.file \in {NoFile, f}
      /\ drain'.file = NoFile => \/ disk[f] = Absent /\ reported'[f] = Absent
                                 \/ disk[f] \in TooLarge
      /\ \A g \in Files \ {f} : reported'[g] = reported[g]
      /\ DOMAIN reported' = Files
  <2>1. f # NoFile
    BY <1>4, WatcherAssumption
  <2> QED
    BY <1>1, <1>2, <1>3, <1>4, <2>1 DEF StateOK
<1>6. drain' # NoDrain
  BY <1>5 DEF NoDrain
<1>7. LoopOK' /\ DrainOK' /\ StateOK'
  BY <1>1, <1>5 DEF LoopOK, DrainOK, StateOK, signals
<1>8. NewsOf(f)'
  <2>1. CASE drain'.file = NoFile
    BY <1>1, <1>5, <2>1 DEF NewsOf, Current
  <2>2. CASE drain'.file = f /\ drain'.file # NoFile
    <3>1. disk[f] # Absent
      BY <1>2, <1>3, <1>1, <2>2
    <3> QED
      BY <1>1, <1>6, <2>2, <3>1 DEF NewsOf, InDrain
  <2> QED
    BY <1>5, <2>1, <2>2
<1>9. ASSUME NEW g \in Files \ {f}, NewsOf(g)
      PROVE  NewsOf(g)'
  <2>1. g # NoFile /\ reported'[g] = reported[g]
    BY <1>5, WatcherAssumption
  <2> QED
    BY <1>1, <1>5, <1>6, <1>9, <2>1
       DEF NewsOf, Current, InQueue, InEvent, InDrain
<1> QED
  BY <1>1, <1>7, <1>8, <1>9 DEF NewsOK

LEMMA ReadKeepsNews ==
  ASSUME IInv, ReadFile
  PROVE  IInv'
<1> USE DEF IInv
<1> DEFINE f == drain.file
<1>1. /\ drain # NoDrain /\ f # NoFile
      /\ reported' = IF disk[f] = Absent THEN reported
                                         ELSE [reported EXCEPT ![f] = disk[f]]
      /\ drain' = [drain EXCEPT !.file = NoFile]
      /\ UNCHANGED <<disk, signals, watched, queue, loop, event, pending,
                     missed>>
  BY DEF ReadFile, Unlocked, world
<1>2. drain \in [by : {"loop", "timer"}, left : SUBSET pending,
                 file : pending \cup {NoFile}]
  BY <1>1 DEF DrainOK
<1>3. /\ drain' \in [by : {"loop", "timer"}, left : SUBSET pending,
                     file : pending \cup {NoFile}]
      /\ drain'.by = drain.by /\ drain'.left = drain.left
      /\ f \in Files
  BY <1>1, <1>2 DEF StateOK
<1>4. drain' # NoDrain
  BY <1>3 DEF NoDrain
<1>5. LoopOK' /\ DrainOK' /\ StateOK'
  BY <1>1, <1>3 DEF LoopOK, DrainOK, StateOK, signals
<1> HIDE DEF f
<1>6. ASSUME NEW g \in Files, NewsOf(g)
      PROVE  NewsOf(g)'
  <2>1. CASE g = f /\ disk[f] # Absent
    BY <1>1, <1>3, <2>1 DEF NewsOf, Current, StateOK
  <2>2. CASE ~ (g = f /\ disk[f] # Absent)
    <3>1. reported'[g] = reported[g]
      BY <1>1, <1>3, <1>6, <2>2 DEF StateOK
    <3> QED
      BY <1>1, <1>3, <1>4, <1>6, <2>2, <3>1
         DEF NewsOf, Current, InQueue, InEvent, InDrain, f
  <2> QED
    BY <2>1, <2>2
<1> QED
  BY <1>1, <1>5, <1>6 DEF NewsOK

LEMMA EndKeepsNews ==
  ASSUME IInv, DrainEnds
  PROVE  IInv'
<1> USE DEF IInv
<1>1. /\ drain # NoDrain /\ drain.file = NoFile /\ drain.left = {}
      /\ pending' = {} /\ drain' = NoDrain
      /\ loop' = IF drain.by = "loop" THEN "done" ELSE loop
      /\ UNCHANGED <<disk, signals, watched, queue, event, reported, missed>>
  BY DEF DrainEnds, Unlocked, world
<1>2. DrainOK' /\ StateOK'
  BY <1>1 DEF DrainOK, StateOK, signals
<1>3. \A g \in Files : NewsOf(g) => NewsOf(g)'
  BY <1>1, WatcherAssumption DEF NewsOf, Current, InQueue, InEvent, InDrain
<1>4. drain.by = "loop" => loop = "draining"
  BY <1>1 DEF DrainOK
<1>5. LoopOK'
  BY <1>1, <1>4 DEF LoopOK
<1> QED
  BY <1>1, <1>2, <1>3, <1>5 DEF NewsOK

-------------------------------------------------------------------------------
LEMMA StepNews == IInv /\ [Next]_vars => IInv'
<1>1. ASSUME IInv, UNCHANGED vars PROVE IInv'
  <2>1. /\ UNCHANGED <<disk, closed, watched, queue, loop, event, pending,
                       drain, reported, missed>>
    BY <1>1 DEF vars, world, signals
  <2>2. LoopOK' /\ DrainOK' /\ StateOK'
    BY <1>1, <2>1 DEF IInv, LoopOK, DrainOK, StateOK
  <2>3. NewsOK'
    BY <1>1, <2>1, SameNews DEF IInv, NewsOK, InQueue
  <2> QED
    BY <2>2, <2>3 DEF IInv
<1>2. ASSUME IInv, Next PROVE IInv'
  <2>1. CASE World
    BY <1>2, <2>1, ChangeKeepsNews, DirKeepsNews, CloseKeepsNews, LoopKeepsNews
       DEF World
  <2>2. CASE Loop \/ TimerFires
    BY <1>2, <2>2, LoopKeepsNews
  <2>3. CASE Draining
    BY <1>2, <2>3, LoopKeepsNews, StatKeepsNews, ReadKeepsNews, EndKeepsNews
       DEF Draining
  <2> QED
    BY <1>2, <2>1, <2>2, <2>3 DEF Next
<1> QED
  BY <1>1, <1>2

\* FR-34: every change the watcher can see reaches the callback.  No event is
\* lost between the queue, the pending paths and a drain that other events and
\* writes overtake; not even one of a file that goes away between the two looks
\* of a drain.
THEOREM ReportsFollow == Spec => []ReportsFollowDisk
<1>1. IInv => ReportsFollowDisk
  <2> SUFFICES ASSUME IInv, queue = <<>>, event = NoEvent, pending = {},
                      NEW f \in Files \ missed
               PROVE  Current(f)
    BY DEF ReportsFollowDisk, Current
  <2>1. ~InQueue(f) /\ ~InEvent(f)
    BY DEF InQueue, InEvent, FileEvents, NoEvent
  <2>2. drain # NoDrain => drain.left = {} /\ drain.file = NoFile
    BY DEF IInv, DrainOK
  <2> QED
    BY <2>1, <2>2, WatcherAssumption DEF IInv, NewsOK, NewsOf, InDrain
<1> QED
  BY <1>1, InitNews, StepNews, PTL DEF Spec

-------------------------------------------------------------------------------
\* sync.go, the end of the loop: after its last drain nothing is pending, as a
\* timer that fired late only drains and nobody adds any more.
THEOREM NothingIsLeft == Spec => []NothingLeftPending
<1>1. Init => NothingLeftPending
  BY DEF Init, NothingLeftPending
<1>2. NothingLeftPending /\ [Next]_vars => NothingLeftPending'
  <2> SUFFICES ASSUME NothingLeftPending, [Next]_vars, loop' = "done", ~closed'
               PROVE  pending' = {}
    BY DEF NothingLeftPending
  <2> USE DEF NothingLeftPending
  <2>1. CASE UNCHANGED vars
    BY <2>1 DEF vars, signals
  <2>2. CASE World
    BY <2>2 DEF World, Cancel, Close, ChangeFile, CreateDir, signals
  <2>3. CASE Loop
    BY <2>3 DEF Loop, TakeEvent, AddDirectory, AddPending, StopTimer, LastDrain,
                EventsClosed, signals
  <2>4. CASE TimerFires \/ TimerDrain \/ StatFile \/ ReadFile
    BY <2>4 DEF TimerFires, TimerDrain, StatFile, ReadFile, signals
  <2>5. CASE DrainEnds
    BY <2>5 DEF DrainEnds
  <2> QED
    BY <2>1, <2>2, <2>3, <2>4, <2>5 DEF Next, Draining
<1> QED
  BY <1>1, <1>2, PTL DEF Spec
===============================================================================
