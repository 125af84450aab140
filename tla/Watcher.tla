-------------------------------- MODULE Watcher --------------------------------
(***************************************************************************)
(* The file-system watcher (internal/document/sync.go): an event loop that  *)
(* collects the paths that changed, a debounce timer that every event       *)
(* starts anew, and the drain that analyzes them, run by the goroutine of a *)
(* timer that fired or by the loop when it ends, under pendingMu.           *)
(*                                                                         *)
(* fsnotify is external: it queues an event for every change in a watched   *)
(* directory, in order, and loses none until it is closed.  Directories are *)
(* created but not removed; a chmod, and a file of another extension, come  *)
(* to nothing and are left out.                                            *)
(***************************************************************************)
EXTENDS Integers, Sequences, FiniteSetsExt

CONSTANTS
  Files,     \* files of an indexed extension
  Dirs,      \* the directories they are in
  DirOf,     \* DirOf[f]: the directory of the file f
  Parent,    \* Parent[d]: the directory d is created in
  Existing,  \* the directories there are when the watcher starts
  Excluded,  \* the excluded directories
  Contents,  \* what a file may hold
  TooLarge,  \* contents longer than workspace.max_file_size
  Absent,    \* no file, and the nil content that reports it
  MaxWrites  \* bound: changes of the disk

NoFile == "none"

ASSUME WatcherAssumption ==
  /\ NoFile \notin Files
  /\ DirOf \in [Files -> Dirs]
  /\ Parent \in [Dirs -> Dirs]
  /\ Existing \subseteq Dirs
  /\ Excluded \subseteq Dirs
  /\ TooLarge \subseteq Contents
  /\ Absent \notin Contents
  /\ MaxWrites \in Nat

VARIABLES
  disk,      \* the files
  dirs,      \* the directories
  watched,   \* the directories added to fsnotify
  queue,     \* fsw.Events
  loop,      \* where the event loop is
  event,     \* the event the loop has taken
  pending,   \* pendingPaths
  armed,     \* debounceTimer is running
  fired,     \* goroutines of timers that fired, waiting for pendingMu
  drain,     \* the drain that holds pendingMu
  reported,  \* the last content analyze was called with
  cancelled, \* ctx is cancelled
  closed,    \* the fsnotify watcher is closed
  missed,    \* history: files that changed out of the watcher's sight
  writes     \* bound: changes of the disk so far

world == <<disk, dirs, writes>>
signals == <<cancelled, closed>>
timers == <<armed, fired>>
vars == <<world, signals, timers, watched, queue, loop, event, pending, drain,
          reported, missed>>

NoEvent == [op |-> "none"]

NoDrain == [by |-> "nobody"]

Drain(by) == [by |-> by, left |-> pending, file |-> NoFile]

Unlocked == drain = NoDrain

-------------------------------------------------------------------------------
(***************************************************************************)
(* The disk, and what fsnotify tells of it.                                *)
(***************************************************************************)

\* A change in a directory that is watched is queued; one in a directory that
\* will be watched later goes unseen.
Tell(dir, told) ==
  queue' = IF dir \in watched /\ ~closed THEN Append(queue, told) ELSE queue

\* A write, a deletion, or a rename (a deletion and a write of another file).
ChangeFile(f, c) ==
  /\ writes < MaxWrites
  /\ DirOf[f] \in dirs /\ c # disk[f]
  /\ disk' = [disk EXCEPT ![f] = c]
  /\ Tell(DirOf[f], [op |-> IF c = Absent THEN "remove" ELSE "write",
                     file |-> f])
  /\ missed' = IF DirOf[f] \in watched THEN missed \ {f} ELSE missed \cup {f}
  /\ writes' = writes + 1
  /\ UNCHANGED <<dirs, signals, timers, watched, loop, event, pending, drain,
                 reported>>

CreateDir(d) ==
  /\ writes < MaxWrites
  /\ d \notin dirs /\ Parent[d] \in dirs
  /\ dirs' = dirs \cup {d}
  /\ Tell(Parent[d], [op |-> "create", dir |-> d])
  /\ writes' = writes + 1
  /\ UNCHANGED <<disk, signals, timers, watched, loop, event, pending, drain,
                 reported, missed>>

-------------------------------------------------------------------------------
(***************************************************************************)
(* The event loop.                                                         *)
(***************************************************************************)
TakeEvent ==
  /\ loop = "select" /\ queue # <<>>
  /\ event' = Head(queue)
  /\ queue' = Tail(queue)
  /\ loop' = "event"
  /\ UNCHANGED <<world, signals, timers, watched, pending, drain, reported,
                 missed>>

\* A directory that was created is watched from now on, itself and not what is
\* in it already.
AddDirectory ==
  /\ loop = "event" /\ event.op = "create"
  /\ watched' = IF event.dir \in Excluded \/ closed
                  THEN watched ELSE watched \cup {event.dir}
  /\ loop' = "select"
  /\ event' = NoEvent
  /\ UNCHANGED <<world, signals, timers, queue, pending, drain, reported,
                 missed>>

\* Bugs AddPending could have: a removal is not news; a timer that runs is
\* stopped and not started again.
AddWritten ==
  /\ loop = "event" /\ event.op \in {"write", "remove"} /\ Unlocked
  /\ pending' = pending \cup (IF event.op = "write" THEN {event.file} ELSE {})
  /\ armed' = TRUE
  /\ loop' = "select"
  /\ event' = NoEvent
  /\ UNCHANGED <<world, signals, fired, watched, queue, drain, reported,
                 missed>>

AddAndStop ==
  /\ loop = "event" /\ event.op \in {"write", "remove"} /\ Unlocked
  /\ pending' = pending \cup {event.file}
  /\ armed' = ~armed
  /\ loop' = "select"
  /\ event' = NoEvent
  /\ UNCHANGED <<world, signals, fired, watched, queue, drain, reported,
                 missed>>

\* The path is pending, and the timer starts anew; one that fired already runs
\* its drain all the same.
AddPending ==
  /\ loop = "event" /\ event.op \in {"write", "remove"} /\ Unlocked
  /\ pending' = pending \cup {event.file}
  /\ armed' = TRUE
  /\ loop' = "select"
  /\ event' = NoEvent
  /\ UNCHANGED <<world, signals, fired, watched, queue, drain, reported,
                 missed>>

\* A bug StopTimer could have: the loop returns at once.
StopAndReturn ==
  /\ loop = "select" /\ cancelled /\ Unlocked
  /\ armed' = FALSE
  /\ loop' = "done"
  /\ UNCHANGED <<world, signals, fired, watched, queue, event, pending, drain,
                 reported, missed>>

\* The context is done: the timer is stopped ...
StopTimer ==
  /\ loop = "select" /\ cancelled /\ Unlocked
  /\ armed' = FALSE
  /\ loop' = "last"
  /\ UNCHANGED <<world, signals, fired, watched, queue, event, pending, drain,
                 reported, missed>>

\* ... and what is pending is drained, the lock having been free in between.
LastDrain ==
  /\ loop = "last" /\ Unlocked
  /\ drain' = Drain("loop")
  /\ loop' = "draining"
  /\ UNCHANGED <<world, signals, timers, watched, queue, event, pending,
                 reported, missed>>

\* The channel of events is closed: the loop returns, whatever is pending.
EventsClosed ==
  /\ loop = "select" /\ closed /\ queue = <<>>
  /\ loop' = "done"
  /\ UNCHANGED <<world, signals, timers, watched, queue, event, pending, drain,
                 reported, missed>>

-------------------------------------------------------------------------------
(***************************************************************************)
(* The timer and the drain.                                                *)
(***************************************************************************)
TimerFires ==
  /\ armed
  /\ armed' = FALSE
  /\ fired' = fired + 1
  /\ UNCHANGED <<world, signals, watched, queue, loop, event, pending, drain,
                 reported, missed>>

TimerDrain ==
  /\ fired > 0 /\ Unlocked
  /\ fired' = fired - 1
  /\ drain' = Drain("timer")
  /\ UNCHANGED <<world, signals, armed, watched, queue, loop, event, pending,
                 reported, missed>>

\* One path, in the order of a Go map: gone, too large, or still to be read.
StatFile ==
  /\ ~Unlocked /\ drain.file = NoFile
  /\ \E f \in drain.left :
       \/ /\ disk[f] = Absent
          /\ reported' = [reported EXCEPT ![f] = Absent]
          /\ drain' = [drain EXCEPT !.left = drain.left \ {f}]
       \/ /\ disk[f] \in TooLarge
          /\ drain' = [drain EXCEPT !.left = drain.left \ {f}]
          /\ UNCHANGED reported
       \/ /\ disk[f] \notin TooLarge \cup {Absent}
          /\ drain' = [drain EXCEPT !.left = drain.left \ {f}, !.file = f]
          /\ UNCHANGED reported
  /\ UNCHANGED <<world, signals, timers, watched, queue, loop, event, pending,
                 missed>>

\* A file that went away since is not reported: its removal will be.
ReadFile ==
  /\ ~Unlocked /\ drain.file # NoFile
  /\ reported' = IF disk[drain.file] = Absent
                   THEN reported
                   ELSE [reported EXCEPT ![drain.file] = disk[drain.file]]
  /\ drain' = [drain EXCEPT !.file = NoFile]
  /\ UNCHANGED <<world, signals, timers, watched, queue, loop, event, pending,
                 missed>>

DrainEnds ==
  /\ ~Unlocked /\ drain.file = NoFile /\ drain.left = {}
  /\ pending' = {}
  /\ drain' = NoDrain
  /\ loop' = IF drain.by = "loop" THEN "done" ELSE loop
  /\ UNCHANGED <<world, signals, timers, watched, queue, event, reported,
                 missed>>

-------------------------------------------------------------------------------
(***************************************************************************)
(* The end of the session: the server cancels the context first.           *)
(***************************************************************************)
Cancel ==
  /\ ~cancelled
  /\ cancelled' = TRUE
  /\ UNCHANGED <<world, closed, timers, watched, queue, loop, event, pending,
                 drain, reported, missed>>

Close ==
  /\ cancelled /\ ~closed
  /\ closed' = TRUE
  /\ queue' = <<>>
  /\ watched' = {}
  /\ missed' = missed \cup
                 {queue[i].file : i \in {j \in DOMAIN queue :
                                           queue[j].op # "create"}}
  /\ UNCHANGED <<world, cancelled, timers, loop, event, pending, drain,
                 reported>>

-------------------------------------------------------------------------------
Init ==
  /\ disk \in [Files -> Contents \cup {Absent}]
  /\ \A f \in Files : DirOf[f] \notin Existing => disk[f] = Absent
  /\ dirs = Existing
  /\ watched = Existing \ Excluded
  /\ queue = <<>>
  /\ loop = "select"
  /\ event = NoEvent
  /\ pending = {}
  /\ armed = FALSE
  /\ fired = 0
  /\ drain = NoDrain
  /\ reported = disk
  /\ cancelled = FALSE
  /\ closed = FALSE
  /\ missed = {}
  /\ writes = 0

World ==
  \/ Cancel \/ Close
  \/ \E f \in Files, c \in Contents \cup {Absent} : ChangeFile(f, c)
  \/ \E d \in Dirs : CreateDir(d)

Loop ==
  TakeEvent \/ AddDirectory \/ AddPending \/ StopTimer \/ LastDrain
    \/ EventsClosed

Draining == TimerDrain \/ StatFile \/ ReadFile \/ DrainEnds

Next == World \/ Loop \/ TimerFires \/ Draining

\* Goroutines run, and a timer that is not started anew goes off.
Spec ==
  Init /\ [][Next]_vars
       /\ WF_vars(Loop) /\ WF_vars(TimerFires) /\ WF_vars(Draining)

-------------------------------------------------------------------------------
(***************************************************************************)
(* Properties.                                                             *)
(***************************************************************************)
\* When nothing is on its way, the callback was last told of every file what
\* the disk has (FR-34), however events, timers, drains and writes interleave:
\* but for a file that is too large, and one that changed before its directory
\* was watched.
ReportsFollowDisk ==
  queue = <<>> /\ event = NoEvent /\ pending = {} =>
    \A f \in Files \ missed :
      disk[f] \in TooLarge \/ reported[f] = disk[f]

\* A loop that ends because its context is done has analyzed every path it
\* took, and no timer that fired late finds another.
NothingLeftPending == loop = "done" /\ ~closed => pending = {}

\* A path that is pending is analyzed: the timer that was stopped for a newer
\* event is always followed by one that fires, or by the last drain.
PendingIsDrained == \A f \in Files : f \in pending ~> f \notin pending
===============================================================================
