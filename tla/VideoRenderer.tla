---------------------------- MODULE VideoRenderer ----------------------------
(***************************************************************************)
(* One video renderer (src/src/lib/video/renderer.cpp) with the manager    *)
(* that creates and deletes it (src/src/lib/video/manager.cpp).  Three     *)
(* processes meet in the shared memory:                                    *)
(*   - the main thread starts, stops and deletes the renderer, and draws   *)
(*     the current frame;                                                  *)
(*   - the thread of Video::Manager runs timedEvents on every timer tick;  *)
(*   - the daemon writes frames, under the semaphore `mutex` of the shared *)
(*     memory.                                                             *)
(* The preview's renderer that previewRenderer creates stays in the main   *)
(* thread and has no concurrency to model.                                 *)
(***************************************************************************)
EXTENDS Integers

CONSTANTS
  MaxShm,    (* bound: shared memories the daemon creates, one per start   *)
  MaxGen,    (* bound: frames written into one of them                     *)
  MaxSize    (* bound: the largest frame                                   *)

ASSUME MaxShmAssumption  == MaxShm  \in Nat \ {0}
ASSUME MaxGenAssumption  == MaxGen  \in Nat \ {0}
ASSUME MaxSizeAssumption == MaxSize \in Nat \ {0}

VARIABLES
  alive,        (* m_lRenderers[id] holds the renderer                     *)
  isRendering,  (* m_isRendering                                           *)
  opened,       (* fd # -1                                                 *)
  area,         (* m_pShmArea: the shared memory it maps, or Unmapped      *)
  len,          (* m_ShmAreaLen, without the header                        *)
  bufferGen,    (* m_BufferGen                                             *)
  frameIdx,     (* m_FrameIdx                                              *)
  timer,        (* m_pTimer is active                                      *)
  pending,      (* a timeout waits in the event queue of the thread        *)
  ssMutex,      (* Manager::startStopMutex: "free", "main" or "render"     *)
  op,           (* what the main thread is doing                           *)
  drawing,      (* the frame the main thread reads, or Nothing             *)
  pc,           (* where the render thread is in renderToBitmap            *)
  held,         (* the memory whose semaphore it took and did not post     *)
  sem,          (* of each shared memory: its semaphore `mutex`,           *)
  notification, (* its semaphore `notification`,                           *)
  gen,          (* the frames written, m_BufferGen of the header,          *)
  size,         (* the size of the last one                                *)
  shmPath,      (* the one the daemon announced last (m_ShmPath)           *)
  writing,      (* the daemon holds its semaphore                          *)
  crashed       (* an access outside a mapping, or to the deleted object   *)

mainVars   == <<alive, isRendering, opened, timer, op, drawing>>
mapVars    == <<area, len>>
frameVars  == <<bufferGen, frameIdx>>
shmVars    == <<sem, notification, gen, size>>
daemonVars == <<shmPath, writing>>
vars == <<mainVars, mapVars, frameVars, pending, ssMutex, pc, held, shmVars,
          daemonVars, crashed>>

Shm      == 1..MaxShm
Unmapped == 0
Nothing  == 2
Op       == {"none", "start", "stop", "delete", "deleting", "other"}

(* The steps of renderToBitmap; those after "tryLock" hold startStopMutex. *)
Critical == {"compare", "wait", "relock", "resize", "remap", "resizeLock", "copy", "flip"}
PC       == {"idle", "shmLock", "tryLock"} \union Critical

(* sem_post and sem_trywait on the semaphore of a shared memory. *)
Free(p)  == sem[p] > 0
Post(p)  == sem' = [sem EXCEPT ![p] = @ + 1]
Take(p)  == sem' = [sem EXCEPT ![p] = @ - 1]

-----------------------------------------------------------------------------
(* The main thread.                                                        *)

MainIdle == ~crashed /\ op = "none" /\ drawing = Nothing

(* startedDecoding: the daemon made a new shared memory; the renderer is   *)
(* created, or told the new path.  Bounds: none is created while the slot  *)
(* of a deleted one still runs; the daemon first ends the frame it writes. *)
StartedDecoding ==
  /\ MainIdle
  /\ ~alive => pc = "idle"
  /\ shmPath < MaxShm /\ ~writing
  /\ shmPath' = shmPath + 1
  /\ op' = "start"
  /\ alive' = TRUE
  /\ IF alive THEN UNCHANGED <<isRendering, opened, mapVars, frameVars, timer>>
              ELSE /\ isRendering' = FALSE
                   /\ opened' = FALSE
                   /\ area' = Unmapped
                   /\ len' = 0
                   /\ bufferGen' = 0
                   /\ frameIdx' = 0
                   /\ timer' = FALSE
  /\ UNCHANGED <<drawing, pending, ssMutex, pc, held, shmVars, writing, crashed>>

(* stoppedDecoding, or a call that ends stopping its renderer, or another  *)
(* renderer being started or stopped: all take the one mutex.              *)
Begin(what) ==
  /\ MainIdle
  /\ what \in {"stop", "delete"} => alive
  /\ op' = what
  /\ UNCHANGED <<alive, isRendering, opened, timer, drawing, mapVars, frameVars,
                 pending, ssMutex, pc, held, shmVars, daemonVars, crashed>>

MainLock ==
  /\ ~crashed
  /\ op \in {"start", "stop", "delete", "other"}
  /\ ssMutex = "free"
  /\ ssMutex' = "main"
  /\ UNCHANGED <<mainVars, mapVars, frameVars, pending, pc, held, shmVars, daemonVars, crashed>>

(* startShm: refused while a memory is open; it may not open, and may not  *)
(* map.                                                                    *)
StartShm ==
  IF opened THEN UNCHANGED <<opened, mapVars>>
  ELSE \/ opened' = FALSE /\ UNCHANGED mapVars
       \/ opened' = TRUE /\ len' = 0 /\ area' \in {Unmapped, shmPath}

(* The rest of startRendering: the result of startShm is not looked at. *)
StartRendering ==
  /\ ~crashed
  /\ op = "start" /\ ssMutex = "main"
  /\ StartShm
  /\ timer' = TRUE
  /\ isRendering' = TRUE
  /\ ssMutex' = "free"
  /\ op' = "none"
  /\ UNCHANGED <<alive, drawing, frameVars, pending, pc, held, shmVars, daemonVars, crashed>>

StopShm ==
  /\ opened' = FALSE
  /\ area' = Unmapped
  /\ len' = 0

(* The rest of stopRendering. *)
StopRendering ==
  /\ ~crashed
  /\ op \in {"stop", "delete"} /\ ssMutex = "main"
  /\ isRendering' = FALSE
  /\ timer' = FALSE
  /\ StopShm
  /\ ssMutex' = "free"
  /\ op' = IF op = "stop" THEN "none" ELSE "deleting"
  /\ UNCHANGED <<alive, pending, drawing, frameVars, pc, held, shmVars, daemonVars, crashed>>

(* The end of stoppedDecoding: the object goes with its queued events; the *)
(* destructor calls stopShm again, outside the mutex.                      *)
DeleteRenderer ==
  /\ ~crashed
  /\ op = "deleting"
  /\ StopShm
  /\ alive' = FALSE
  /\ pending' = FALSE
  /\ op' = "none"
  /\ UNCHANGED <<isRendering, timer, drawing, frameVars, ssMutex, pc, held, shmVars,
                 daemonVars, crashed>>

OtherRenderer ==
  /\ ~crashed
  /\ op = "other" /\ ssMutex = "main"
  /\ ssMutex' = "free"
  /\ op' = "none"
  /\ UNCHANGED <<alive, isRendering, opened, timer, drawing, mapVars, frameVars,
                 pending, pc, held, shmVars, daemonVars, crashed>>

(* ThreadedPainter2::draw reads the current frame in place (currentFrame). *)
BeginDraw ==
  /\ MainIdle
  /\ alive /\ isRendering
  /\ drawing' = frameIdx
  /\ UNCHANGED <<alive, isRendering, opened, timer, op, mapVars, frameVars, pending,
                 ssMutex, pc, held, shmVars, daemonVars, crashed>>

EndDraw ==
  /\ ~crashed
  /\ drawing # Nothing
  /\ drawing' = Nothing
  /\ UNCHANGED <<alive, isRendering, opened, timer, op, mapVars, frameVars, pending,
                 ssMutex, pc, held, shmVars, daemonVars, crashed>>

(* The QTimer belongs to the main thread; its timeout is queued for the    *)
(* thread of the renderer.  Bound: one timeout in the queue.               *)
Timeout ==
  /\ MainIdle
  /\ timer /\ ~pending
  /\ pending' = TRUE
  /\ UNCHANGED <<mainVars, mapVars, frameVars, ssMutex, pc, held, shmVars, daemonVars, crashed>>

-----------------------------------------------------------------------------
(* The render thread: renderToBitmap, one access to shared state a step.   *)

KeepsMain == UNCHANGED <<mainVars, daemonVars>>

(* The slot starts, and returns when nothing is rendered. *)
TimedEvents ==
  /\ ~crashed
  /\ pc = "idle" /\ pending
  /\ pending' = FALSE
  /\ pc' = IF isRendering THEN "shmLock" ELSE "idle"
  /\ UNCHANGED <<mapVars, frameVars, ssMutex, held, shmVars, crashed>>
  /\ KeepsMain

(* Each step below reads the object, and the mapping: without them it is   *)
(* the end of the program.                                                 *)
Accessible == alive /\ area # Unmapped

RenderCrash ==
  /\ ~crashed
  /\ pc # "idle" /\ ~(IF pc \in {"tryLock", "remap", "flip"} THEN alive ELSE Accessible)
  /\ crashed' = TRUE
  /\ UNCHANGED <<mapVars, frameVars, pending, ssMutex, pc, held, shmVars>>
  /\ KeepsMain

ShmLock ==
  /\ ~crashed
  /\ pc = "shmLock" /\ Accessible
  /\ IF Free(area)
       THEN Take(area) /\ held' = area /\ pc' = "tryLock"
       ELSE pc' = "idle" /\ UNCHANGED <<sem, held>>
  /\ UNCHANGED <<notification, gen, size, mapVars, frameVars, pending, ssMutex, crashed>>
  /\ KeepsMain

(* Faulty form: the failure of tryLock is not looked at. *)
TryLockIgnored ==
  /\ ~crashed
  /\ pc = "tryLock" /\ alive
  /\ ssMutex' = IF ssMutex = "free" THEN "render" ELSE ssMutex
  /\ pc' = "compare"
  /\ UNCHANGED <<mapVars, frameVars, pending, held, shmVars, crashed>>
  /\ KeepsMain

(* When the main thread has the mutex, the frame is given up, with the     *)
(* semaphore.                                                              *)
TryLock ==
  /\ ~crashed
  /\ pc = "tryLock" /\ alive
  /\ IF ssMutex = "free" THEN ssMutex' = "render" /\ pc' = "compare"
                         ELSE pc' = "idle" /\ UNCHANGED ssMutex
  /\ UNCHANGED <<mapVars, frameVars, pending, held, shmVars, crashed>>
  /\ KeepsMain

Unlocked == IF held = area THEN Unmapped ELSE held

(* A frame already seen: post the semaphore and look for a notification. *)
Compare ==
  /\ ~crashed
  /\ pc = "compare" /\ Accessible
  /\ IF bufferGen = gen[area]
       THEN Post(area) /\ held' = Unlocked /\ pc' = "wait"
       ELSE pc' = "resize" /\ UNCHANGED <<sem, held>>
  /\ UNCHANGED <<notification, gen, size, mapVars, frameVars, pending, ssMutex, crashed>>
  /\ KeepsMain

(* Faulty form: the mutex is not given back when there is nothing to show. *)
LeaveLocked == pc' = "idle" /\ UNCHANGED ssMutex

Leave == pc' = "idle" /\ ssMutex' = "free"

Wait ==
  /\ ~crashed
  /\ pc = "wait" /\ Accessible
  /\ IF notification[area] > 0
       THEN /\ notification' = [notification EXCEPT ![area] = @ - 1]
            /\ pc' = "relock"
            /\ UNCHANGED ssMutex
       ELSE Leave /\ UNCHANGED notification
  /\ UNCHANGED <<sem, gen, size, mapVars, frameVars, pending, held, crashed>>
  /\ KeepsMain

Relock ==
  /\ ~crashed
  /\ pc = "relock" /\ Accessible
  /\ IF Free(area)
       THEN Take(area) /\ held' = area /\ pc' = "compare" /\ UNCHANGED ssMutex
       ELSE Leave /\ UNCHANGED <<sem, held>>
  /\ UNCHANGED <<notification, gen, size, mapVars, frameVars, pending, crashed>>
  /\ KeepsMain

(* Faulty form: one remapping is taken to be enough. *)
AfterRemapOnce == "copy"

(* Where the loop of resizeShm goes on once it has the lock again. *)
AfterRemap == "resize"

(* resizeShm: as long as the frame does not fit, remap without the lock. *)
Resize ==
  /\ ~crashed
  /\ pc = "resize" /\ Accessible
  /\ IF size[area] > len
       THEN /\ len' = size[area]
            /\ Post(area) /\ held' = Unlocked
            /\ pc' = "remap"
       ELSE pc' = "copy" /\ UNCHANGED <<len, sem, held>>
  /\ UNCHANGED <<notification, gen, size, area, frameVars, pending, ssMutex, crashed>>
  /\ KeepsMain

(* munmap and mmap; a failure of mmap is compared with null, which it      *)
(* never is.                                                               *)
Remap ==
  /\ ~crashed
  /\ pc = "remap" /\ alive
  /\ area' \in {Unmapped, area}
  /\ pc' = "resizeLock"
  /\ UNCHANGED <<len, frameVars, pending, ssMutex, held, shmVars, crashed>>
  /\ KeepsMain

(* When the lock cannot be had again, resizeShm reports success. *)
ResizeLock ==
  /\ ~crashed
  /\ pc = "resizeLock" /\ Accessible
  /\ IF Free(area)
       THEN Take(area) /\ held' = area /\ pc' = AfterRemap
       ELSE pc' = "copy" /\ UNCHANGED <<sem, held>>
  /\ UNCHANGED <<notification, gen, size, mapVars, frameVars, pending, ssMutex, crashed>>
  /\ KeepsMain

(* The end of the copy into the other frame. *)
Copy ==
  /\ ~crashed
  /\ pc = "copy" /\ Accessible
  /\ bufferGen' = gen[area]
  /\ Post(area) /\ held' = Unlocked
  /\ pc' = "flip"
  /\ UNCHANGED <<notification, gen, size, mapVars, frameIdx, pending, ssMutex, crashed>>
  /\ KeepsMain

OtherFrame == 1 - frameIdx

(* The frames change places, the mutex is unlocked, frameUpdated emitted. *)
Flip ==
  /\ ~crashed
  /\ pc = "flip" /\ alive
  /\ frameIdx' = OtherFrame
  /\ Leave
  /\ UNCHANGED <<mapVars, bufferGen, pending, held, shmVars, crashed>>
  /\ KeepsMain

Render ==
  TimedEvents \/ RenderCrash \/ ShmLock \/ TryLock \/ Compare \/ Wait \/ Relock
  \/ Resize \/ Remap \/ ResizeLock \/ Copy \/ Flip

-----------------------------------------------------------------------------
(* The daemon, as the protocol of the shared memory supposes it: a frame   *)
(* is written under the semaphore, then counted and notified.              *)

DaemonLock ==
  /\ ~crashed
  /\ shmPath # Unmapped /\ ~writing
  /\ gen[shmPath] < MaxGen
  /\ Free(shmPath) /\ Take(shmPath)
  /\ writing' = TRUE
  /\ UNCHANGED <<notification, gen, size, mainVars, mapVars, frameVars, pending, ssMutex,
                 pc, held, shmPath, crashed>>

DaemonWrite(bytes) ==
  /\ ~crashed
  /\ writing
  /\ size' = [size EXCEPT ![shmPath] = bytes]
  /\ gen' = [gen EXCEPT ![shmPath] = @ + 1]
  /\ notification' = [notification EXCEPT ![shmPath] = @ + 1]
  /\ Post(shmPath)
  /\ writing' = FALSE
  /\ UNCHANGED <<mainVars, mapVars, frameVars, pending, ssMutex, pc, held, shmPath, crashed>>

-----------------------------------------------------------------------------
Init ==
  /\ alive = FALSE /\ isRendering = FALSE /\ opened = FALSE
  /\ area = Unmapped /\ len = 0
  /\ bufferGen = 0 /\ frameIdx = 0
  /\ timer = FALSE /\ pending = FALSE
  /\ ssMutex = "free"
  /\ op = "none" /\ drawing = Nothing
  /\ pc = "idle" /\ held = Unmapped
  /\ sem = [p \in Shm |-> 1]
  /\ notification = [p \in Shm |-> 0] /\ gen = [p \in Shm |-> 0] /\ size = [p \in Shm |-> 0]
  /\ shmPath = 0 /\ writing = FALSE
  /\ crashed = FALSE

Main ==
  \/ StartedDecoding
  \/ \E what \in {"stop", "delete", "other"} : Begin(what)
  \/ MainLock \/ StartRendering \/ StopRendering \/ DeleteRenderer \/ OtherRenderer
  \/ BeginDraw \/ EndDraw \/ Timeout

Daemon == DaemonLock \/ \E bytes \in 1..MaxSize : DaemonWrite(bytes)

Next == Main \/ Render \/ Daemon

Spec == Init /\ [][Next]_vars

(* The threads run.  The mutex is offered to the main thread again and     *)
(* again, and free for most of the 30 ms between two timeouts.             *)
Fairness ==
  /\ WF_vars(Render)
  /\ SF_vars(MainLock)
  /\ WF_vars(StartRendering \/ StopRendering \/ DeleteRenderer \/ OtherRenderer)

FairSpec == Spec /\ Fairness

-----------------------------------------------------------------------------
(* Types of the variables. *)
MainTypes ==
  /\ alive \in BOOLEAN /\ isRendering \in BOOLEAN /\ opened \in BOOLEAN
  /\ timer \in BOOLEAN /\ pending \in BOOLEAN /\ crashed \in BOOLEAN
  /\ op \in Op /\ drawing \in {0, 1, Nothing}
  /\ ssMutex \in {"free", "main", "render"}
  /\ pc \in PC

MapTypes ==
  /\ area \in Shm \union {Unmapped} /\ held \in Shm \union {Unmapped}
  /\ len \in 0..MaxSize
  /\ bufferGen \in 0..MaxGen /\ frameIdx \in {0, 1}

ShmTypes ==
  /\ sem \in [Shm -> Nat]
  /\ notification \in [Shm -> 0..MaxGen] /\ gen \in [Shm -> 0..MaxGen]
  /\ size \in [Shm -> 0..MaxSize]
  /\ shmPath \in Shm \union {0} /\ writing \in BOOLEAN

TypeOK == MainTypes /\ MapTypes /\ ShmTypes

(* The render thread works on one mapping from tryLock to the unlock: the  *)
(* main thread neither maps nor unmaps under it, through whichever of its  *)
(* handlers (startStopMutex).                                              *)
MapStable ==
  [][ Main /\ pc \in Critical => UNCHANGED mapVars ]_vars

(* The semaphore of memory p counts its holders. *)
Balanced(p) ==
  sem[p] + (IF held = p THEN 1 ELSE 0)
               + (IF writing /\ shmPath = p THEN 1 ELSE 0) = 1

(* A copy made under the lock reads inside the mapping, however often the  *)
(* daemon enlarged the frame meanwhile (the loop of resizeShm); as long as *)
(* no post went astray.                                                    *)
LockedCopyFits ==
  pc = "copy" /\ held = area /\ area # Unmapped /\ Balanced(area) => size[area] <= len

(* A renderer that was stopped, or deleted, holds no mapping, even though  *)
(* the render thread remaps on its own and may run on.                     *)
StoppedIsUnmapped ==
  ~isRendering => area = Unmapped /\ len = 0

(* Both of the above: the mapping is there for the copies that are made    *)
(* under the lock, large enough, and for no other.                         *)
MappingAgrees == LockedCopyFits /\ StoppedIsUnmapped

(* The main thread is never kept from starting or stopping a renderer:     *)
(* every way out of renderToBitmap unlocks startStopMutex, and its loops   *)
(* end.                                                                    *)
MainGoesOn == (op # "none") ~> (op = "none" \/ crashed)
=============================================================================
