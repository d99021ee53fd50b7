---------------------------- MODULE ThreadedVideo ----------------------------
(***************************************************************************)
(* minarch's two ways to run a libretro core (src/workspace/all/minarch).  *)
(* Normally main's loop calls core.run.  With "Prioritize Audio" (global   *)
(* thread_video) a second thread, coreThread, calls it, and main waits on  *)
(* the condition variable core_rq for a frame to show.  Fast forward, the  *)
(* power button and the options menu switch between the two while the core *)
(* runs; the in-game menu pauses coreThread; a shortcut, the menu and an   *)
(* HDMI change end the loop.                                               *)
(*                                                                         *)
(* coreThread's critical sections under core_mx contain no wait, so each   *)
(* is one step, taken when main does not hold core_mx.  Main holds it over *)
(* several steps.  The flags are plain ints shared without a lock, so each *)
(* access of them is a step of its own thread in any order with the other. *)
(***************************************************************************)
EXTENDS Integers, FiniteSets

CONSTANTS Buttons,     \* the buttons the player uses
          MaxInputs    \* bound: button events over a whole behaviour

ASSUME InputsAssumption ==
  /\ Buttons \subseteq {"power", "toggle_ff", "hold_ff", "save_quit", "menu", "option"}
  /\ MaxInputs \in Nat

VARIABLES
  quit, show_menu, thread_video, was_threaded, toggle_thread, should_run_core,
  fast_forward, toggled_ff_on,    \* the globals and statics of minarch.c
  frame_ready,    \* the predicate of core_rq
  mx,             \* main holds core_mx
  main,           \* where main is
  core,           \* where coreThread is; "none" when there is no such thread
  cancelled,      \* pthread_cancel was called and not yet acted on
  todo,           \* per thread: callbacks its core.run will still make
  pend,           \* per thread: rest of an input_poll_callback, under core_mx
  power,          \* the power button is down
  inputs          \* button events left

flags == <<was_threaded, toggle_thread, fast_forward, toggled_ff_on>>
run == <<todo, pend>>
vars == <<quit, show_menu, thread_video, flags, should_run_core, frame_ready,
          mx, main, core, cancelled, run, power, inputs>>

Threads == {"main", "core"}
Callbacks == {"poll", "video", "audio"}

(* core.run polls the pad; a frame that repeats the last one is a NULL     *)
(* video callback, which returns at once, and counts as no callback.       *)
Runs == {s \in SUBSET Callbacks : "poll" \in s}

(* thread_video is still off when the loop starts: a saved "Prioritize     *)
(* Audio" only sets toggle_thread (Config_syncFrontend).                   *)
Init ==
  /\ quit = FALSE /\ show_menu = FALSE /\ should_run_core = TRUE
  /\ thread_video = FALSE /\ was_threaded = FALSE /\ toggle_thread \in BOOLEAN
  /\ fast_forward = FALSE /\ toggled_ff_on = FALSE
  /\ frame_ready = FALSE /\ mx = FALSE
  /\ main = "top" /\ core = "none" /\ cancelled = FALSE
  /\ todo = [t \in Threads |-> {}]
  /\ pend = [t \in Threads |-> "none"]
  /\ power = FALSE /\ inputs = MaxInputs

InRun(t) == IF t = "main" THEN main = "run" ELSE core = "run"

-----------------------------------------------------------------------------
(* Callbacks made by core.run in thread t *)

(* A frame wakes main out of pthread_cond_wait; it still needs core_mx. *)
Woken == IF main = "wait" THEN "relock" ELSE main

VideoCallback(t) ==
  /\ InRun(t) /\ pend[t] = "none" /\ "video" \in todo[t]
  /\ todo' = [todo EXCEPT ![t] = @ \ {"video"}]
  /\ \/ /\ thread_video /\ ~mx
        /\ frame_ready' = TRUE
        /\ main' = Woken
     \/ /\ ~thread_video              \* video_refresh_callback_main at once
        /\ UNCHANGED <<frame_ready, main>>
  /\ UNCHANGED <<quit, show_menu, thread_video, flags, should_run_core, mx, core, cancelled, pend, power, inputs>>

AudioCallback(t) ==
  /\ InRun(t) /\ pend[t] = "none" /\ "audio" \in todo[t]
  /\ todo' = [todo EXCEPT ![t] = @ \ {"audio"}]
  /\ UNCHANGED <<quit, show_menu, thread_video, flags, should_run_core, frame_ready, mx, main, core, cancelled, pend, power, inputs>>

(* input_poll_callback up to its first lock.  PAD_poll's read is a          *)
(* cancellation point, so a cancelled coreThread does not get past it.      *)
Polling(t) ==
  /\ InRun(t) /\ pend[t] = "none" /\ "poll" \in todo[t]
  /\ ~(t = "core" /\ cancelled)
  /\ todo' = [todo EXCEPT ![t] = @ \ {"poll"}]
  /\ UNCHANGED <<thread_video, should_run_core, frame_ready, mx, main, core, cancelled>>

Pressed(button) == button \in Buttons /\ inputs > 0 /\ inputs' = inputs - 1

(* No button that matters here. *)
PollIdle(t) ==
  /\ Polling(t)
  /\ UNCHANGED <<quit, show_menu, flags, pend, power, inputs>>

PollPowerPress(t) ==
  /\ Polling(t) /\ Pressed("power")
  /\ ~power /\ power' = TRUE
  /\ was_threaded' = (was_threaded \/ thread_video)
  /\ toggle_thread' = (toggle_thread \/ thread_video)
  /\ UNCHANGED <<quit, show_menu, fast_forward, toggled_ff_on, pend>>

(* PWR_update, called before the edge is looked at, sleeps on it, and       *)
(* PAD_reset clears it: input_poll_callback never sees POWER released.      *)
PollPowerRelease(t) ==
  /\ Polling(t)
  /\ power /\ power' = FALSE
  /\ UNCHANGED <<quit, show_menu, flags, pend, inputs>>

setFastForward(enable) ==
  LET enters == ~fast_forward /\ enable /\ thread_video
      leaves == fast_forward /\ ~enable /\ ~thread_video /\ was_threaded
  IN /\ was_threaded' = IF enters THEN TRUE ELSE IF leaves THEN FALSE ELSE was_threaded
     /\ toggle_thread' = (toggle_thread \/ enters \/ leaves)
     /\ fast_forward' = enable

PollToggleFF(t) ==
  /\ Polling(t) /\ Pressed("toggle_ff")
  /\ setFastForward(~fast_forward)
  /\ toggled_ff_on' = ~fast_forward
  /\ UNCHANGED <<quit, show_menu, pend, power>>

(* HOLD_FF pressed, or released when fast forward was not toggled on. *)
PollHoldFF(t) ==
  /\ Polling(t) /\ Pressed("hold_ff")
  /\ \/ setFastForward(TRUE)
     \/ fast_forward /\ ~toggled_ff_on /\ setFastForward(FALSE)
  /\ UNCHANGED <<quit, show_menu, toggled_ff_on, pend, power>>

(* SAVE_QUIT saves, sets quit without core_mx and then broadcasts. *)
PollSaveQuit(t) ==
  /\ Polling(t) /\ Pressed("save_quit")
  /\ quit' = TRUE
  /\ pend' = [pend EXCEPT ![t] = "broadcast"]
  /\ UNCHANGED <<show_menu, flags, power>>

(* Mutant of PollMenu: coreThread is not paused. *)
PollMenuNoPause(t) ==
  /\ Polling(t) /\ Pressed("menu")
  /\ show_menu' = TRUE
  /\ UNCHANGED <<quit, flags, pend, power>>

PollMenu(t) ==
  /\ Polling(t) /\ Pressed("menu")
  /\ show_menu' = TRUE
  /\ pend' = [pend EXCEPT ![t] = IF thread_video THEN "pause" ELSE "none"]
  /\ UNCHANGED <<quit, flags, power>>

PollBroadcast(t) ==
  /\ pend[t] = "broadcast" /\ ~mx
  /\ pend' = [pend EXCEPT ![t] = "none"]
  /\ main' = Woken
  /\ UNCHANGED <<quit, show_menu, thread_video, flags, should_run_core, frame_ready, mx, core, cancelled, todo, power, inputs>>

PollPause(t) ==
  /\ pend[t] = "pause" /\ ~mx
  /\ pend' = [pend EXCEPT ![t] = "none"]
  /\ should_run_core' = FALSE
  /\ UNCHANGED <<quit, show_menu, thread_video, flags, frame_ready, mx, main, core, cancelled, todo, power, inputs>>

PollEvent(t) == \/ PollPowerPress(t) \/ PollPowerRelease(t) \/ PollToggleFF(t) \/ PollHoldFF(t)
                \/ PollSaveQuit(t) \/ PollMenu(t)
Callback(t) == \/ VideoCallback(t) \/ AudioCallback(t) \/ PollIdle(t) \/ PollEvent(t)
               \/ PollBroadcast(t) \/ PollPause(t)
RunOver(t) == InRun(t) /\ todo[t] = {} /\ pend[t] = "none"

-----------------------------------------------------------------------------
(* coreThread *)

CoreRun ==
  /\ core = "head" /\ ~quit /\ ~mx /\ should_run_core
  /\ core' = "run"
  /\ \E s \in Runs : todo' = [todo EXCEPT !["core"] = s]
  /\ UNCHANGED <<quit, show_menu, thread_video, flags, should_run_core, frame_ready, mx, main, cancelled, pend, power, inputs>>

(* It polls should_run_core in a busy loop that has no cancellation point. *)
CoreSpin ==
  /\ core = "head" /\ ~quit /\ ~mx /\ ~should_run_core
  /\ UNCHANGED vars

CoreRunDone ==
  /\ RunOver("core")
  /\ core' = "head"
  /\ UNCHANGED <<quit, show_menu, thread_video, flags, should_run_core, frame_ready, mx, main, cancelled, run, power, inputs>>

CoreExit ==
  /\ core = "head" /\ quit
  /\ core' = "exited" /\ cancelled' = FALSE
  /\ UNCHANGED <<quit, show_menu, thread_video, flags, should_run_core, frame_ready, mx, main, run, power, inputs>>

(* The read of PAD_poll and the delay of SND_batchSamples are where a       *)
(* cancelled coreThread ends.                                               *)
CoreCancelled ==
  /\ cancelled /\ core = "run" /\ pend["core"] = "none"
  /\ todo["core"] \cap {"poll", "audio"} # {}
  /\ core' = "exited" /\ cancelled' = FALSE
  /\ todo' = [todo EXCEPT !["core"] = {}]
  /\ UNCHANGED <<quit, show_menu, thread_video, flags, should_run_core, frame_ready, mx, main, pend, power, inputs>>

-----------------------------------------------------------------------------
(* main's loop *)

Goto(a, b) == /\ main = a /\ main' = b
              /\ UNCHANGED <<flags, should_run_core, cancelled, pend, power, inputs>>

LoopExit ==
  /\ quit /\ Goto("top", "teardown")
  /\ UNCHANGED <<quit, show_menu, thread_video, frame_ready, mx, core, todo>>

LoopRun ==
  /\ ~quit /\ ~thread_video /\ Goto("top", "run")
  /\ \E s \in Runs : todo' = [todo EXCEPT !["main"] = s]
  /\ UNCHANGED <<quit, show_menu, thread_video, frame_ready, mx, core>>

LoopRunDone ==
  /\ RunOver("main") /\ Goto("run", "menu?")
  /\ UNCHANGED <<quit, show_menu, thread_video, frame_ready, mx, core, todo>>

LoopThreaded ==
  /\ ~quit /\ thread_video /\ Goto("top", "lock")
  /\ UNCHANGED <<quit, show_menu, thread_video, frame_ready, mx, core, todo>>

(* "if (thread_video && !quit)", then pthread_mutex_lock *)
FrameLock ==
  /\ main \in {"lock", "relock"} /\ main' = "test"
  /\ main = "lock" => ~quit
  /\ ~mx /\ mx' = TRUE
  /\ UNCHANGED <<quit, show_menu, thread_video, flags, should_run_core, frame_ready, core, cancelled, run, power, inputs>>

FrameSkip ==
  /\ quit /\ Goto("lock", "menu?")
  /\ UNCHANGED <<quit, show_menu, thread_video, frame_ready, mx, core, todo>>

(* Mutant of FrameWait: it waits without looking at frame_ready. *)
FrameWaitBlind ==
  /\ ~quit /\ Goto("test", "wait")
  /\ mx' = FALSE
  /\ UNCHANGED <<quit, show_menu, thread_video, frame_ready, core, todo>>

(* Mutant of FrameWait: quit is not part of the predicate. *)
FrameWaitNoQuit ==
  /\ ~frame_ready /\ Goto("test", "wait")
  /\ mx' = FALSE
  /\ UNCHANGED <<quit, show_menu, thread_video, frame_ready, core, todo>>

FrameWait ==
  /\ ~frame_ready /\ ~quit /\ Goto("test", "wait")
  /\ mx' = FALSE
  /\ UNCHANGED <<quit, show_menu, thread_video, frame_ready, core, todo>>

(* POSIX lets pthread_cond_wait return without a signal. *)
FrameSpurious ==
  /\ Goto("wait", "relock")
  /\ UNCHANGED <<quit, show_menu, thread_video, frame_ready, mx, core, todo>>

FrameTake ==
  /\ frame_ready \/ quit
  /\ Goto("test", "render")
  /\ frame_ready' = FALSE
  /\ UNCHANGED <<quit, show_menu, thread_video, mx, core, todo>>

FrameRender ==
  /\ Goto("render", "menu?")
  /\ mx' = FALSE
  /\ UNCHANGED <<quit, show_menu, thread_video, frame_ready, core, todo>>

-----------------------------------------------------------------------------
(* Menu_loop *)

MenuCheck ==
  /\ Goto("menu?", IF show_menu THEN "menu" ELSE "toggle?")
  /\ UNCHANGED <<quit, show_menu, thread_video, frame_ready, mx, core, todo>>

(* The Prioritize Audio option, through Config_syncFrontend. *)
MenuSetThread ==
  /\ main = "menu" /\ Pressed("option")
  /\ \E value \in BOOLEAN : toggle_thread' = ((thread_video \/ was_threaded) # value)
  /\ UNCHANGED <<quit, show_menu, thread_video, was_threaded, should_run_core, fast_forward,
                 toggled_ff_on, frame_ready, mx, main, core, cancelled, run, power>>

(* Continue, save, load or reset leave quit alone; Quit and an HDMI change  *)
(* set it.                                                                  *)
MenuLeave ==
  /\ Goto("menu", "menuEnd")
  /\ show_menu' = FALSE
  /\ quit' = TRUE \/ UNCHANGED quit
  /\ UNCHANGED <<thread_video, frame_ready, mx, core, todo>>

(* The tail of Menu_loop shows the last frame again and lets coreThread run. *)
MenuEnd ==
  /\ main = "menuEnd" /\ main' = "toggle?"
  /\ frame_ready' = (frame_ready \/ (~quit /\ thread_video))
  /\ should_run_core' = (should_run_core \/ (~quit /\ thread_video))
  /\ UNCHANGED <<quit, show_menu, thread_video, flags, mx, core, cancelled, run, power, inputs>>

-----------------------------------------------------------------------------
(* Switching modes, HDMI, teardown *)

ToggleSkip ==
  /\ ~toggle_thread /\ Goto("toggle?", "hdmi")
  /\ UNCHANGED <<quit, show_menu, thread_video, frame_ready, mx, core, todo>>

ToggleTake ==
  /\ main = "toggle?" /\ toggle_thread
  /\ toggle_thread' = FALSE /\ main' = "flip"
  /\ UNCHANGED <<quit, show_menu, thread_video, was_threaded, should_run_core, fast_forward,
                 toggled_ff_on, frame_ready, mx, core, cancelled, run, power, inputs>>

(* With was_threaded set and no thread, thread_video flips twice. *)
ToggleFlip ==
  LET revert == was_threaded /\ ~thread_video
  IN /\ main = "flip"
     /\ was_threaded' = (was_threaded /\ ~revert)
     /\ thread_video' = IF revert THEN thread_video ELSE ~thread_video
     /\ main' = IF thread_video' THEN "create" ELSE "cancel"
     /\ UNCHANGED <<quit, show_menu, toggle_thread, should_run_core, fast_forward, toggled_ff_on,
                    frame_ready, mx, core, cancelled, run, power, inputs>>

(* core_mx and core_rq are initialised afresh. *)
ToggleCreate ==
  /\ main = "create" /\ main' = "hdmi"
  /\ mx' = FALSE
  /\ core' = "head" /\ cancelled' = FALSE
  /\ todo' = [todo EXCEPT !["core"] = {}]
  /\ pend' = [pend EXCEPT !["core"] = "none"]
  /\ UNCHANGED <<quit, show_menu, thread_video, flags, should_run_core, frame_ready, power, inputs>>

(* Mutant of ToggleCancel: the thread is cancelled and not joined. *)
ToggleCancelNoJoin ==
  /\ main = "cancel" /\ main' = "hdmi"
  /\ cancelled' = (core \in {"head", "run"})
  /\ UNCHANGED <<quit, show_menu, thread_video, flags, should_run_core, frame_ready, mx, core, run, power, inputs>>

ToggleCancel ==
  /\ main = "cancel" /\ main' = "join"
  /\ cancelled' = (core \in {"head", "run"})
  /\ UNCHANGED <<quit, show_menu, thread_video, flags, should_run_core, frame_ready, mx, core, run, power, inputs>>

ToggleJoin ==
  /\ core = "exited" /\ Goto("join", "hdmi")
  /\ core' = "none"
  /\ UNCHANGED <<quit, show_menu, thread_video, frame_ready, mx, todo>>

(* pthread_cancel and pthread_join of a thread that was joined before are   *)
(* undefined: they fail, or crash the process.                              *)
ToggleJoinNone ==
  /\ core = "none"
  /\ Goto("join", "hdmi") \/ Goto("join", "crashed")
  /\ UNCHANGED <<quit, show_menu, thread_video, frame_ready, mx, core, todo>>

(* hdmimon: nothing changed, or the cable was plugged or pulled. *)
hdmimon ==
  /\ Goto("hdmi", "top")
  /\ \/ quit' = TRUE /\ show_menu' = FALSE
     \/ UNCHANGED <<quit, show_menu>>
  /\ UNCHANGED <<thread_video, frame_ready, mx, core, todo>>

(* From Menu_quit to the return of main, which ends coreThread too. *)
Teardown ==
  /\ Goto("teardown", "unloaded") \/ Goto("unloaded", "exited")
  /\ UNCHANGED <<quit, show_menu, thread_video, frame_ready, mx, core, todo>>

Terminated == main \in {"exited", "crashed"} /\ UNCHANGED vars

-----------------------------------------------------------------------------
Alive == main \notin {"exited", "crashed"}

CoreStep == CoreRun \/ CoreSpin \/ CoreRunDone \/ CoreExit \/ CoreCancelled
FrameStep == \/ LoopExit \/ LoopRun \/ LoopRunDone \/ LoopThreaded
             \/ FrameLock \/ FrameSkip \/ FrameWait \/ FrameTake \/ FrameRender
ToggleStep == \/ ToggleSkip \/ ToggleTake \/ ToggleFlip \/ ToggleCreate
              \/ ToggleCancel \/ ToggleJoin \/ ToggleJoinNone
MainStep == FrameStep \/ MenuCheck \/ MenuEnd \/ ToggleStep \/ hdmimon \/ Teardown
UserStep == MenuSetThread \/ MenuLeave

Next ==
  \/ Alive /\ (CoreStep \/ \E t \in Threads : Callback(t))
  \/ MainStep \/ UserStep \/ FrameSpurious
  \/ Terminated

Spec == Init /\ [][Next]_vars

(* Both threads are scheduled, and a thread that keeps finding core_mx free *)
(* between another's uses of it gets it.  The user does nothing for sure.   *)
Fairness ==
  /\ WF_vars(MainStep) /\ SF_vars(FrameLock)
  /\ WF_vars(Alive /\ CoreStep) /\ SF_vars(Alive /\ CoreRun)
  /\ \A t \in Threads : /\ WF_vars(Alive /\ Callback(t))
                        /\ SF_vars(Alive /\ VideoCallback(t))
                        /\ SF_vars(Alive /\ PollBroadcast(t))
                        /\ SF_vars(Alive /\ PollPause(t))

FairSpec == Spec /\ Fairness

-----------------------------------------------------------------------------
FlagsOK ==
  /\ quit \in BOOLEAN /\ show_menu \in BOOLEAN /\ thread_video \in BOOLEAN
  /\ was_threaded \in BOOLEAN /\ toggle_thread \in BOOLEAN
  /\ should_run_core \in BOOLEAN /\ fast_forward \in BOOLEAN
  /\ toggled_ff_on \in BOOLEAN /\ frame_ready \in BOOLEAN
  /\ mx \in BOOLEAN /\ cancelled \in BOOLEAN /\ power \in BOOLEAN

PlacesOK ==
  /\ main \in {"top", "run", "lock", "test", "wait", "relock", "render", "menu?", "menu",
               "menuEnd", "toggle?", "flip", "create", "cancel", "join", "hdmi",
               "teardown", "unloaded", "exited", "crashed"}
  /\ core \in {"none", "head", "run", "exited"}
  /\ todo \in [Threads -> SUBSET Callbacks]
  /\ pend \in [Threads -> {"none", "broadcast", "pause"}]
  /\ inputs \in Nat

(* Types: the flags are truth values and each thread is at a known place. *)
TypeOK == FlagsOK /\ PlacesOK

(* A libretro core is not reentrant: however the modes are switched, at     *)
(* most one of the two threads is inside core.run.                          *)
CoreRunExclusive == ~(InRun("main") /\ InRun("core"))

(* While a coreThread exists no second one is created, so core_mx and       *)
(* core_rq are never initialised again under a thread that uses them.       *)
CreatesOneThread == main = "create" => core = "none" /\ ~mx

(* coreThread starts no new run of the core while the in-game menu, which   *)
(* saves, loads and resets the core from main, is open.                     *)
MenuPausesCore == main = "menu" /\ core = "head" => ~should_run_core

(* When the save-and-quit shortcut ends the game while main waits for a     *)
(* frame, the broadcast that wakes main is still to come.                   *)
QuitWakesWaiter == main = "wait" /\ quit => pend["core"] = "broadcast"

Gone == main \in {"teardown", "unloaded", "exited", "crashed"}

(* No lost wakeup: a frame that coreThread handed over is shown, unless the *)
(* menu opens or threading ends first.                                      *)
NoLostWakeup ==
  (thread_video /\ frame_ready) ~> (~frame_ready \/ ~thread_video \/ main = "menu" \/ Gone)

(* Whoever sets quit, main leaves its loop, unless the player is in the     *)
(* menu, which only the player closes.                                      *)
QuitLeavesLoop == quit ~> (Gone \/ main = "menu")

-----------------------------------------------------------------------------
(* Claims of the repository that TLC refutes (README, known deviations) *)

(* A press of MENU opens the menu. *)
MenuOpens == show_menu ~> (main = "menu" \/ quit)

(* main only cancels and joins a coreThread that is there. *)
JoinsLiveThread == main = "cancel" => core # "none"

(* Once the power button is up again and fast forward is off, the core goes *)
(* back to the thread it ran in before.                                     *)
ThreadingReturns ==
  (was_threaded /\ ~power /\ ~fast_forward) ~> (thread_video \/ power \/ fast_forward \/ quit)
=============================================================================
