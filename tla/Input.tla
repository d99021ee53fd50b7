------------------------------- MODULE Input --------------------------------
(***************************************************************************)
(* Buttons, sleep and power while a game runs (pad.c, pwr.c, minarch.c,    *)
(* menu.c and rg35xxplus/platform.c).  Keys, hats, sticks, a gamepad that  *)
(* comes and goes and the lid produce events the kernel queues; each loop  *)
(* of minarch polls them into the pad, lets PWR_update sleep or power off, *)
(* and acts on what is left: the game's frame, the menu's, and the screen  *)
(* that binds a button, which polls without PWR_update.  The battery and   *)
(* rumble threads run beside it.                                           *)
(*                                                                         *)
(* Time is what has elapsed: a timer runs, or is due.  Between two frames  *)
(* of an awake console no timer's delay passes, so time elapses only when  *)
(* every event has been polled.                                            *)
(***************************************************************************)
EXTENDS Integers, Sequences

CONSTANTS
  Keys,         \* keys: [dev, btn]
  Axes,         \* hats and sticks: [dev, kind]
  TOGGLE_FF, HOLD_FF, \* shortcuts: [btn, mod]
  Others,       \* the other shortcuts
  Controls,     \* what the core is told: [btns, mod, retro]
  Starts,       \* what is connected when the game starts: [plugged, charger, hdmi]
  DEFER_FRAMES, \* rounds the rumble thread waits before it stops the motor
  MaxMoves,     \* bound: what the player and the core do
  MaxQueue      \* bound: events between two polls

ASSUME InputAssumption ==
  /\ \A k \in Keys : /\ k.dev \in {"con", "pad"} /\ k.btn \notin {"ANALOG_UP", "ANALOG_DOWN"}
                     /\ k.btn = "POWER" => k.dev = "con" \* a gamepad has no such key
  /\ \A a \in Axes : a.dev \in {"con", "pad"} /\ a.kind \in {"hat", "stick"}
  /\ Starts \subseteq [plugged : BOOLEAN, charger : BOOLEAN, hdmi : BOOLEAN]
  /\ DEFER_FRAMES \in Nat /\ MaxMoves \in Nat /\ MaxQueue \in Nat

\* BTN_SLEEP and BTN_WAKE are POWER on this platform, BTN_MOD_BRIGHTNESS is MENU.
BTN_SLEEP == "POWER"
Neg(kind) == IF kind = "hat" THEN "DPAD_UP" ELSE "ANALOG_UP"
Pos(kind) == IF kind = "hat" THEN "DPAD_DOWN" ELSE "ANALOG_DOWN"
Buttons == {k.btn : k \in Keys} \cup UNION {{Neg(a.kind), Pos(a.kind)} : a \in Axes}

VARIABLES
  mode,     \* where minarch is: game, menu, bind, deferred, sleep or off
  back,     \* where it goes on after a sleep: game, menu, bind or exit
  down,     \* keys the player holds
  tilt,     \* where the hats and sticks are: -1, 0 or 1
  plugged,  \* the gamepad is connected
  shut,     \* the lid is closed
  charger,  \* the charger is connected
  hdmi,     \* HDMI is in use
  queue,    \* events the kernel holds for each device
  fd,       \* inputs[kPadIndex]: none, live, or dead when its device has gone
  is_open,  \* lid.is_open
  is_pressed,
  power,    \* power_pressed_at: none, running or due
  idle,     \* last_input_at is SLEEP_DELAY ago
  night,    \* sleep_ticks is SLEEP_POWEROFF_DELAY ago
  is_charging, was_charging,
  fast_forward, toggled_ff_on,
  ignore_menu,
  tap,      \* PAD_tappedMenu: MENU was pressed, and not with PLUS or MINUS
  buttons,  \* what the core is told
  vib,      \* vib, the thread's defer, and what Menu_loop remembers
  saved,    \* history: before_sleep has run since the game last did
  ghost,    \* history: buttons held on a gamepad when it went
  swallowed,\* history: a release of POWER since the timer started that no PWR_update saw
  slip,     \* history: how a use of HOLD_FF escaped the game's frame, if it did
  combo,    \* history: MENU has been used with another button since it was pressed
  owed,     \* history: releases of POWER and moves of the lid, less the sleeps and wakes they explain
  moves     \* bound

world == <<down, tilt, plugged, shut, charger, hdmi>>
timers == <<power, idle, night>>
play == <<fast_forward, toggled_ff_on, ignore_menu, tap, buttons>>
hist == <<saved, ghost, swallowed, slip, combo, owed>>
vars == <<mode, back, world, queue, fd, is_open, is_pressed, timers, is_charging, was_charging, play, vib, hist, moves>>

Awake == mode \in {"game", "menu", "bind", "deferred"}
Room == Len(queue["con"]) + Len(queue["pad"]) < MaxQueue
Move == moves < MaxMoves /\ moves' = moves + 1 /\ mode # "off"

-----------------------------------------------------------------------------
(* The kernel's side.                                                      *)

\* An event reaches whoever has the device open.
Queued(dev, e) ==
  IF dev = "con" \/ fd = "live" THEN [queue EXCEPT ![dev] = Append(@, e)] ELSE queue

\* A key goes down or up; the kernel's own repeats (value 2) are ignored when read.
Key(k) ==
  /\ Move /\ Room
  /\ k.dev = "pad" => plugged
  /\ down' = IF k \in down THEN down \ {k} ELSE down \cup {k}
  /\ queue' = Queued(k.dev, [kind |-> "key", btn |-> k.btn, v |-> IF k \in down THEN 0 ELSE 1])
  /\ owed' = IF k.btn = BTN_SLEEP /\ k \in down THEN owed + 1 ELSE owed
  /\ UNCHANGED <<mode, back, tilt, plugged, shut, charger, hdmi, fd, is_open, is_pressed, timers, is_charging, was_charging, play, vib, saved, ghost, swallowed, slip, combo>>

\* A hat or a stick moves.
Tilt(a, v) ==
  /\ Move /\ Room
  /\ a.dev = "pad" => plugged
  /\ v # tilt[a]
  /\ tilt' = [tilt EXCEPT ![a] = v]
  /\ queue' = Queued(a.dev, [kind |-> a.kind, btn |-> "", v |-> v])
  /\ UNCHANGED <<mode, back, down, plugged, shut, charger, hdmi, fd, is_open, is_pressed, timers, is_charging, was_charging, play, vib, hist>>

\* What a device that goes away leaves pressed: its keys and directions, as held or as queued.
HeldOn(dev) ==
  {k.btn : k \in {k \in down : k.dev = dev}}
  \cup {queue[dev][i].btn : i \in DOMAIN queue[dev]}
  \cup UNION {{Neg(a.kind), Pos(a.kind)} : a \in {a \in Axes : a.dev = dev}}

\* The gamepad is unplugged: what its descriptor still held cannot be read.
Unplug ==
  /\ Move
  /\ plugged
  /\ plugged' = FALSE
  /\ down' = {k \in down : k.dev # "pad"}
  /\ tilt' = [a \in Axes |-> IF a.dev = "pad" THEN 0 ELSE tilt[a]]
  /\ fd' = IF fd = "live" THEN "dead" ELSE fd
  /\ queue' = [queue EXCEPT !["pad"] = <<>>]
  /\ ghost' = ghost \cup (HeldOn("pad") \cap is_pressed)
  /\ UNCHANGED <<mode, back, shut, charger, hdmi, is_open, is_pressed, timers, is_charging, was_charging, play, vib, saved, swallowed, slip, combo, owed>>

Plug ==
  /\ Move
  /\ ~plugged
  /\ plugged' = TRUE
  /\ UNCHANGED <<mode, back, down, tilt, shut, charger, hdmi, queue, fd, is_open, is_pressed, timers, is_charging, was_charging, play, vib, hist>>

Lid ==
  /\ Move
  /\ shut' = ~shut
  /\ owed' = owed + 1
  /\ UNCHANGED <<mode, back, down, tilt, plugged, charger, hdmi, queue, fd, is_open, is_pressed, timers, is_charging, was_charging, play, vib, saved, ghost, swallowed, slip, combo>>

Charger ==
  /\ Move
  /\ charger' = ~charger
  /\ UNCHANGED <<mode, back, down, tilt, plugged, shut, hdmi, queue, fd, is_open, is_pressed, timers, is_charging, was_charging, play, vib, hist>>

-----------------------------------------------------------------------------
(* The pad.                                                                *)

Press(p, b) == IF b \in p.is THEN p ELSE [p EXCEPT !.is = @ \cup {b}, !.jp = @ \cup {b}]
Release(p, b) == [p EXCEPT !.is = @ \ {b}, !.jr = @ \cup {b}]

\* Both hats are set in turn; the direction that is not pressed is released.
Hat(p, v) ==
  LET up == IF v = -1 THEN Press(p, "DPAD_UP") ELSE Release(p, "DPAD_UP")
  IN IF v = 1 THEN Press(up, "DPAD_DOWN") ELSE Release(up, "DPAD_DOWN")

\* PAD_setAnalog: a direction is released only when it was pressed.
ReleaseHeld(p, b) == IF b \in p.is THEN Release(p, b) ELSE p
PAD_setAnalog(p, neg, pos, v) ==
  IF v = 0 THEN ReleaseHeld(ReleaseHeld(p, neg), pos)
  ELSE LET to == IF v = 1 THEN pos ELSE neg
           from == IF v = 1 THEN neg ELSE pos
       IN IF to \in p.is THEN p ELSE ReleaseHeld(Press(p, to), from)

Read(p, e) ==
  CASE e.kind = "hat" -> Hat(p, e.v)
    [] e.kind = "stick" -> PAD_setAnalog(p, Neg("stick"), Pos("stick"), e.v)
    [] OTHER -> IF e.v = 0 THEN Release(p, e.btn) ELSE Press(p, e.btn)

\* checkForGamepad, when its two seconds are over.
CheckForGamepad(checks) ==
  IF ~checks THEN fd
  ELSE IF fd = "none" /\ plugged THEN "live"
  ELSE IF fd # "none" /\ ~plugged THEN "none"
  ELSE fd

\* PLAT_pollInput: transient state is reset, every event is read, a moved lid counts as POWER.
ReadAll(events) ==
  LET after[n \in 0..Len(events)] ==
        IF n = 0 THEN [is |-> is_pressed, jp |-> {}, jr |-> {}] ELSE Read(after[n - 1], events[n])
  IN after[Len(events)]
Poll(checks) ==
  LET p == ReadAll(queue["con"] \o (IF CheckForGamepad(checks) = "live" THEN queue["pad"] ELSE <<>>))
  IN IF is_open = ~shut THEN p ELSE [p EXCEPT !.jr = @ \cup {BTN_SLEEP}]
Polls(checks) ==
  /\ fd' = CheckForGamepad(checks)
  /\ queue' = [d \in {"con", "pad"} |-> <<>>]
  /\ is_open' = ~shut

-----------------------------------------------------------------------------
(* PWR_update.                                                             *)

\* Menu_loop allows autosleep, the game does not.
PWR_preventAutosleep == is_charging \/ hdmi \/ mode = "game"

\* last_input_at: a pressed button or the charger restarts it, and so does a reason not to sleep.
IdleNow(p) == idle /\ ~was_charging /\ p.is = {} /\ ~PWR_preventAutosleep

\* POWER has been held for a second.
PowersOff == power = "due"
Sleeps(p) == ~PowersOff /\ (IdleNow(p) \/ BTN_SLEEP \in p.jr)
Continues(p) == ~PowersOff /\ ~Sleeps(p)
PowerNow(p) == IF "POWER" \in p.jp THEN "running" ELSE power
Updates(p) ==
  /\ was_charging' = is_charging
  /\ power' = PowerNow(p)
  /\ idle' = IdleNow(p)
  /\ swallowed' = (swallowed /\ "POWER" \notin p.jp)
  /\ UNCHANGED night

\* before_sleep and PWR_powerOff, which exits.
HeldPowerOff ==
  /\ mode' = "off"
  /\ saved' = TRUE
  /\ UNCHANGED <<back, is_pressed, timers, was_charging, play, vib, ghost, swallowed, slip, combo, owed>>

\* Mutant: the pad keeps what was pressed.
ResetKept(p) == is_pressed' = p.is /\ ghost' = ghost \cap p.is

\* PAD_reset.
Reset(p) == is_pressed' = {} /\ ghost' = {}

\* HOLD_FF is held when the pad is reset: the game's frame will not see its release.
Slips == IF HOLD_FF.btn \in is_pressed /\ slip # "tap" THEN "missed" ELSE slip

\* before_sleep and PWR_fauxSleep up to PWR_waitForWake.
FauxSleep(p, next) ==
  /\ mode' = "sleep"
  /\ back' = next
  /\ Reset(p)
  /\ saved' = TRUE
  /\ was_charging' = is_charging
  /\ power' = PowerNow(p)
  /\ night' = FALSE
  /\ owed' = IF IdleNow(p) THEN owed ELSE owed - 1
  /\ slip' = Slips
  /\ UNCHANGED <<idle, play, vib, swallowed, combo>>

-----------------------------------------------------------------------------
(* Asleep: PWR_waitForWake, every 200 ms.                                  *)

\* A release of POWER.
IsWake(e) == e.kind = "key" /\ e.btn = "POWER" /\ e.v = 0
Taps == {i \in DOMAIN queue["con"] : IsWake(queue["con"][i])}
Opened == ~shut /\ ~is_open

\* PLAT_shouldWake reads up to the first release of POWER, or everything.
Eaten ==
  IF Taps = {} THEN [d \in {"con", "pad"} |-> <<>>]
  ELSE LET first == CHOOSE i \in Taps : \A j \in Taps : i <= j
       IN [queue EXCEPT !["con"] = SubSeq(@, first + 1, Len(@))]

\* Menu_loop's end: the pad is reset, the strength it found is asked for again.
Rumbles(leaves) == vib' = IF leaves /\ vib.kept > 0 THEN [vib EXCEPT !.queued = vib.kept] ELSE vib

\* Mutant: the time POWER was pressed is kept.
WakeKeepsPower ==
  /\ mode' = IF back = "exit" THEN "game" ELSE back
  /\ Rumbles(back = "exit")
  /\ idle' = FALSE
  /\ buttons' = IF back = "game" THEN {} ELSE buttons
  /\ saved' = FALSE /\ swallowed' = FALSE
  /\ owed' = owed - 1
  /\ UNCHANGED <<back, power, night, fast_forward, toggled_ff_on, ignore_menu, tap>>

\* PWR_exitSleep, after_sleep and the rest of the frame that went to sleep, with an empty pad.
Wake ==
  /\ mode' = IF back = "exit" THEN "game" ELSE back
  /\ Rumbles(back = "exit")
  /\ power' = "none"
  /\ idle' = FALSE
  /\ buttons' = IF back = "game" THEN {} ELSE buttons
  /\ saved' = FALSE /\ swallowed' = FALSE
  /\ owed' = owed - 1
  /\ UNCHANGED <<back, night, fast_forward, toggled_ff_on, ignore_menu, tap>>

\* The lid was opened, or POWER was released with the lid open.
WaitWakes ==
  /\ mode = "sleep"
  /\ \/ Opened /\ UNCHANGED queue
     \/ ~Opened /\ ~shut /\ Taps # {} /\ queue' = Eaten
  /\ is_open' = ~shut
  /\ Wake
  /\ UNCHANGED <<world, fd, is_pressed, is_charging, was_charging, ghost, slip, combo, moves>>

\* Mutant: the night is never over while the lid is shut.
NightOverOpen == night /\ ~is_charging /\ ~shut

\* Thirty minutes of sleep without the charger.
NightOver == night /\ ~is_charging

\* Nothing wakes it: events are eaten, and after thirty minutes it powers off or, charging, waits another.
WaitSleeps ==
  /\ mode = "sleep"
  /\ ~Opened
  /\ Taps = {} \/ shut
  /\ queue' = Eaten
  /\ is_open' = ~shut
  /\ mode' = IF NightOver THEN "off" ELSE mode
  /\ night' = FALSE
  /\ UNCHANGED <<back, world, fd, is_pressed, power, idle, is_charging, was_charging, play, vib, hist, moves>>

-----------------------------------------------------------------------------
(* The game's frame: input_poll_callback, and Menu_loop's entry.           *)

\* A shortcut's modifier is held.
Armed(m, p) == m.mod => "MENU" \in p.is
Toggles(p) == Armed(TOGGLE_FF, p) /\ TOGGLE_FF.btn \in p.jp
Breaks(p) == Armed(TOGGLE_FF, p) /\ TOGGLE_FF.btn \in p.jp \cup p.jr
ToggledNow(p) == IF Toggles(p) THEN ~fast_forward ELSE toggled_ff_on

\* HOLD_FF was pressed, or released and not toggled on.
Holds(p) ==
  /\ ~Breaks(p)
  /\ Armed(HOLD_FF, p)
  /\ HOLD_FF.btn \in p.jp \/ (~toggled_ff_on /\ HOLD_FF.btn \in p.jr)
FastForwardNow(p) ==
  IF Toggles(p) THEN ~fast_forward ELSE IF Holds(p) THEN HOLD_FF.btn \in p.is ELSE fast_forward

With(m, p) == m.mod /\ "MENU" \in p.is /\ m.btn \in p.jp
Brightness(p) == "MENU" \in p.is /\ {"PLUS", "MINUS"} \cap p.is # {}

\* Mutant: the brightness keys do not count.
IgnoreNowShortcuts(p) ==
  \/ "MENU" \notin p.jp /\ ignore_menu
  \/ TOGGLE_FF.mod /\ Breaks(p)
  \/ HOLD_FF.mod /\ Holds(p)
  \/ \E m \in Others : With(m, p)

\* ignore_menu, when the release of MENU is looked at.
IgnoreNow(p) ==
  \/ "MENU" \notin p.jp /\ ignore_menu
  \/ Brightness(p)
  \/ TOGGLE_FF.mod /\ Breaks(p)
  \/ HOLD_FF.mod /\ Holds(p)
  \/ \E m \in Others : With(m, p)
Opens(p) == ~IgnoreNow(p) /\ "MENU" \in p.jr
Told(p) == {c \in Controls : c.btns \cap p.is # {} /\ (c.mod => "MENU" \in p.is)}

\* The frame did not look at HOLD_FF, or the menu will hide its release.
Unseen(p) == Breaks(p) \/ ~Armed(HOLD_FF, p) \/ (Opens(p) /\ HOLD_FF.btn \in p.is)
SlipNow(p) ==
  IF HOLD_FF.btn \in p.jp \cap p.jr THEN "tap"
  ELSE IF Toggles(p) \/ (Holds(p) /\ ~Unseen(p)) THEN "none"
  ELSE IF HOLD_FF.btn \in is_pressed \cup p.jp /\ Unseen(p) /\ slip # "tap" THEN "missed"
  ELSE slip

GameFrame(checks) ==
  LET p == Poll(checks) IN
  /\ mode = "game"
  /\ Polls(checks)
  /\ \/ PowersOff /\ HeldPowerOff
     \/ Sleeps(p) /\ FauxSleep(p, "game")
     \/ /\ Continues(p)
        /\ Updates(p)
        /\ toggled_ff_on' = ToggledNow(p)
        /\ fast_forward' = FastForwardNow(p)
        /\ ignore_menu' = (IgnoreNow(p) \/ \E c \in Told(p) : c.mod)
        /\ buttons' = {c.retro : c \in Told(p)}
        /\ \/ ~Opens(p) /\ is_pressed' = p.is /\ ghost' = ghost \cap p.is /\ UNCHANGED <<mode, vib>>
           \/ Opens(p) /\ mode' = "menu" /\ Reset(p) /\ vib' = [vib EXCEPT !.kept = vib.strength, !.queued = 0]
        /\ slip' = SlipNow(p)
        /\ combo' = (("MENU" \notin p.jp /\ combo) \/ Brightness(p) \/ \E m \in Others \cup {TOGGLE_FF} : With(m, p))
        /\ saved' = FALSE
        /\ UNCHANGED <<back, tap, owed>>
  /\ UNCHANGED <<world, is_charging, moves>>

\* The core asks for rumble.
CoreRumble(strength) ==
  /\ Move
  /\ mode = "game"
  /\ vib' = [vib EXCEPT !.queued = strength]
  /\ UNCHANGED <<mode, back, world, queue, fd, is_open, is_pressed, timers, is_charging, was_charging, play, hist>>

-----------------------------------------------------------------------------
(* The menu's loops.                                                       *)

\* PAD_tappedMenu.
TapNow(p) == IF "MENU" \in p.jp THEN TRUE ELSE tap /\ ~("MENU" \in p.is /\ {"PLUS", "MINUS"} \cap p.jp # {})
Tapped(p) == TapNow(p) /\ "MENU" \in p.jr

\* Where a frame of the menu goes: B and a quick tap of MENU leave it or a list below it, A may
\* open the screen that binds a button; B also leaves the list after a binding.
Goes(p, next) ==
  \/ mode = "menu" /\ next = "exit" /\ ("B" \in p.jp \/ Tapped(p))
  \/ mode = "menu" /\ next = "bind" /\ "A" \in p.jp
  \/ mode = "menu" /\ next = "menu"
  \/ mode = "deferred" /\ next = "menu" /\ "B" \in p.jp

\* The loop's end, or its next round.
Going(p, next) ==
  /\ mode' = IF next = "exit" THEN "game" ELSE next
  /\ IF next = "exit" THEN Reset(p) ELSE is_pressed' = p.is /\ ghost' = ghost \cap p.is
  /\ Rumbles(next = "exit")

MenuFrame(checks, next) ==
  LET p == Poll(checks) IN
  /\ Polls(checks)
  /\ Goes(p, next)
  /\ \/ PowersOff /\ HeldPowerOff
     \/ Sleeps(p) /\ FauxSleep(p, next)
     \/ Continues(p) /\ Updates(p) /\ Going(p, next) /\ tap' = TapNow(p)
        /\ UNCHANGED <<back, fast_forward, toggled_ff_on, ignore_menu, buttons, saved, slip, combo, owed>>
  /\ UNCHANGED <<world, is_charging, moves>>

\* What a poll that no PWR_update follows drops.
Drops(p) == swallowed' = (swallowed \/ BTN_SLEEP \in p.jr)

\* A continues, saves, loads or quits: the loop breaks before PWR_update.
MenuConfirm(checks) ==
  LET p == Poll(checks) IN
  /\ mode = "menu"
  /\ Polls(checks)
  /\ "A" \in p.jp
  /\ Going(p, "exit")
  /\ tap' = TapNow(p)
  /\ Drops(p)
  /\ UNCHANGED <<back, world, timers, is_charging, was_charging, fast_forward, toggled_ff_on, ignore_menu, buttons, saved, slip, combo, owed, moves>>

\* The buttons a mapping may have.
Local(b) == b \notin {"POWER", "MENU", "PLUS", "MINUS", "ANALOG_UP", "ANALOG_DOWN"}

\* Option_bindButton: polls until such a button is pressed.
BindFrame(checks) ==
  LET p == Poll(checks) IN
  /\ mode = "bind"
  /\ Polls(checks)
  /\ mode' = IF (\E b \in p.jp : Local(b)) THEN "deferred" ELSE mode
  /\ is_pressed' = p.is
  /\ ghost' = ghost \cap p.is
  /\ Drops(p)
  /\ UNCHANGED <<back, world, timers, is_charging, was_charging, play, vib, saved, slip, combo, owed, moves>>

\* The list after a binding: no PWR_update until MENU is released or B leaves it.
DeferredFrame(checks) ==
  LET p == Poll(checks) IN
  /\ mode = "deferred"
  /\ Polls(checks)
  /\ "B" \notin p.jp
  /\ mode' \in {IF "MENU" \in p.jr THEN "menu" ELSE mode} \cup (IF "A" \in p.jp THEN {"bind"} ELSE {})
  /\ is_pressed' = p.is
  /\ ghost' = ghost \cap p.is
  /\ Drops(p)
  /\ UNCHANGED <<back, world, timers, is_charging, was_charging, play, vib, saved, slip, combo, owed, moves>>
-----------------------------------------------------------------------------
(* The threads, and time.                                                  *)

\* PWR_monitorBattery, every five seconds.
BatteryPoll ==
  /\ is_charging # charger
  /\ mode # "off"
  /\ is_charging' = charger
  /\ UNCHANGED <<mode, back, world, queue, fd, is_open, is_pressed, timers, was_charging, play, vib, hist, moves>>

\* VIB_thread: a stop is put off for a few rounds.
VibRound ==
  IF vib.queued = 0 /\ vib.defer < DEFER_FRAMES THEN [vib EXCEPT !.defer = @ + 1]
  ELSE [vib EXCEPT !.strength = vib.queued, !.defer = 0]
VibThread ==
  /\ vib.queued # vib.strength
  /\ mode # "off"
  /\ vib' = VibRound
  /\ UNCHANGED <<mode, back, world, queue, fd, is_open, is_pressed, timers, is_charging, was_charging, play, hist, moves>>

Drained == queue["con"] = <<>> /\ queue["pad"] = <<>> /\ is_open = ~shut
Same == UNCHANGED <<mode, back, world, queue, fd, is_open, is_pressed, is_charging, was_charging, play, vib, hist, moves>>

\* A second passes with POWER down.
ElapseHold ==
  /\ Awake /\ Drained
  /\ power = "running"
  /\ power' = "due"
  /\ UNCHANGED <<idle, night>>
  /\ Same

\* Thirty seconds pass without a button, or without a PWR_update.
ElapseIdle ==
  /\ Awake /\ Drained
  /\ ~idle
  /\ \/ mode = "menu" /\ power = "none" /\ is_pressed = {} /\ ~was_charging
     \/ mode \in {"bind", "deferred"}
  /\ idle' = TRUE
  /\ power' = IF power = "running" THEN "due" ELSE power
  /\ UNCHANGED night
  /\ Same

\* Thirty minutes pass asleep.
ElapseNight ==
  /\ mode = "sleep" /\ Drained
  /\ ~night
  /\ night' = TRUE
  /\ UNCHANGED <<power, idle>>
  /\ Same

-----------------------------------------------------------------------------
Init ==
  /\ mode = "game" /\ back = "game"
  /\ down = {} /\ tilt = [a \in Axes |-> 0]
  /\ \E st \in Starts : plugged = st.plugged /\ charger = st.charger /\ hdmi = st.hdmi
  /\ shut = FALSE /\ is_open = TRUE
  /\ queue = [d \in {"con", "pad"} |-> <<>>]
  /\ fd = IF plugged THEN "live" ELSE "none"
  /\ is_pressed = {}
  /\ power = "none" /\ idle = FALSE /\ night = FALSE
  /\ is_charging = charger /\ was_charging = charger
  /\ fast_forward = FALSE /\ toggled_ff_on = FALSE /\ ignore_menu = FALSE /\ tap = FALSE
  /\ buttons = {}
  /\ vib = [queued |-> 0, strength |-> 0, defer |-> 0, kept |-> 0]
  /\ saved = FALSE /\ ghost = {} /\ swallowed = FALSE /\ slip = "none" /\ combo = FALSE /\ owed = 0
  /\ moves = 0

Player ==
  \/ \E k \in Keys : Key(k)
  \/ \E a \in Axes, v \in -1..1 : Tilt(a, v)
  \/ Unplug \/ Plug \/ Lid \/ Charger
  \/ \E s \in 0..1 : CoreRumble(s)
Frame ==
  \E checks \in BOOLEAN :
    \/ GameFrame(checks)
    \/ \E next \in {"menu", "bind", "exit"} : MenuFrame(checks, next)
    \/ MenuConfirm(checks)
    \/ BindFrame(checks)
    \/ DeferredFrame(checks)
Asleep == WaitWakes \/ WaitSleeps
Elapse == ElapseHold \/ ElapseIdle \/ ElapseNight
Next == Player \/ Frame \/ Asleep \/ BatteryPoll \/ VibThread \/ Elapse

\* The menu's frames, the wake loop, the threads and time go on; nothing is assumed of the player.
Fairness ==
  /\ WF_vars(MenuFrame(FALSE, "menu"))
  /\ WF_vars(Asleep)
  /\ WF_vars(BatteryPoll) /\ WF_vars(VibThread)
  /\ WF_vars(ElapseIdle) /\ WF_vars(ElapseNight)
Spec == Init /\ [][Next]_vars /\ Fairness

-----------------------------------------------------------------------------
(* Properties.                                                             *)

Pads == SUBSET Buttons
TypeOK ==
  /\ mode \in {"game", "menu", "bind", "deferred", "sleep", "off"}
  /\ back \in {"game", "menu", "bind", "exit"}
  /\ down \subseteq Keys /\ tilt \in [Axes -> -1..1]
  /\ {plugged, shut, charger, hdmi, is_open, idle, night, is_charging, was_charging} \subseteq BOOLEAN
  /\ {fast_forward, toggled_ff_on, ignore_menu, tap, saved, swallowed, combo} \subseteq BOOLEAN
  /\ fd \in {"none", "live", "dead"} /\ (fd # "live" => queue["pad"] = <<>>)
  /\ is_pressed \in Pads /\ ghost \subseteq is_pressed
  /\ {"DPAD_UP", "DPAD_DOWN"} \subseteq is_pressed => \E k \in Keys : k.btn \in {"DPAD_UP", "DPAD_DOWN"}
  /\ ~({"ANALOG_UP", "ANALOG_DOWN"} \subseteq is_pressed)
  /\ power \in {"none", "running", "due"}
  /\ vib.queued \in 0..1 /\ vib.strength \in 0..1 /\ vib.kept \in 0..1 /\ vib.defer \in 0..DEFER_FRAMES
  /\ slip \in {"none", "missed", "tap"}
  /\ moves \in 0..MaxMoves

\* An event is about the button.
Touches(e, b) == IF e.kind = "key" THEN e.btn = b ELSE b \in {Neg(e.kind), Pos(e.kind)}

\* The button is held on the device.
Holding(d, b) ==
  \/ \E k \in down : k.dev = d /\ k.btn = b
  \/ \E a \in Axes : a.dev = d /\ ((tilt[a] = -1 /\ b = Neg(a.kind)) \/ (tilt[a] = 1 /\ b = Pos(a.kind)))

\* The button is held on some device, or an event that ends it is on its way.
Held(b) == \E d \in {"con", "pad"} : Holding(d, b) \/ \E i \in DOMAIN queue[d] : Touches(queue[d][i], b)

\* A button the pad reports as pressed is held, or its release waits to be read, through sleeps,
\* menus and events eaten by the wake loop; only a gamepad that goes away leaves its buttons
\* behind (PLAT_pollInput, PLAT_shouldWake, PAD_reset).
NoStuckButton == mode # "off" => \A b \in is_pressed \ ghost : Held(b)

\* But for autosleep, the console falls asleep and wakes no more often than POWER is released or
\* the lid is moved: the release that woke it does not put it to sleep again
\* (PWR_update, PWR_waitForWake, PLAT_shouldWake).
OneTurnPerCause == owed >= 0

\* While the power-off timer runs POWER is held, or its release waits to be read or was read since
\* by a loop that does not call PWR_update: a tap alone never becomes a power off (PWR_update).
PowerTimerMeansHeld ==
  Awake /\ power # "none" => Held("POWER") \/ swallowed

\* When the console powers off, from a held button or after a night asleep, the game was saved
\* since it last ran (PWR_update, PWR_waitForWake).
PowerOffSaved == mode = "off" => saved

\* Fast forward is on because it was toggled, because HOLD_FF is pressed, or because its release
\* was lost to a reset pad; and once toggled it stays on, but for a press and release of HOLD_FF
\* within one poll (input_poll_callback).
FastForwardHasReason ==
  /\ fast_forward => toggled_ff_on \/ HOLD_FF.btn \in is_pressed \/ slip # "none"
  /\ toggled_ff_on => fast_forward \/ slip = "tap"

\* A MENU press that was used with the brightness keys or for a shortcut does not open the menu
\* when it ends, however many sleeps and menus lie between (ignore_menu).
NoMenuAfterCombo == [][mode = "game" /\ mode' = "menu" => ~combo']_vars

\* Left alone in the menu on battery, with no HDMI and no button stuck by a lost gamepad, the
\* console sleeps (PWR_update's autosleep).
SleepsWhenIdle ==
  ~<>[](mode = "menu" /\ down = {} /\ (\A a \in Axes : tilt[a] = 0) /\ ~charger /\ ~hdmi /\ ghost = {})

\* A console asleep without its charger does not stay asleep for ever: it is woken or powers off
\* (PWR_waitForWake).
NightEnds == ~<>[](mode = "sleep" /\ ~charger)

\* A released POWER wakes a sleeping console whose lid stays open (PLAT_shouldWake).
Released == \E i \in DOMAIN queue["con"] : queue["con"][i].btn = BTN_SLEEP /\ queue["con"][i].v = 0
TapWakes == (mode = "sleep" /\ Released /\ ~shut) ~> (mode # "sleep" \/ shut)

\* The motor takes the strength last asked for, though stops are put off (VIB_thread).
MotorFollows == ~<>[](mode # "off" /\ vib.queued # vib.strength)

\* README.txt: "closing the lid sleeps, opening it wakes".  A console that has seen its lid
\* closed is not awake.  Refuted (README, known deviations).
LidShutSleeps == Awake => is_open

\* What the pad and the shortcuts hold on to has a cause (PAD_poll, PAD_reset).
ButtonsFollow == TypeOK /\ NoStuckButton /\ FastForwardHasReason

\* Sleep and power off come when they are asked for, and save first (PWR_update).
PowerIsSafe == OneTurnPerCause /\ PowerTimerMeansHeld /\ PowerOffSaved

\* What has to happen while nobody touches the console (PWR_update, PWR_waitForWake, VIB_thread).
Settles == SleepsWhenIdle /\ NightEnds /\ TapWakes /\ MotorFollows
=============================================================================
