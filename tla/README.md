# Verification of darkUI

TLA+ models of [darkUI](../src/README.md), a launcher and libretro frontend for
two handhelds (rg35xx, rg35xxplus). Each module is translated from the C source
under `src/`; TLC checks small instances, TLAPS proves the safety
properties of ten components for every value of the constants. `PROJECT.json`
maps every definition to the lines it models and lists the components, the runs,
a mutant that each property catches, the theorems and the hazards.

## 1. The system

darkUI is a set of processes that hand over to each other through files.
`MinUI.pak/launch.sh` runs **minui** (the launcher); minui writes a command to
`/tmp/next` and ends; the script runs it, usually **minarch** with a libretro
core, and starts minui again afterwards. **keymon** runs beside them and shares
the settings struct with them; **umtprd** serves the card to a USB host. The
processes agree on what is on the card: saves, states, slot files, options,
`recent.txt`, collections, `auto_resume.txt`, and in `/tmp`: `last.txt`,
`resume_slot.txt`, `change_disc.txt`.

| Component | State it keeps | Operations | Interacts with | Hard behaviour | Correct when | Module |
|---|---|---|---|---|---|---|
| Audio ring (`common/snd.c`) | ring buffer, `frame_in/out/filled`, resampler's static `diff` | `SND_init`, `SND_batchSamples`, `SND_audioCallback`, `SND_quit` | core thread and SDL's audio thread, one lock | lock released in the middle of a batch, full against empty | frames come out in order, none lost; a batch ends; no drift | AudioRing |
| Threaded video (`minarch.c` main loop) | `thread_video`, `was_threaded`, `toggle_thread`, `should_run_core`, `frame_ready`, `show_menu`, `quit` | `main`, `coreThread`, the libretro callbacks, mode switches | main thread, coreThread, `core_mx`/`core_rq` | unlocked flags, cancel and join, condition variable | core never reentered; no lost wakeup; quit works | ThreadedVideo |
| Saves and quicksave (`minarch.c`, `menu.c`, `minui.c`, `pwr.c`) | battery saves, RTC, states, disc notes, slot file, resume marker, `menu.slot`, `menu.disc`, `game.path` | write, load, save, resume, sleep, power off, quit | minarch, minui, the card | power cut anywhere, failing writes, three copies of "the disc" | a save torn only by a named gap; a sleep can lose its battery; the quicksave resumes | Saves |
| Launcher (`minui.c`, `collections.c`) | stack of directories with windows, `restore_*`, `should_resume`, `recents`, `/tmp/last.txt` | scroll, jump, open, close, resume, delete a collection, launch, come back | minarch through files; `launch.sh` | remembered positions, stale flags, lists rebuilt by another process | windows inside their lists; positions restored to their own list; the way back is found | Launcher |
| Recently Played and collections (`minui.c`, `menu.c`) | `recents`, `recent.txt`, `change_disc.txt`, `Collections/*.txt`, the picker's rows | `hasRecents`, `addRecent`, `saveRecents`, the picker, deletion | minui, minarch, the owner of the card | two names for one game, files truncated in place or renamed unsynced, a list at its limit | one row per game, newest first; editing takes nothing else away unless the write itself failed | Lists |
| Settings (`libmsettings`, `msettings_core.c`, keymon, syncsettings) | shared struct, `msettings.bin`, its temporary file | `InitSettings`, `Set*`, hot keys, port watcher, naps | keymon's two threads and the running program | unlocked shared memory, one temporary file for all writers, cable moved meanwhile | the file settles on what is shared; the mixer plays the level set; no change missed | Settings |
| Input and power (`pad.c`, `pwr.c`, `platform.c`, `minarch.c`, `menu.c`) | pressed buttons, shortcuts, timers, lid, charger, rumble | `PAD_poll`, `PWR_update`, sleep and wake, the game's and the menu's frame, VIB and battery threads | kernel queues, core, menu | releases read where nobody looks, unplugged pads, a timer nobody stops | no stuck button; sleeps and powers off for a reason; saved before | Input |
| Core options and controls (`minarch.c`, `menu.c`) | option values, locks, bindings, which file they came from | `Config_load/read/write/restore`, menu, shortcuts, the core's reports | core, menu, three files | files shadow each other; the core reports its list early or late | the saved value comes back; what is in force is what the core sees | Options |
| Scalers (`scaler.c`) | none that outlives a call | C and NEON scalers, line and grid effects | renderer | unrolled blocks that end on an equality of pointers | draws the scaled frame, nothing outside, returns | Scaler |
| Renderer (`minarch.c`, both `platform.c`, `menu.c`) | geometry, surface or texture, effect, pages | `selectScaler`, flip, effects, menu, `Menu_scale` | core, menu, scalers | what was worked out for another size, option or screen | the picture fits, is current, and leaves nothing behind | Renderer |
| MTP files (`uMTP-Responder`) | object database, watches, what the host was told | host operations, inotify events | io thread, inotify thread, programs on the console | events after the fact, entries added twice, a database freed | database and host follow the card, but for a late or lost event | MtpFiles |
| MTP connection (`uMTP-Responder`) | `stop`, `cancel_req`, `transferring_file_data`, endpoints | endpoint 0 events, commands, transfers, cancel | main thread, io thread, host | flags read without their mutex, signals, unplugging | an OK means the whole object unless the card lost a part unseen; served again after every end | MtpUsb |
| Update and install scripts, Wi-Fi, tools, zipped games, text and drawing | files, flags, none | straight-line I/O and single screens | | | | none |

The hard behaviours are listed one by one, at the line where they bite, under
"hazards" in `PROJECT.json`.

## 2. Modules

```
AudioFifo  <- refined by -  AudioRing      <-  ThreadProofs
                            ThreadedVideo  <-  ThreadProofs
                            Input          <-  InductionProofs
                            Lists          <-  InductionProofs
                            Saves          <-  SavesProofs
                            Launcher       <-  LauncherProofs
                            Settings       <-  SettingsProofs
                            Options        <-  OptionsProofs
                            Renderer       <-  RendererProofs
                            MtpUsb         <-  MtpProofs
                            MtpFiles       <-  MtpProofs
                            Scaler             (no proofs)
```

Each is instantiated for TLC by a module MC*Name* with a cfg. ThreadProofs holds
the two components where two threads share memory, InductionProofs the two whose
proofs go through a sequence element by element, and the lemmas for that,
MtpProofs the two halves of the MTP responder.

The models meet at named points: ThreadedVideo's menu is where Saves', Options',
Lists' and Renderer's menu actions happen, and its teardown is Core_quit; Saves
and Launcher share the slot file and the resume slot; Lists keeps the rows that
Launcher scrolls; Input's sleep is the sleep of Saves, AudioRing and Settings;
Renderer calls what Scaler draws (the 1x line effect writes past its last row:
`OneLineDraws`); MtpUsb moves the contents of the files that MtpFiles names.

### AudioRing, AudioFifo

The variables are the fields of `struct SND_Context`, the resampler's static
`diff` and the locals of `SND_batchSamples`. One action is what a thread does
between two points where the other can run: `BatchBegin` (lock), `BatchUnlock`
and `BatchRelock` (around `SDL_Delay`), `BatchPush` (one frame through
`SND_resampleNone` or `SND_resampleNear`), `CallbackBegin/Frame/End`. A frame is
the number of the input frame it came from; `log` and `heard` are history.
`AudioFifo` is the promise: a queue that accepts and plays frames in order and
holds a bounded number of them. `RingInit`, `RingNext`, `RingSpec` and
`RingFairSpec` are the specification.

### ThreadedVideo

The variables are the globals of `minarch.c`; `main` and `core` say where the
two threads are. coreThread's critical sections contain no wait, so each is one
step taken while main does not hold `core_mx`; main holds it over several. A
core's run makes a subset of the callbacks poll, video and audio (the NULL
repeat frame that GET_CAN_DUPE allows is no video callback). Spurious wakeups,
deferred cancellation, `hdmimon` and the teardown are actions.

### Saves

`cache` is what processes see, `disk` what survives a power cut. A handler is a
`plan`: the sequence of its file operations, one step each, and each write of a
save is four steps (open a temporary file, fill, rename, sync), every one of
which may fail as the code lets it. The notes and the marker go through
`putFile`, in place: they may reach the card empty, may fail, and nobody hears
of it. `PowerCut` may happen between any two steps, `Writeback` is the kernel: it writes
names and data in any order, so that a save renamed over and not yet synced
(`AtRisk`) may be on the card empty. `spoilt` is the history of saves for which
such a cut, or an unnoticed failure of fclose, has happened.
`mem` is the core's progress, `drive` is `game.path`, `menu` is `menu.slot`,
`menu.disc` and Menu_loop's `rom_disc`.

### Launcher

A frame of minui's loop is one action; a frame that both scrolls and presses is
a `Move` followed by the press, as the code orders them. `stack` is the array of
open directories, each with the list it was opened with and its window
`selected/start/end`. `Info` (a constant) describes the card: kind, contents,
auto-launch file, letter, path. `ui = "dead"` is a read of an entry that is not
there, after which launch.sh starts minui again. `loadLast` takes one part of
the path per step. `closed`, `forgot` and `from` are history; `from` says where the path in
`/tmp/last.txt` was saved and whether for a game, a tool or a change of the cable,
each of which saves a path of its own and so comes back elsewhere (`FoundAgain`).

### Lists

`recent` and `coll` are the files as the programs see them, `disk` what survives a
cut; a path is a game and a disc. minui's start (`Boot`, `GameOver`, `Restart`) is
one action with the whole of `hasRecents`, its `saveRecents` included; `openRom`
is the launch with `addRecent`. `hasRecents` reads the lines one after another
with `Merge`; `Filter` is the loop that copies what passes a test. The picker
(`Menu_collections`, `Menu_toggleCollection`, `Menu_newCollection`) runs in
minarch. Its opens and writes may fail: an append leaves a part of its line
(`AppendedPart`), a removal renames whatever was written (`WithoutPart`).
`rewrite` is the history of each collection's last removal: on the card, renamed
but not synced, or cut short. A line cut short, or two lines joined, is `Junk`.
`plays` is the history the rows are compared with.

### Settings

Three threads: keymon's keys, keymon's watcher, the program. Each setter is cut
where another thread can come between: read, store, mixer or backlight call,
open, write and rename of the file. `shm` has the named object and an orphan;
`past` records what excuses a difference (two setters overlapped, a client came
before the host had read the file, a call failed, the cable moved before somebody
had dealt with its last move), so that the properties speak of every other case.
A start beside a keymon that is in the middle of a setter costs `Crowded` acts, as
it multiplies the states most.

### Input

One action per frame of the game, the menu and the binding screen, per round of
the wake loop, the battery thread and the rumble thread; the player moves keys,
hats, sticks, the lid, the charger and the gamepad between them. A timer is
`running` or `due`. `ReadAll` is one poll's loop over the queued events. `ghost`,
`swallowed`, `slip`, `combo` and `owed` are history: buttons of a lost gamepad,
releases of POWER that no `PWR_update` saw since the timer started, escapes of the
fast forward button, a MENU press that was used, causes to sleep or wake not yet
acted on.

### Options

A file is a function from keys to labels. A launch reads defaults, system.cfg,
the pak's default.cfg and the player's file in the code's order, before the core
is initialised and again after the game is loaded; the core reports its options
before, between or twice. `saved` is what the player saved and nothing replaced.

### Scaler

One call of a scaler to the pixel: a source pixel is its address, a pixel written
is its source and its shade. The loops step as the code does, row by row and
block by block, ending on their equality of pointers.

### Renderer

selectScaler's geometry as operators on exact fractions, and the two backends
(pages and scalers; textures and the GPU) as the state that may be out of date:
`rd`, `vid`, `fx`, `pg`. The menu takes the screen's size, switches the effect
off, draws `Menu_scale`'s copies and gives the screen back.

### MtpFiles

`fs` is the kernel (nodes, events, watches), `fs_db` the responder's handles,
`told` what the host knows. A round of the inotify thread changes the database
under the lock and leaves what it has to announce in `adding` or `removing`;
`Push` tells the host later, with no lock held, and `PushDropped` is `write_usb`
with a cancel pending. `missed` is the history of what the host was not told of in
time. A host operation is atomic against the inotify thread (`inotify_mutex`) and
not against programs on the console, which come between a listing's read of the
folder and its watch. `blind` and `renamed` record what the code cannot have seen:
a folder is blind when it changed between a listing's read of it and its watch,
when it moved or was removed, when its own listing dropped its watch, and until a
listing has opened it again.

### MtpUsb

`holed` is the history of transfers of which the card lost a part with nobody
looking: a write that failed or came short, a read that came short (`CardLoses`).
`ep0` and `io` say where the two threads are; a blocked read or write ends when
the host takes part, a signal comes or the connection ends. `lock = "orphan"` is
`inotify_mutex` held by a thread that was cancelled.

## 3. Runs

All runs pass. A property with parts is the conjunction of the definitions named
in brackets, each stated and commented in the module.

| Run | Properties |
|---|---|
| `audio_ring` | `RingHoldsBacklog`: the ring's contents are what was pushed and not played; `NoDrift` [`ResampleExact`, `DiffIsClockSkew`]; `BatchReturns`; `FifoSpec`: AudioRing implements AudioFifo |
| `threaded_video` | `CoreRunExclusive`, `CreatesOneThread`, `MenuPausesCore`, `NoLostWakeup`, `QuitLeavesLoop` |
| `saves` | `TornOnlyAtRisk`, `FinishedSavesAreDurable`, `SlotHasState`, `SafeToStop` [`SleepIsSafe`, `QuitKeepsBattery`], `QuicksaveResumes` (the disc included) |
| `launcher` | `Browses` [`TypeOK`, `WindowsShown`, `WildOnlyThere`], `NothingStale` [`RestoresItsOwn`, `FlagLingersInDead`], `ComesBack` (`FoundAgain`: after a game, a tool or a change of the cable) |
| `lists` | `ListsAreRight` [`ListsTypeOK`, `OneRowPerGame`, `NewestFirst`, `Remembered`, `PickerTells`], `ListsAreKept` [`LastPlayedFirst`, `OthersKept`] |
| `settings` | `FileIsSound` [`TypeOK`, `SettledFileIsCurrent`, `TornHeals`], `MixerFollows`, `NothingMissed` [`PortSeen`, `DarkOnlyUnderHdmi`, `NoStuckKey`] |
| `input` | `ButtonsFollow` [`TypeOK`, `NoStuckButton`, `FastForwardHasReason`], `PowerIsSafe` [`OneTurnPerCause`, `PowerTimerMeansHeld`, `PowerOffSaved`], `NoMenuAfterCombo`, `Settles` [`SleepsWhenIdle`, `NightEnds`, `TapWakes`, `MotorFollows`] |
| `options` | `Effective`, `SavedReturns`, `InForce` [`TypeOK`, `SharpnessFollows`, `CoreSees`] |
| `scaler` | `DrawsExactly` [`TypeOK`, `StaysInside`, `DrawsTheFrame`, `OneLineDraws`], `Returns` |
| `renderer` | `PictureFits` [`TypeOK`, `DrawsInPage`, `PictureInSurface`, `PictureOnScreen`, `MenuScaleInBounds`], `PictureIsCurrent` [`GeometryIsCurrent`, `SurfaceIsForPicture`, `TargetIsReady`], `CleanPages` [`NoRemains`, `OverlayGoes`], `DrawsAsAsked` [`ScalerIsCurrent`, `EffectAfterMenu`] |
| `mtp_files` | `DbIsSound` [`TypeOK`, `NoTwins`], `InStep` [`Synced`, `HostView`] |
| `mtp_usb` | `TransferIsSound` [`TypeOK`, `OkIsWhole`], `DropIsSafe`, `Served` |

### Bounds, and why they are enough

- **AudioRing**: 4 slots, rates {2, 3, 7} (up, down, equal, not multiples of
  each other), 2 frames per callback, batches of 2, 2 tries, calls of up to 3
  frames, 7 input frames. The ring wraps, fills and empties more than once, a
  call spans several batches, and the waiting loop gives up and restarts.
- **ThreadedVideo**: all six buttons, 3 button events. Each known deviation
  needs at most 3; the theorems hold for any number.
- **Saves**: one slot, two discs, 2 rounds of progress (so that an old and a new
  save differ), one failing operation and one cut; a core with states and one
  with a clock. Once the second disc is in play, the constraint `Bounded` keeps
  to one round and no failure: there the disc is what the run is about.
- **Launcher**: 2 rows per screen, lists of 0 to 3 entries (shorter than, equal to
  and longer than a page), 2 letters kept of 3, one recent, a card of 16 entries
  with a collated console, an auto-launch folder, a folder whose m3u lists a
  missing disc, two collections (one with a tool in it), a tool; 7 stands for an
  uninitialised int.
- **Lists**: two games of one file and one of two discs, three rows, Favorites and
  one more collection, which may have been written by hand; five acts: it takes
  five to fill the list, change a disc and launch again. A write that fails costs
  two, as it multiplies what a file can hold: which leaves three for what comes
  before and after it.
- **Settings**: both devices, volume 0-2, brightness 0-1, 2 events waiting, 2
  acts from outside (keys, cables, starts, naps, failures, cuts); every thread
  may be anywhere in a setter when they come. A start while keymon is in a setter
  costs both acts (`Crowded`). The picture's way into darkness is longer than two
  acts (a start, a nap, the cable out and in): beyond this run the theorems of
  SettingsProofs speak of any number, and two larger instances have been checked
  once: three acts on levels of one step (14.7 million states, ten minutes), and
  the rg35xxplus alone with four acts, no events and `Crowded` 4.
- **Input**: POWER, MENU and the keys of two shortcuts on two devices, a hat, a
  stick, lid and charger, 5 moves, 2 events between two polls, 3 rounds of the
  rumble thread.
- **Options**: two games, one option of the core, two of the frontend, one
  control and one shortcut; 4 acts over 3 launches: save, relaunch, change the
  pak, relaunch.
- **Scaler**: widths {0, 1, 7, 8, 17, 32, 49} (around every block size), heights
  0-3, rows of up to 102 pixels, every scale, pitches exact, wider and odd.
- **Renderer**: 640x480 on both devices and 1280x720 over HDMI, six cores with
  nine frame sizes, one larger than the screen; a page of 1920x1440. No bound on
  the steps: the state is finite.
- **MtpFiles**: two names, folders two deep, a card that starts with a folder and a
  file in it, 3 changes, 4 handles: enough for a folder to be removed and made again
  under its own listing. **MtpUsb**:
  objects of two packets, 4 transactions, 3 faults (an open, read or write of the
  card that fails, an endpoint 0 error). It takes at most three faults
  for one to meet what another left behind. In MtpFiles an event that is dropped
  counts as one of the changes; one that comes late costs nothing.

Symmetry (names of files and games that the code treats alike) is used where
only safety is checked. Deadlock is not checked where a bound ends every
behaviour.

### Fairness

- **AudioRing**: weak fairness for each thread's steps, strong for taking the
  lock, which the other thread keeps releasing (SDL's lock is a mutex and the
  writer sleeps between two tries). The player may leave the device asleep:
  `BatchReturns` excludes only a device that stays paused again and again.
- **ThreadedVideo**: weak fairness for both threads and for the callbacks of a
  run, strong for what needs `core_mx`.
- **Input**: weak fairness for the menu's frames, the wake loop, the battery and
  rumble threads, and for time passing. **MtpUsb**: weak fairness for the io
  thread, the main thread and the host's polling. **Scaler**: weak fairness for
  the one thread there is.
- No action of the player, the core's rumble, the cable or the card is ever
  assumed to happen. The other modules check safety and action properties only.

## 4. Proofs

All proofs are checked by TLAPS, and the only assumptions are the named ASSUMEs
on the constants, which TLC evaluates on every instance. Each module of proofs
has one inductive invariant, a lemma for each action (or group of actions) that
says the action keeps it, and the theorems that follow. A bound of the model
(`MaxActs`, `MaxFaults`, ...) is any natural number there, so a theorem speaks of
any number of failures, cuts, keys and faults.

- **ThreadProofs**, the audio ring: `RingHoldsBacklog` alone is not inductive:
  that the writer's slot is free rests on `RingShape`, that the indices have one
  writer at a time on `LockDiscipline`, that `SND_init` drops nothing on
  `BeforeInit`. From `RingInv`: `RingTypes`, `RingIsFaithful`, `RingLocked`, and
  `RingImplementsFifo` (the refinement, step by step). `RingNeverDrifts` has an
  invariant of its own, `DriftInv`: `diff` is the difference of two clocks that
  tick in multiples of the two rates, so which input frame the n-th output frame
  repeats does not depend on how the input was cut. Threaded video: `VideoInv`
  adds which thread exists in which mode at which point of main's loop
  (`ModeInv`), that a thread outside the core owes no callback (`OwedInv`), and
  what holds from a press of MENU until the menu ends (`PausedInv`). From it:
  `VideoTypes`, `CoreNeverReentered`, `OneCoreThread`, `MenuHoldsCore`,
  `SaveQuitWakes`.
- **InductionProofs**. What a loop over a sequence computes is shown place by
  place: if a claim failed somewhere it would fail at a least place (`NatMin`,
  from the library's well-founded induction), and there the step before
  contradicts it (`UpTo`). A loop is a recursive function, so that its step is an
  equation (`ReadAllReads`, `FilterSteps`, `hasRecentsSteps`).
  - Input, `InputInv`. That no button is stuck needs to know that the last queued
    event of a button tells how its device holds it (`Latest`), for otherwise a
    poll could leave a button pressed whose release has been read; and that a
    pressed button rests on a device that minarch still reads (`Kept`). `Owed`
    counts what has still to be seen, a moved lid and releases of POWER, and asks
    for two of them where one would wake the console and the other put it to
    sleep. `Timed`, `SavedAsleep`, `FastOK` and `ComboOK` say the same of the
    power-off timer, the save, fast forward and a used MENU press. From it:
    `InputKeeps`, `ButtonsAlwaysFollow`, `PowerAlwaysSafe`, `ComboNeverOpens`.
    `InputAssumption` says that a gamepad has no POWER key and that no key is one
    of a stick's two directions.
  - Lists, `ListsInv`. Rows become lines and lines rows, so what is shown is
    carried by a claim about any list of paths, `Good`: above the first line of a
    game that was launched are only games launched later (`Ordered`), its lines
    name files that are there (`Here`), and the last `MAX_RECENTS` - 1 games
    launched have a line (`HasAll`). It holds of minui's rows (`Shown`) and of
    recent.txt unless the last save of it failed (`Stored`). That `hasRecents`
    keeps it (`RowsGood`) and that a launch does (`AddedGood`) rests on there
    being fewer games above one than launched since, which is a pigeonhole
    argument (`Fits`); it needs one row per game, hence `Single`, and fails once
    an m3u has been away (`M3usStay`). `Playing` and `Notes`: the game that runs,
    or that the marker names, was launched last and has the first line, and the
    changed disc is one of its discs. From it: `ListsAlwaysRight`,
    `ListsAlwaysKept`. `ListsAssumption` says that the line which stands for
    rubbish names no game.
- **SavesProofs**: `SavesInv` says that card and cache differ, among saves, only
  in the file between its rename and its sync (`Unsynced`); that a torn save is that
  one or has been `spoilt` (`SpoiltInv`); that a state once on
  the card stays (`StatesStay`); and that the slot's note is planned only behind
  the write of its state, or when the state is there (`SlotOK`). From it:
  `SavesTypes`, `SavesTornOnlyAtRisk`, `SavesDurable`, `SlotFileHonest`.
  `SafeWhereItStops` needs to know how far each handler is: `StopInv` says of the
  plans of a nap, a power-off, a quit and a launch which steps are left and that
  what the missing ones wrote is on the card. `QuicksaveComesBack` needs
  `ResumeInv`: from the power-off on, state 9 and the marker stay as written until
  the launcher has turned the marker into the command that resumes.
- **LauncherProofs**: `BrowserInv`. A window that is restored was saved for the
  entry that is now opened again (`RestoreOK`), and it still fits because a
  directory lists what it listed before for as long as minui runs (`Current`);
  every directory was opened from the entry under its parent's cursor
  (`Chained`), which is what makes the saved entry the right one; and while
  `loadLast` walks down a path the directory it comes to is at its first row
  (`LoadingOK`), or selecting a row could leave the cursor above the window. From
  it: `BrowsingIsSound`, `NothingIsStale`. `CardAssumption`,
  `NestingAssumption` and `TreeAssumption` say what every card is: what has
  something under it is a directory, only the root lists Collections, and a
  collection lies one level below it.
- **SettingsProofs**: `SettingsInv`, in seven parts. `BaseInv`: what each thread
  can have queued at each step, and who has which memory object. `FileInv`: as
  long as file and memory differ, somebody is at a step from which the file will
  be written, and where several are, the temporary file that will be renamed last
  has the levels or will get them (`WillBeSaved`). `MixerInv`: a mixer that is not
  at the shared level has a call to come that sets it. `PortInv`, `DarkInv`: the
  same of the flag and the picture. `NapInv`: what the program still has to do
  around a nap. `KeysInv`: the last event of a key tells whether it is held. From
  it: `LevelsAreSaved`, `MixerIsRight`, `CablesAndKeysAreSeen`.
- **OptionsProofs**: `OptionsInv` follows a launch: nothing is read before the
  files (`Unread`), what no file names has its built-in value between the two
  reads (`Between`, without which the second read's result would depend on when
  the core reports), then the files' precedence (`Ready`), again after a restore
  (`Restored`); and every save is in the file that its game will find
  (`SavedIsThere`). From it: `FilesTakeEffect`, `SavesReturn`, `ShownIsInForce`.
  Assumed: keys of the frontend and the core differ and the pak's files hold
  values an option can have (`FilesAssumption`).
- **RendererProofs**: `RendererInv` relates geometry, surface, scaler, textures,
  effect and pages each to what it was made for, so that every action that
  changes one of them either changes what depends on it or leaves a mark that the
  next frame acts on. selectScaler's arithmetic is never opened: the theorems
  hold for whatever it computes. From it: `PicturesAreCurrent`, `PagesAreClean`,
  `PicturesAreAsAsked`. Assumed (`RendererAssumption`): screens and frames are not
  empty, and a core sends frames of one size with one pitch (a change of pitch
  alone is not noticed, section 6).
- **MtpProofs**
  - MtpUsb: `UsbInv` says for every pair of places of the two threads who
    holds which mutex (`Locks`), which signals can be pending (`Signals`), what
    endpoint 0 can have queued for a host in which phase (`Queue`), and how far a
    transfer's two ends can be apart, unless it is `holed` (`Offered`, `Getting`,
    `Putting`, `Answered`).
    From it: `TransfersAreSound`, `DropsAreSafe`.
  - MtpFiles, `FilesInv`. A file has one handle (`TwinFree`) because the search
    that precedes every `alloc_entry` finds an entry in the bucket it was filed in,
    unless the host renamed it (`FiledIn`); each operation is shown to leave a
    database with more entries, of new names, or one with fewer alive (`More`,
    `Less`). The card is a tree whose nodes have inodes of their own (`Card`), a
    watch belongs to one folder (`Watches`), and the queue tells the truth in the
    end (`Tells`): of every change of the card, moves and recursive removals
    included, it is proved which events it leaves about which name (`StepsBut`).
    `build_full_path` is unfolded once from its recursive definition (`PathIs`).
    From it: `FilesAreSound`, `EventsTell`.
  - MtpFiles, `StepInv`. `InStep` speaks of the moment when the queue is empty;
    `StepIn` says what leads to it. An entry that holds a watch in use leads by
    its path to the folder that is watched (`KeptAt`), which every operation that
    moves, removes or renames something above it must keep or give up. Of a folder
    that is so followed, the entries are what is in it name by name, unless an
    event about the name is still to be told to this entry (`SeenAt`), and then
    `EventsTell` says how it will end; and the host knows the entries, or is still
    `Due` to hear of them: what it was told, with what is about to be pushed added
    and removed, and what it `missed` counted as known (`HostAt`). `OnItsWay` says
    of an announcement that is about to be pushed that its entry is alive, or
    gone, as it will say, or `missed`. An operation that lets go of
    `inotify_mutex` halfway owes the rest: a listing between its passes and its
    watch (`Listed`), a rename between the database and the card (`Renaming`). Two
    exceptions are part of the statement: `blind` folders and those with a child
    in `renamed`. From it: `FilesStayInStep`. Any names and any number of changes,
    but both invariants are proved for folders two deep as in the model
    (`MaxDepth`): that a folder in a folder has only files in it is used where one
    is moved or emptied.

The types of AudioRing, ThreadedVideo and Saves, `LockDiscipline`, `RingShape` and
`QuitWakesWaiter` are proved and no longer part of a run.

Only model-checked, and why:

- What needs fairness or ENABLED is outside TLAPS: `BatchReturns`,
  `NoLostWakeup`, `QuitLeavesLoop`, `Settles`, `Served`, `Returns`.
- `PictureFits` (Renderer) is about what selectScaler's divisions come to for the
  sizes of real screens and cores; for arbitrary sizes parts of it are false (a
  frame larger than the screen), and the rest is nonlinear arithmetic.
- `ComesBack` (Launcher) says that `loadLast` finds the way back to where a game
  was started. It compares two walks of any length over two runs of minui, the
  second over what the first one left in its stack and files; the induction over
  the path that this takes is not done.
- Scaler (`DrawsExactly`): what a loop over blocks draws depends on the widths for
  which it ends at all. Row by row it is an induction like those above, but over
  addresses that are products of coordinates and pitch.

## 5. Abstractions, and what is not modelled

- Audio samples, pixels, file names and the contents of saves are numbers or
  names. In Scaler a pixel is exact: its address and its shade.
- **Saves**: what a cut leaves of a file is its old contents, its new ones or a
  torn file; a rename that reached the card without the data is such a torn file.
  A torn state is one the core rejects, a torn battery save one it does not read.
  A quicksave that has no marker is not counted as lost.
- **AudioRing**: nobody calls `SND_batchSamples` after `SND_quit`. A device that
  could not be opened has no audio thread.
- **Launcher**: the card changes only by the deletion of a collection. The
  branch of `openDirectory` that no promoted root reaches, and `getDiscs`
  through it, are left out. A tap of MENU together with another button is two
  actions.
- **ThreadedVideo, Options, Input**: a video callback reads `thread_video` and takes
  the lock in one step. A cut does not fall among the lines of the bindings of a
  config file, and of its writes only the open fails. A press and release of
  HOLD_FF within one poll is a step of Input only.
- **Lists**: aliases and displayed names are left out. A line cut short names no
  file. The owner changes the card only while minui is not running.
- **Renderer**: left out are the Cropped scaling (no path selects it), the
  effect's colour, rotation, the compositing of the hardware's layers, a preview
  that fails to load and the flip done by a thread of its own.
- **MtpFiles, MtpUsb**: left out are GadgetFS, the configuration file
  (`mtp_cfg.c`), several storages, MODIFY events. An ObjectAdded of a
  session that has been closed teaches the host a handle only if the new session has
  one of that number.
- **Input**: left out are key repeat, the values of sticks between their ends,
  the SDL fallback and rg35xx's own `pollInput`.

Not modelled at all: drawing and text (`gfx.c`, the layout of the menus; they
keep no state that a later step reads), the aliases and unique names made by
`Directory_index` and the sorting of entries (pure functions of a directory),
zipped games (one pass over a file), the update, install and Wi-Fi scripts and
the tools clock, minput, say, show (straight-line or a single screen), and the
vendored and generated code.

## 6. Known deviations

These definitions state what a document, a comment or a test says of the program
and what the code does not do. They stay in their modules, marked as refuted, and
are part of no run. To see a counterexample, put the one definition under
INVARIANT or PROPERTY of the named cfg instead of its properties.

| Definition | Instance | What happens |
|---|---|---|
| `MenuOpens` | ThreadedVideo, `FairSpec`, button MENU, 1 input | minarch.c:1654. MENU in threaded mode stops the core; when that same run repeats its frame, `frame_ready` stays 0 and main waits on `core_rq` without reaching `Menu_loop`. README.md:17 promises a "Consistent in-emulator menu"; minarch.c:38 says of `frame_ready` that it "guards core_rq against lost wakeups". |
| `JoinsLiveThread` | ThreadedVideo, fast forward and MENU, 3 inputs | minarch.c:3090. Prioritize Audio turned off during fast forward flips `thread_video` twice and joins a thread that was joined before. Comments at :3075 ("so re-enabling threading") and :3076 ("revert to pre-fast_forward state before toggling"). |
| `ThreadingReturns` | ThreadedVideo, `FairSpec`, fast forward, 2 inputs | minarch.c:1550. Fast forward turned off before main acted on turning it on: threading is lost. docs/audits/codebase-audit-2026-07-09.md:406 lists a "double-fast-toggle race" as "investigated and disproved". |
| `NotedDiscIsStatesDisc` | Saves, two discs, `MaxPlay` 1, no failures, no cuts | menu.c:1068. `Menu_saveState` notes `menu.disc`, which LEFT and RIGHT change before anything is confirmed. minui.c:990 trusts the note ("get disc for state"); menu.c:120 means it to be what "matched our current disc". |
| `PowerOffResumes` | Saves, one disc, core {"sav", "st"}, `MaxPlay` 2, `MaxFaults` 1, `MaxCuts` 0 | menu.c:139. `Menu_beforeSleep` ignores a failed `State_autosave` and leaves the marker: "Quicksave created" (pwr.c:207) and the next boot loads an older state. skeleton/BASE/README.txt:63: "it will automatically resume from where you left off". |
| `LaunchAsAsked` | MCLauncher.cfg | minui.c:1583. `should_resume` set for a folder without a disc stays set for the game opened next. minui.c:313: "set to 1 on BTN_RESUME but only if can_resume==1". |
| `DeleteIsHarmless` | MCLauncher.cfg | minui.c:1051. Deleting a collection leaves `restore_*`: the collection in its place is opened with the other's window, past its end. minui.c:1430: "rebuild the Collections list in place". |
| `RemovalIsAtomic` | MCLists.cfg | menu.c:1192-1199. The picker's removal ignores what `fprintf` and `fclose` return and renames the temporary file in any case: on a full card the other games of the collection go with it. The comment at menu.c:1185: "remove entry (temp + rename = atomic)". |
| `CableComesBack` | MCLauncher.cfg | minui.c:1681: "NOTE: doesn't work in Recents (by design)". Nor does it elsewhere: inside a collection a change of the cable saves the game's own path, and the launcher comes back to its console's folder; with Recently Played or a collection under the cursor it comes back inside that list. |
| `NeverTornSettings` | MCSettings.cfg | msettings_core.c:117. All writers share one temporary file, so that one's rename may install what another has just truncated. The comment at :112 says that a power cut "can't leave a torn settings file behind". |
| `HiddenIsSet` | MCOptions.cfg | minarch.c:1181. A line of the player's file overrides an option the pak locked. PAKS.md:59: "Any option name prefixed with a \"-\" will be set and hidden". |
| `LidShutSleeps` | MCInput.cfg | menu.c:283. The binding screen, the wait for MENU's release and the A that leaves the menu poll without `PWR_update` and so lose the lid's change. skeleton/BASE/README.txt:58: "closing the lid sleeps, opening it wakes". |

Read in the code while modelling; where a property would be false because of
one, its statement has the exemption named here:

- **Lists.** A path added to a collection whose last line has no newline joins
  that line (`ended`, in `OthersKept`). Membership in the picker is per disc, so
  that a game can be added twice. A changed disc takes a row, and at the limit
  one game fewer is remembered. A disc change drops the alias. A `.txt.tmp` left
  by a cut is shown as a collection that cannot be deleted. `saveRecents`
  truncates `recent.txt` in place and does not look at what it wrote
  (minui.c:327). A removal that was not written whole, or whose rename is not
  synced when the power is cut, takes other games with it (`Spared`, in
  `OthersKept`).
- **Saves.** The temporary file of a save is renamed over the old one without an
  fsync (minarch.c:381, :437, :535; msettings_core.c:120 has one), and only then
  comes `sync()`: a power cut between the two can leave the save empty or short
  (`AtRisk`). So can a failure inside fclose, whose result is ignored.
  `autoResume` removes the marker before the game was resumed (minui.c:917). The
  removal of the marker after a wake is not synced (menu.c:144).
- **Audio, threaded video.** A failed `SDL_OpenAudio` is only logged (snd.c:199).
  The teardown does not join coreThread (minarch.c:3109), which spins without a
  cancellation point while `should_run_core` is 0 (minarch.c:3091).
- **Options.** Config files are written in place. `Config_getValue` finds a key
  inside a longer one. A failed save is reported as saved.
- **Input.** A POWER release read as A leaves the menu is lost, and the timer
  then powers off. A HOLD_FF tap within one poll turns toggled fast forward off;
  a release lost to `PAD_reset` leaves it on. Buttons of an unplugged gamepad
  stay pressed, and one replugged within two seconds is not reopened.
  `PAD_reset` leaves the sticks' axes. `Menu_loop` restores the rumble that was
  applied, not the one asked for; rumble runs on during sleep, and `VIB_quit` may
  leave the motor on.
- **Renderer.** On rg35xx `setSharpness` drops an effect asked for just before,
  and forced crop ignores `src_x` and `src_y`. On rg35xxplus an effect's texture
  of another scale survives NONE, and forced crop draws an empty rectangle.
  Scales with no scaler of their own fall back to 1x. A change of pitch alone is
  not noticed. The menu opened before any frame divides by zero.
- **Settings.** hdmimon.sh looks at the port every two seconds. A cable pulled out
  and put back between two looks is not noticed, and where a wake has left fb0
  blanked, or a thread still has the old state to apply, the picture stays dark
  (`unseen`, in `DarkOnlyUnderHdmi`; found when the proof's invariant failed).
  Likewise for a program that naps before the host has read the file (`early`).
- **MTP.** A cancel may cross the end of SendObject. GET_DEVICE_STATUS clears
  `cancel_req` without its mutex. A card error leaves `transferring_file_data`
  set. `pthread_cancel` may orphan `inotify_mutex` (`lock = "orphan"`).
  CloseSession frees the database without that mutex. A folder removed and made
  again while it is listed is watched under the entries of the old one (`blind`).
  What a write of an upload could not put on the card is missing, and the answer
  is OK (mtp_op_sendobject.c:112 and :137, "TODO : Handle this error case
  properly"; :162); so is it when a read of a download comes short
  (mtp_ops_helpers.c:109, :145) (`holed`, in `OkIsWhole`). The inotify thread
  pushes an event after it has let go of `inotify_mutex` (inotify.c:197 and :205,
  :306 and :314), so that an ObjectAdded may announce a handle that a listing has
  made known and a deletion has ended; and `write_usb` drops an event while a
  cancel is pending, which `mtp_push_event`'s callers do not look at. Until the
  folder is listed again the host is then wrong about that object (`missed`, in
  `HostView`). A host that writes changes folders under an open launcher
  (minui.c:1050).

## 7. Plan

Done: a model of every component whose behaviour spans several steps, and the
proofs of section 4, which leave no safety property of those eleven components to
TLC alone but `PictureFits`, `DrawsExactly` and `ComesBack`. What is left, in this order:

1. `ComesBack`: with the induction of InductionProofs over the parts of a path.
2. The refinement of Settings: msettings.bin as one atomic register with the
   exceptions that `past` names.
3. `Directory_index` and the collation of consoles as operators checked against
   a reference definition; the update script's order of renames.
