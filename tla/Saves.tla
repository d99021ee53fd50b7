------------------------------- MODULE Saves -------------------------------
(***************************************************************************)
(* What minarch and minui keep on the card for one multi-disc game: the    *)
(* battery saves (SRAM_write, RTC_write), the save states (State_write),   *)
(* the text files beside them (which slot was used last, which disc a      *)
(* state belongs to) and the auto-resume marker of a sleep.  Every write   *)
(* is a run of small steps, and the power can be cut between any two.      *)
(*                                                                         *)
(* cache is what the processes see, disk what survives a power cut; the    *)
(* kernel writes a dirty file back whenever it likes and sync() writes     *)
(* everything back.                                                        *)
(***************************************************************************)
EXTENDS Integers, Sequences, FiniteSets

CONSTANTS
    Slots,      \* the save slots the menu offers
    Discs,      \* the discs the game's m3u lists, by index
    Cores,      \* the choices of what a core can hand over to be saved
    MaxPlay,    \* bound: times the game makes progress
    MaxFaults,  \* bound: file operations that fail
    MaxCuts     \* bound: power cuts

ASSUME SavesAssumption ==
    /\ Slots \subseteq 0 .. 7 /\ 0 \in Slots
    /\ Discs \subseteq Nat /\ 0 \in Discs
    /\ Cores \subseteq SUBSET {"sav", "rtc", "st"}
    /\ MaxPlay \in Nat /\ MaxFaults \in Nat /\ MaxCuts \in Nat

VARIABLES
    stage,      \* off, minui, load, play or menu
    awake,      \* FALSE inside PWR_waitForWake
    plan,       \* the file operations the current handler has left
    phase,      \* how far the write at the head of plan has come
    good,       \* whether that write has succeeded so far
    offers,     \* which of sav, rtc and st the core has
    mem,        \* the progress in the core's memory
    drive,      \* the disc in the core (game.path)
    menu,       \* menu.slot, menu.disc and Menu_loop's rom_disc
    resume,     \* /tmp/resume_slot.txt
    cache, disk,
    quick,      \* history: the last autosave and its marker succeeded
    left,       \* history: where the game stood when it powered off
    spoilt,     \* history: saves whose last rename is in doubt: the temporary
                \* file was cut short, or the power failed before the sync
    clock, faults, cuts

vars == <<stage, awake, plan, phase, good, offers, mem, drive, menu, resume,
          cache, disk, quick, left, spoilt, clock, faults, cuts>>

step == <<plan, phase, good>>
game == <<mem, drive, menu, resume>>
card == <<cache, disk>>
ghost == <<quick, left, spoilt>>
bounds == <<offers, clock, faults, cuts>>

AUTO_RESUME_SLOT == 9
DEFAULT_SLOT == 8      \* "resume hidden default state"
None == -1

Sav == <<"sav", 0>>
Rtc == <<"rtc", 0>>
St(s) == <<"st", s>>
DiscTxt(s) == <<"disc", s>>
SlotTxt == <<"slot", 0>>
AutoResume == <<"auto", 0>>

Written == {Sav, Rtc} \cup {St(s) : s \in Slots \cup {AUTO_RESUME_SLOT}}
Noted == {SlotTxt, AutoResume} \cup {DiscTxt(s) : s \in Slots}
Files == Written \cup Noted

\* A file's contents: a number, and for a state also the disc it was made on.
Absent == <<-1, -1>>
Torn == <<-2, -2>>
Whole(c) == c[1] >= 0

\* The steps of a handler that touch the card.
Write(f) == [do |-> "write", file |-> f, val |-> Absent]
putFile(f, n) == [do |-> "put", file |-> f, val |-> <<n, 0>>]
unlink(f) == [do |-> "unlink", file |-> f, val |-> Absent]
sync == [do |-> "sync", file |-> Sav, val |-> Absent]
\* The last step of a handler: leave for minui, start minarch, sleep, power off.
Leave(how, s, d) == [do |-> how, file |-> Sav, val |-> <<s, d>>]

-----------------------------------------------------------------------------
Init ==
    /\ stage = "off" /\ awake = TRUE
    /\ plan = <<>> /\ phase = "start" /\ good = TRUE
    /\ offers \in Cores
    /\ mem = 0 /\ drive = None
    /\ menu = [slot |-> 0, disc |-> 0, rom |-> 0]
    /\ resume = None
    /\ cache = [f \in Files |-> Absent]
    /\ disk = [f \in Files |-> Absent]
    /\ quick = FALSE /\ left = <<>> /\ spoilt = {}
    /\ clock = 0 /\ faults = 0 /\ cuts = 0

Idle == plan = <<>> /\ awake
InGame == stage \in {"play", "menu"}

\* A handler starts: it has the steps p to do on the card.
Start(p) ==
    /\ plan' = p
    /\ phase' = "start" /\ good' = TRUE

Next1 == /\ plan' = Tail(plan) /\ phase' = "start" /\ good' = TRUE

-----------------------------------------------------------------------------
(* SRAM_write, RTC_write and State_write: open a temporary file, fill it,  *)
(* rename it over the old one, sync.  The temporary file itself is never   *)
(* synced, so that its name may reach the card before what is in it.       *)

Doing(what) == awake /\ plan # <<>> /\ Head(plan).do = what
Target == Head(plan).file
Contents == IF Target[1] = "st" THEN <<mem, drive>> ELSE <<mem, 0>>

\* Renamed over by a write that has not synced.
Renamed == Doing("write") /\ phase = "sync" /\ good
AtRisk == {f \in Written : Renamed /\ f = Target}

mayFail == faults < MaxFaults

\* Menu_saveState returns at once when State_write fails; the callers of the
\* other writes, State_autosave among them, ignore the result.
Forgets(f) == f[1] = "st" /\ f # St(AUTO_RESUME_SLOT)

AfterWrite(won) ==
    /\ plan' = IF ~won /\ Forgets(Target)
               THEN SubSeq(plan, 4, Len(plan))     \* past its two notes
               ELSE Tail(plan)
    /\ quick' = IF Target = St(AUTO_RESUME_SLOT)
                THEN won /\ cache[Target] = Contents ELSE quick
    /\ phase' = "start" /\ good' = TRUE

\* "if (!sram_size) return": nothing of the kind to save.
WriteNothing ==
    /\ Doing("write") /\ phase = "start"
    /\ Target[1] \notin offers
    /\ AfterWrite(FALSE)
    /\ UNCHANGED <<stage, awake, bounds, game, card, left, spoilt>>

\* Mutant: the save itself is opened for writing.
WriteOpenInPlace ==
    /\ Doing("write") /\ phase = "start"
    /\ Target[1] \in offers
    /\ phase' = "opened"
    /\ cache' = [cache EXCEPT ![Target] = Torn]
    /\ UNCHANGED <<stage, awake, plan, good, bounds, game, disk, ghost>>

WriteOpen ==
    /\ Doing("write") /\ phase = "start"
    /\ Target[1] \in offers
    /\ \/ phase' = "opened" /\ UNCHANGED <<plan, good, quick, faults>>
       \* fopen fails: State_write still goes through its sync
       \/ /\ mayFail /\ faults' = faults + 1
          /\ IF Target[1] = "st"
             THEN phase' = "sync" /\ good' = FALSE /\ UNCHANGED <<plan, quick>>
             ELSE AfterWrite(FALSE)
    /\ UNCHANGED <<stage, awake, offers, game, card, left, clock, cuts, spoilt>>

WriteFill ==
    /\ Doing("write") /\ phase = "opened"
    /\ \/ phase' = "filled" /\ UNCHANGED <<good, faults>>
       \/ /\ mayFail /\ faults' = faults + 1
          \* serialize or fwrite fails, and the temporary file is removed; or
          \* only fclose fails to write the buffer out, which nobody tests
          /\ \/ phase' = "sync" /\ good' = FALSE
             \/ phase' = "short" /\ UNCHANGED good
    /\ UNCHANGED <<stage, awake, plan, offers, game, card, ghost, clock, cuts>>

WriteRename ==
    /\ Doing("write") /\ phase \in {"filled", "short"}
    /\ phase' = "sync"
    /\ \/ /\ cache' = [cache EXCEPT ![Target] =
                          IF phase = "filled" THEN Contents ELSE Torn]
          /\ spoilt' = IF phase = "short" THEN spoilt \cup {Target} ELSE spoilt \ {Target}
          /\ UNCHANGED <<good, faults>>
       \/ /\ mayFail /\ faults' = faults + 1
          /\ good' = FALSE
          /\ UNCHANGED <<cache, spoilt>>
    /\ UNCHANGED <<stage, awake, plan, offers, game, disk, quick, left,
                   clock, cuts>>

\* Mutant: no sync after the rename.
WriteNoSync ==
    /\ Doing("write") /\ phase = "sync"
    /\ AfterWrite(good)
    /\ UNCHANGED <<stage, awake, bounds, game, card, left, spoilt>>

WriteSync ==
    /\ Doing("write") /\ phase = "sync"
    /\ disk' = cache
    /\ AfterWrite(good)
    /\ UNCHANGED <<stage, awake, bounds, game, cache, left, spoilt>>

\* putFile truncates and writes the file in place.  When fopen fails the old
\* note stays, when the write fails it is empty, and no caller hears of it.
PutFile ==
    /\ Doing("put")
    /\ \/ /\ cache' = [cache EXCEPT ![Target] = Head(plan).val]
          /\ UNCHANGED <<quick, faults>>
       \/ /\ mayFail /\ faults' = faults + 1
          /\ \E v \in {cache[Target], Torn} : cache' = [cache EXCEPT ![Target] = v]
          /\ quick' = (quick /\ Target # AutoResume)
    /\ Next1
    /\ UNCHANGED <<stage, awake, offers, game, disk, left, spoilt, clock, cuts>>

Unlink ==
    /\ Doing("unlink")
    /\ cache' = [cache EXCEPT ![Target] = Absent]
    /\ Next1
    /\ UNCHANGED <<stage, awake, bounds, game, disk, ghost>>

Sync ==
    /\ Doing("sync")
    /\ disk' = cache
    /\ Next1
    /\ UNCHANGED <<stage, awake, bounds, game, cache, ghost>>

-----------------------------------------------------------------------------
(* minui: the launcher starts the game.                                    *)

Boot ==
    /\ stage = "off"
    /\ stage' = "minui"
    /\ UNCHANGED <<awake, step, bounds, game, card, ghost>>

InMinui == stage = "minui" /\ Idle

\* autoResume runs before anything else; a marker that names no rom is dropped.
autoResume ==
    /\ InMinui /\ cache[AutoResume] # Absent
    /\ Start(<<unlink(AutoResume), sync>>
             \o IF Whole(cache[AutoResume])
                THEN <<Leave("launch", AUTO_RESUME_SLOT, cache[AutoResume][1])>>
                ELSE <<>>)
    /\ UNCHANGED <<stage, awake, bounds, game, card, ghost>>

\* The m3u's first disc, with the hidden default state.
openRom ==
    /\ InMinui /\ cache[AutoResume] = Absent
    /\ Start(<<Leave("launch", DEFAULT_SLOT, 0)>>)
    /\ UNCHANGED <<stage, awake, bounds, game, card, ghost>>

\* should_resume: the slot the slot file names, on the disc noted beside it.
\* A torn slot file reads as slot 0 and finds no disc note.
openRomResume ==
    /\ InMinui /\ cache[AutoResume] = Absent /\ cache[SlotTxt] # Absent
    /\ LET s == IF Whole(cache[SlotTxt]) THEN cache[SlotTxt][1] ELSE 0
           note == IF Whole(cache[SlotTxt]) THEN cache[DiscTxt(s)] ELSE Absent
           d == CASE note = Absent -> 0 [] Whole(note) -> note[1] [] OTHER -> None
       IN Start(<<Leave("launch", s, d)>>)
    /\ UNCHANGED <<stage, awake, bounds, game, card, ghost>>

Launch ==
    /\ Doing("launch")
    /\ stage' = "load"
    /\ resume' = Head(plan).val[1]
    /\ drive' = Head(plan).val[2]
    /\ Next1
    /\ UNCHANGED <<awake, bounds, mem, menu, card, ghost>>

-----------------------------------------------------------------------------
(* minarch: start, play, menu, sleep, quit.                                *)

slotOf(c) == IF Whole(c) THEN c[1] ELSE 0

SRAM_read == IF "sav" \in offers /\ Whole(cache[Sav]) THEN cache[Sav][1] ELSE 0

\* A state the core refuses, or a file that is not there, changes nothing.
State_read(s) == IF s \in Slots \cup {AUTO_RESUME_SLOT} /\ "st" \in offers THEN cache[St(s)] ELSE Absent

\* SRAM_read, then State_resume's State_read over it.
Loaded == IF Whole(State_read(resume)) THEN State_read(resume)[1] ELSE SRAM_read

Load ==
    /\ stage = "load" /\ drive # None
    /\ stage' = "play"
    /\ mem' = Loaded
    /\ resume' = None
    /\ menu' = [menu EXCEPT !.slot = slotOf(cache[SlotTxt]), !.disc = drive]
    /\ left' = <<>>
    /\ UNCHANGED <<awake, step, bounds, drive, card, quick, spoilt>>

\* Game_open of a path that is no game: "if (!game.is_open) goto finish".
LoadFails ==
    /\ stage = "load" /\ drive = None
    /\ stage' = "minui"
    /\ left' = <<>>
    /\ UNCHANGED <<awake, step, bounds, game, card, quick, spoilt>>

Play ==
    /\ stage = "play" /\ Idle /\ clock < MaxPlay
    /\ clock' = clock + 1
    /\ mem' = clock + 1
    /\ UNCHANGED <<stage, awake, step, offers, drive, menu, resume, card,
                   ghost, faults, cuts>>

\* Menu_loop saves the battery memories and reads the slot file again.
MenuOpen ==
    /\ stage = "play" /\ Idle
    /\ stage' = "menu"
    /\ Start(<<Write(Sav), Write(Rtc)>>)
    /\ menu' = [menu EXCEPT !.rom = menu.disc,
                            !.slot = IF cache[SlotTxt] = Absent THEN menu.slot
                                     ELSE slotOf(cache[SlotTxt])]
    /\ UNCHANGED <<awake, bounds, mem, drive, resume, card, ghost>>

InMenu == stage = "menu" /\ Idle

MenuTurn ==
    /\ InMenu
    /\ \E d \in Discs, s \in Slots : menu' = [menu EXCEPT !.disc = d, !.slot = s]
    /\ UNCHANGED <<stage, awake, step, bounds, mem, drive, resume, card,
                   ghost>>

MenuBack ==
    /\ InMenu
    /\ stage' = "play"
    /\ UNCHANGED <<awake, step, bounds, game, card, ghost>>

\* ITEM_CONT on another disc than the menu opened with: Game_changeDisc.
MenuContinue ==
    /\ InMenu /\ menu.rom # menu.disc
    /\ stage' = "play"
    /\ drive' = menu.disc
    /\ UNCHANGED <<awake, step, bounds, mem, menu, resume, card, ghost>>

\* Mutant: the slot is noted before the state is written.
Menu_saveStateEarly == <<putFile(SlotTxt, menu.slot), Write(St(menu.slot)),
                         putFile(DiscTxt(menu.slot), menu.disc)>>

Menu_saveState == <<Write(St(menu.slot)), putFile(DiscTxt(menu.slot), menu.disc),
                    putFile(SlotTxt, menu.slot)>>

\* From the menu or by shortcut from the game.
SaveState ==
    /\ InGame /\ Idle
    /\ stage' = "play"
    /\ Start(Menu_saveState)
    /\ UNCHANGED <<awake, bounds, game, card, ghost>>

\* Menu_loadState compares the noted disc with menu.disc and changes discs
\* without telling menu.disc.  Where there is no note getFile leaves the
\* name as it was on the stack: no disc, or any.  An empty note names
\* the game's folder, which no core can play.
LoadState ==
    /\ InGame /\ Idle
    /\ stage' = "play"
    /\ LET st == cache[St(menu.slot)]
           note == cache[DiscTxt(menu.slot)]
       IN IF st = Absent
          THEN UNCHANGED <<step, mem, drive>>
          ELSE /\ mem' = IF Whole(st) /\ "st" \in offers THEN st[1] ELSE mem
               /\ \E d \in IF note = Absent THEN Discs \cup {menu.disc}
                           ELSE {IF Whole(note) THEN note[1] ELSE None} :
                    drive' = IF d # menu.disc THEN d ELSE drive
               /\ Start(<<putFile(SlotTxt, menu.slot)>>)
    /\ UNCHANGED <<awake, bounds, menu, resume, card, ghost>>

\* Core_quit; by ITEM_QUIT, or by the save-and-quit shortcut.
Quit ==
    /\ InGame /\ Idle
    /\ \/ Start(<<Write(Sav), Write(Rtc), Leave("minui", 0, 0)>>)
       \/ /\ stage = "play"
          /\ Start(Menu_saveState \o <<Write(Sav), Write(Rtc), Leave("minui", 0, 0)>>)
    /\ UNCHANGED <<stage, awake, bounds, game, card, ghost>>

QuitDone ==
    /\ Doing("minui")
    /\ stage' = "minui"
    /\ Next1
    /\ UNCHANGED <<awake, bounds, game, card, ghost>>

\* Mutant: the marker names the disc the menu shows.
Menu_beforeSleepMenuDisc == <<Write(Sav), Write(Rtc), Write(St(AUTO_RESUME_SLOT)),
                              putFile(AutoResume, menu.disc)>>

Menu_beforeSleep == <<Write(Sav), Write(Rtc), Write(St(AUTO_RESUME_SLOT)),
                      putFile(AutoResume, drive)>>

\* PWR_update: the power button held, or the sleep button released.
PowerHeld ==
    /\ InGame /\ Idle
    /\ Start(Menu_beforeSleep \o <<Leave("poweroff", 0, 0)>>)
    /\ UNCHANGED <<stage, awake, bounds, game, card, ghost>>

\* Mutant: PWR_enterSleep does not sync.
SleepNoSync ==
    /\ InGame /\ Idle
    /\ Start(Menu_beforeSleep \o <<Leave("nap", 0, 0)>>)
    /\ UNCHANGED <<stage, awake, bounds, game, card, ghost>>

Sleep ==
    /\ InGame /\ Idle
    /\ Start(Menu_beforeSleep \o <<sync, Leave("nap", 0, 0)>>)
    /\ UNCHANGED <<stage, awake, bounds, game, card, ghost>>

Nap ==
    /\ Doing("nap")
    /\ awake' = FALSE
    /\ Next1
    /\ UNCHANGED <<stage, bounds, game, card, ghost>>

\* PWR_exitSleep syncs before Menu_afterSleep takes the marker away.
Wake ==
    /\ ~awake
    /\ awake' = TRUE
    /\ Start(<<sync, unlink(AutoResume)>>)
    /\ UNCHANGED <<stage, bounds, game, card, ghost>>

\* PLAT_powerOff syncs; /tmp and the core's memory are gone.
PowerOff ==
    /\ Doing("poweroff") \/ ~awake
    /\ stage' = "off" /\ awake' = TRUE
    /\ Start(<<>>)
    /\ disk' = cache
    /\ left' = <<mem, drive, quick>>
    /\ mem' = 0 /\ drive' = None /\ resume' = None /\ quick' = FALSE
    /\ menu' = [slot |-> 0, disc |-> 0, rom |-> 0]
    /\ UNCHANGED <<bounds, cache, spoilt>>

-----------------------------------------------------------------------------
(* The power fails; the kernel writes back.                                *)

PowerCut ==
    /\ stage # "off" /\ cuts < MaxCuts
    /\ cuts' = cuts + 1
    /\ stage' = "off" /\ awake' = TRUE
    /\ Start(<<>>)
    /\ cache' = disk
    /\ left' = <<>>
    /\ mem' = 0 /\ drive' = None /\ resume' = None /\ quick' = FALSE
    /\ menu' = [slot |-> 0, disc |-> 0, rom |-> 0]
    /\ spoilt' = spoilt \cup AtRisk
    /\ UNCHANGED <<offers, disk, clock, faults>>

\* Names and data reach the card in any order: a file written in place can be
\* there empty first, and so can one that was renamed over another.
Writeback ==
    /\ \E f \in Files :
        /\ disk[f] # cache[f]
        /\ \/ disk' = [disk EXCEPT ![f] = cache[f]]
           \/ /\ Whole(cache[f]) /\ disk[f] # Torn
              /\ disk' = [disk EXCEPT ![f] = Torn]
    /\ UNCHANGED <<stage, awake, step, bounds, game, cache, ghost>>

Next ==
    \/ WriteNothing \/ WriteOpen \/ WriteFill \/ WriteRename \/ WriteSync
    \/ PutFile \/ Unlink \/ Sync
    \/ Boot \/ autoResume \/ openRom \/ openRomResume \/ Launch
    \/ Load \/ LoadFails \/ Play
    \/ MenuOpen \/ MenuTurn \/ MenuBack \/ MenuContinue
    \/ SaveState \/ LoadState \/ Quit \/ QuitDone
    \/ PowerHeld \/ Sleep \/ Nap \/ Wake \/ PowerOff
    \/ PowerCut \/ Writeback

Spec == Init /\ [][Next]_vars

-----------------------------------------------------------------------------
(* Properties.                                                             *)

Jobs == [do : {"write", "put", "unlink", "sync", "launch", "minui", "nap", "poweroff"},
         file : Files, val : Int \X Int]

\* The state of the two programs, of the handler they are in and of the card.
TypeOK ==
    /\ stage \in {"off", "minui", "load", "play", "menu"} /\ awake \in BOOLEAN
    /\ \A i \in DOMAIN plan : plan[i] \in Jobs
    /\ phase \in {"start", "opened", "filled", "short", "sync"} /\ good \in BOOLEAN
    /\ phase # "start" => Doing("write") /\ Target[1] \in offers
    /\ offers \in Cores
    /\ mem \in 0 .. MaxPlay /\ drive \in Discs \cup {None}
    /\ menu \in [slot : Slots, disc : Discs, rom : Discs]
    /\ resume \in Slots \cup {None, DEFAULT_SLOT, AUTO_RESUME_SLOT}
    /\ cache \in [Files -> Int \X Int]
    /\ disk \in [Files -> Int \X Int]
    /\ quick \in BOOLEAN /\ spoilt \subseteq Written
    /\ left = <<>> \/ left \in (0 .. MaxPlay) \X (Discs \cup {None}) \X BOOLEAN
    /\ clock \in 0 .. MaxPlay /\ faults \in 0 .. MaxFaults /\ cuts \in 0 .. MaxCuts

\* A battery save or a save state on the card is half written for one of two
\* reasons.  The flush inside fclose failed, which none of the writers notices;
\* or the name has reached the card before the data, between the rename and the
\* sync of the one save that SRAM_write, RTC_write or State_write is at, and the
\* power was cut there.  At any other moment a cut, and whatever else fails,
\* leaves every save as it was or as it was to be, and the next write heals it.
TornOnlyAtRisk == \A f \in Written : disk[f] = Torn => f \in spoilt \cup AtRisk

\* Between handlers the card holds what the programs see of every save: each
\* write ends with a sync, so a power cut while playing costs no finished save.
FinishedSavesAreDurable ==
    Idle => \A f \in Written : disk[f] = cache[f]

\* The slot file on the card only ever names a slot whose state is there:
\* Menu_saveState notes the slot after State_write has synced the state, and
\* Menu_loadState only for a state that exists.
SlotHasState ==
    Whole(disk[SlotTxt]) => disk[St(disk[SlotTxt][1])] # Absent

\* When nothing failed, a sleeping device can lose its battery: the battery
\* save, the quicksave of this moment and the marker that will resume it are
\* all on the card before PWR_waitForWake.
SleepIsSafe ==
    (~awake /\ faults = 0) =>
        /\ "sav" \in offers => disk[Sav] = <<mem, 0>>
        /\ "st" \in offers => disk[St(AUTO_RESUME_SLOT)] = <<mem, drive>>
        /\ disk[AutoResume] = <<drive, 0>>

\* When nothing failed, leaving the game leaves its battery save on the card.
QuitKeepsBattery ==
    (stage = "minui" /\ Idle /\ faults = 0 /\ "sav" \in offers /\ mem > 0) =>
        disk[Sav] = <<mem, 0>>

\* After a power-off whose autosave and marker were written, of a game with a
\* disc in its drive, the next game started is this one, on the same disc,
\* where it was left.
QuicksaveResumes ==
    [][(stage = "load" /\ stage' # stage /\ left # <<>> /\ cuts' = cuts /\ left[3]
          /\ left[2] # None)
        => (stage' = "play" /\ mem' = left[1] /\ drive' = left[2])]_vars

\* The same for every power-off, as the manual promises it.  Refuted (README,
\* known deviations).
PowerOffResumes ==
    [][(stage = "load" /\ stage' # stage /\ left # <<>> /\ cuts' = cuts /\ left[2] # None)
        => (stage' = "play" /\ mem' = left[1] /\ drive' = left[2])]_vars

\* The disc noted beside a save state is the disc it was made on.  Refuted
\* (README, known deviations).
NotedDiscIsStatesDisc ==
    (Idle /\ faults = 0) =>
        \A s \in Slots : (Whole(cache[St(s)]) /\ Whole(cache[DiscTxt(s)])) =>
                            cache[DiscTxt(s)][1] = cache[St(s)][2]

\* Where the player may walk away, asleep or back in the launcher, the card
\* holds what was played.
SafeToStop == SleepIsSafe /\ QuitKeepsBattery
=============================================================================
