------------------------------ MODULE Options -------------------------------
(***************************************************************************)
(* minarch's options, controls and shortcuts (minarch.c, menu.c): where    *)
(* their values come from when a game is launched (the built-in defaults,  *)
(* system.cfg, the pak's default.cfg, then the game's own file or the      *)
(* console's), what the menu, the shortcuts and the core do to them, what  *)
(* "Save Changes" writes and "Restore defaults" removes, and what a power  *)
(* cut leaves of a file that was being written.                            *)
(*                                                                         *)
(* A file is a function from the keys of its lines to their labels.  The   *)
(* label of an option's i-th value is i; a label beyond the last is one    *)
(* the option does not know.  Two frontend options stand for the eight,    *)
(* the two whose effects depend on each other.                             *)
(***************************************************************************)
EXTENDS Integers, FiniteSets

CONSTANTS
  Games,
  CoreKeys,   \* options the core reports
  Systems,    \* contents system.cfg may have
  Defaults,   \* contents the pak's default.cfg may have
  MaxActs,    \* bound: what the player, the core and the card do
  MaxLaunches \* bound: launches

Frontend == {"scaling", "sharpness"}
Keys == Frontend \cup CoreKeys
Controls == {"control"}
Shortcuts == {"shortcut"}
Names == Controls \cup Shortcuts
LOCAL_BUTTON_COUNT == 2

Count(k) == IF k = "scaling" THEN 3 ELSE 2
DefaultValue(k) == 1
SCALE_NATIVE == 0
SHARPNESS_SHARP == 0
BTN_ID_NONE == -1
Unbound == [local |-> BTN_ID_NONE, mod |-> FALSE]
Nothing == [k \in {} |-> 0]
Absent == [on |-> FALSE, lines |-> Nothing]

ASSUME OptionsAssumption == Frontend \cap CoreKeys = {} /\ Keys \cap Names = {} /\ MaxActs \in Nat /\ MaxLaunches \in Nat

\* What the shipped files may say: a label of an option, known to it or not; of a
\* button, NONE when it is none of button_labels.
ASSUME FilesAssumption ==
  \A f \in Systems \cup Defaults :
    /\ \A k \in Keys \cap DOMAIN f.lines : f.lines[k] \in Nat
    /\ \A n \in Names \cap DOMAIN f.lines : f.lines[n] \in 0 .. 2 * LOCAL_BUTTON_COUNT

VARIABLES
  card,     \* system.cfg, default.cfg, minarch.cfg and the games' files
  run,      \* the running minarch: phase and game
  value,    \* option->value
  lock,     \* options with option->lock
  listed,   \* the core has reported its options
  fe,       \* screen_scaling, screen_sharpness and the sharpness set in GFX
  bind,     \* config.controls and config.shortcuts
  default_, \* mapping->default_
  ignore,   \* mapping->ignore of the controls
  loaded,   \* config.loaded
  changed,  \* config.core.changed
  seen,     \* the core options as the core last read them
  saved,    \* history: per game, what its player saved and nothing has replaced
  acts,     \* bound
  launches  \* bound

vars == <<card, run, value, lock, listed, fe, bind, default_, ignore, loaded, changed, seen, saved, acts, launches>>
Act == acts < MaxActs /\ acts' = acts + 1
Live == IF listed THEN Keys ELSE Frontend

-----------------------------------------------------------------------------
(* Labels.                                                                 *)

\* Option_getValueIndex: an unknown label is the first value.
ValueIndex(k, label) == IF label < Count(k) THEN label ELSE 0

\* button_labels: NONE, the buttons, MENU+ the buttons.
Label(m) == m.local + 1 + (IF m.mod THEN LOCAL_BUTTON_COUNT ELSE 0)
Mapping(label) ==
  LET id == label - 1 IN
  IF id >= LOCAL_BUTTON_COUNT THEN [local |-> id - LOCAL_BUTTON_COUNT, mod |-> TRUE]
  ELSE [local |-> id, mod |-> FALSE]

-----------------------------------------------------------------------------
(* Reading.                                                                *)

\* Config_syncFrontend: the sharpness that takes effect depends on both options.
Sync(f, k, v) ==
  IF k = "scaling" THEN [f EXCEPT !.scaling = v, !.gfx = IF v = SCALE_NATIVE THEN SHARPNESS_SHARP ELSE f.sharpness]
  ELSE [f EXCEPT !.sharpness = v, !.gfx = IF f.scaling = SCALE_NATIVE THEN SHARPNESS_SHARP ELSE v]

\* Config_getValue: a line of the file begins with the key.
HasLine(lines, k) == k \in DOMAIN lines

\* Config_readOptionsString: the options with a line in the file, in order.
ReadLines(v, lines) == [k \in Keys |-> IF k \in Live /\ HasLine(lines, k) THEN ValueIndex(k, lines[k]) ELSE v[k]]
SyncLines(f, v, lines) ==
  LET s == IF HasLine(lines, "scaling") THEN Sync(f, "scaling", v["scaling"]) ELSE f IN
  IF HasLine(lines, "sharpness") THEN Sync(s, "sharpness", v["sharpness"]) ELSE s

\* Config_load: the game's file, if there is one, hides the console's.
UserCfg(c, g) == IF c.game[g].on THEN c.game[g] ELSE c.console
Loaded(c, g) == IF c.game[g].on THEN "game" ELSE IF c.console.on THEN "console" ELSE "none"

\* Config_readOptions over the three files; Config_readControls over two.
ReadOptions(c, g, v, f) ==
  LET user == UserCfg(c, g).lines
      v1 == ReadLines(v, c.system.lines)
      v2 == ReadLines(v1, c.default.lines)
      v3 == ReadLines(v2, user)
  IN [value |-> v3,
      fe |-> SyncLines(SyncLines(SyncLines(f, v1, c.system.lines), v2, c.default.lines), v3, user),
      lock |-> lock \cup ((c.system.locked \cup c.default.locked) \cap Live),
      told |-> Live \cap CoreKeys \cap UNION {DOMAIN c.system.lines, DOMAIN c.default.lines, DOMAIN user} # {}]
Set(r) == value' = r.value /\ fe' = r.fe /\ lock' = r.lock
ReadBinds(b, lines) == [n \in Names |-> IF HasLine(lines, n) THEN Mapping(lines[n]) ELSE b[n]]
ReadControls(c, g, b) == bind' = ReadBinds(ReadBinds(b, c.default.lines), UserCfg(c, g).lines)

Values == [k \in Live |-> value[k]]
AllLines == [k \in Live \cup Names |-> IF k \in Names THEN Label(bind[k]) ELSE value[k]]

-----------------------------------------------------------------------------
\* The program's initial values.
Memory == [value |-> [k \in Keys |-> DefaultValue(k)], fe |-> [scaling |-> 1, sharpness |-> 1, gfx |-> 1],
           bind |-> [n \in Names |-> Unbound], default_ |-> [n \in Controls |-> Unbound]]

Init ==
  /\ card \in [system : Systems, default : Defaults, console : {Absent}, game : {[g \in Games |-> Absent]}]
  /\ run = [phase |-> "off", game |-> "none"]
  /\ value = Memory.value /\ fe = Memory.fe /\ bind = Memory.bind /\ default_ = Memory.default_
  /\ lock = {} /\ listed = FALSE /\ ignore = {} /\ loaded = "none" /\ changed = FALSE /\ seen = Nothing
  /\ saved = [g \in Games |-> Nothing] /\ acts = 0 /\ launches = 0

\* main up to Game_open.
Launch(g) ==
  /\ run.phase = "off" /\ acts < MaxActs /\ launches < MaxLaunches /\ launches' = launches + 1
  /\ run' = [phase |-> "open", game |-> g]
  /\ UNCHANGED <<card, value, lock, listed, fe, bind, default_, ignore, loaded, changed, seen, saved, acts>>

\* The program ends and its memory goes.
Off ==
  /\ run' = [phase |-> "off", game |-> "none"]
  /\ value' = Memory.value /\ fe' = Memory.fe /\ bind' = Memory.bind /\ default_' = Memory.default_
  /\ lock' = {} /\ listed' = FALSE /\ ignore' = {} /\ loaded' = "none" /\ changed' = FALSE /\ seen' = Nothing

\* RETRO_ENVIRONMENT_SET_CORE_OPTIONS, when the core is opened or when the game
\* is loaded: the list is made anew.
Report ==
  /\ run.phase \in {"open", "load"}
  /\ listed' = TRUE
  /\ value' = [k \in Keys |-> IF k \in CoreKeys THEN DefaultValue(k) ELSE value[k]]
  /\ lock' = lock \ CoreKeys /\ seen' = Nothing
  /\ run' = [run EXCEPT !.phase = IF @ = "open" THEN "opened" ELSE "reported"]
  /\ UNCHANGED <<card, fe, bind, default_, ignore, loaded, changed, saved, acts, launches>>

\* Config_load, Config_init, Config_readOptions: before the core is initialised.
\* The controls' defaults are the bindings of default.cfg without their MENU+.
EarlyRead ==
  /\ run.phase \in {"open", "opened"}
  /\ LET r == ReadOptions(card, run.game, value, fe) IN Set(r) /\ changed' = (changed \/ r.told)
  /\ loaded' = Loaded(card, run.game)
  /\ default_' = [n \in Controls |->
       IF n \notin DOMAIN card.default.lines THEN [local |-> 0, mod |-> FALSE]
       ELSE IF Mapping(card.default.lines[n]).mod THEN Unbound ELSE Mapping(card.default.lines[n])]
  /\ bind' = [n \in Names |-> IF n \in Controls THEN default_'[n] ELSE Unbound]
  /\ run' = [run EXCEPT !.phase = "load"]
  /\ UNCHANGED <<card, listed, ignore, seen, saved, acts, launches>>

\* The core reads its options while it loads the game.
CoreRead ==
  /\ run.phase \in {"load", "reported"} /\ listed
  /\ seen' = [k \in CoreKeys |-> value[k]]
  /\ run' = [run EXCEPT !.phase = "read"]
  /\ UNCHANGED <<card, value, lock, listed, fe, bind, default_, ignore, loaded, changed, saved, acts, launches>>

\* Mutant: the options are read only before the core has reported the rest.
LateReadControlsOnly ==
  /\ run.phase = "read"
  /\ ignore' \in SUBSET Controls
  /\ ReadControls(card, run.game, bind)
  /\ run' = [run EXCEPT !.phase = "ready"]
  /\ UNCHANGED <<card, value, lock, listed, fe, default_, loaded, changed, seen, saved, acts, launches>>

\* Input_init, Config_readOptions again, Config_readControls, Config_free.  A
\* button the core did not describe is ignored or not: present[] has no initial value.
LateRead ==
  /\ run.phase = "read"
  /\ ignore' \in SUBSET Controls
  /\ LET r == ReadOptions(card, run.game, value, fe) IN Set(r) /\ changed' = (changed \/ r.told)
  /\ ReadControls(card, run.game, bind)
  /\ run' = [run EXCEPT !.phase = "ready"]
  /\ UNCHANGED <<card, listed, default_, loaded, seen, saved, acts, launches>>

-----------------------------------------------------------------------------
(* The game.                                                               *)

Playing == run.phase \in {"ready", "play"}
Play == run' = [run EXCEPT !.phase = "play"]

\* A frame: the core asks whether an option has changed, and reads them if so.
CoreRun ==
  /\ Playing /\ Play /\ changed
  /\ changed' = FALSE /\ seen' = [k \in CoreKeys |-> value[k]]
  /\ UNCHANGED <<card, value, lock, listed, fe, bind, default_, ignore, loaded, saved, acts, launches>>

\* RETRO_ENVIRONMENT_SET_VARIABLE: the core changes an option itself.
CoreSet(k) ==
  /\ Playing /\ Play /\ Act
  /\ \E label \in 0 .. Count(k) : value' = [value EXCEPT ![k] = ValueIndex(k, label)]
  /\ changed' = TRUE
  /\ UNCHANGED <<card, lock, listed, fe, bind, default_, ignore, loaded, seen, saved, launches>>

\* SHORTCUT_CYCLE_SCALE, which a hidden option does not stop.
CycleScale ==
  /\ Playing /\ Play /\ Act /\ bind["shortcut"].local # BTN_ID_NONE
  /\ value' = [value EXCEPT !["scaling"] = (fe.scaling + 1) % Count("scaling")]
  /\ fe' = Sync(fe, "scaling", (fe.scaling + 1) % Count("scaling"))
  /\ UNCHANGED <<card, lock, listed, bind, default_, ignore, loaded, changed, seen, saved, launches>>

OpenMenu ==
  /\ Playing
  /\ run' = [run EXCEPT !.phase = "menu"]
  /\ UNCHANGED <<card, value, lock, listed, fe, bind, default_, ignore, loaded, changed, seen, saved, acts, launches>>

InMenu == run.phase \in {"menu", "restored"}
CloseMenu ==
  /\ InMenu /\ Play
  /\ UNCHANGED <<card, value, lock, listed, fe, bind, default_, ignore, loaded, changed, seen, saved, acts, launches>>

\* OptionFrontend_optionChanged and OptionEmulator_optionChanged, for an option
\* that has a row.
MenuChange(k) ==
  /\ InMenu /\ k \in Live \ lock /\ Act
  /\ \E step \in {1, Count(k) - 1} :
       LET v == (value[k] + step) % Count(k) IN
       /\ value' = [value EXCEPT ![k] = v]
       /\ fe' = IF k \in Frontend THEN Sync(fe, k, v) ELSE fe
  /\ changed' = (changed \/ k \in CoreKeys)
  /\ run' = [run EXCEPT !.phase = "menu"]
  /\ UNCHANGED <<card, lock, listed, bind, default_, ignore, loaded, seen, saved, launches>>

\* Option_bindButton and Option_unbindButton.
MenuBind(n) ==
  /\ InMenu /\ n \notin ignore /\ Act
  /\ \E m \in {Unbound} \cup [local : 0 .. LOCAL_BUTTON_COUNT - 1, mod : BOOLEAN] : bind' = [bind EXCEPT ![n] = m]
  /\ run' = [run EXCEPT !.phase = "menu"]
  /\ UNCHANGED <<card, value, lock, listed, fe, default_, ignore, loaded, changed, seen, saved, launches>>

-----------------------------------------------------------------------------
(* Saving and restoring.                                                   *)

Written == [on |-> TRUE, lines |-> AllLines]
Snapshot == [v |-> Values, b |-> bind]

\* Mutant: a game's own file is kept when the console's is written.
SaveConsoleKeepingGame ==
  /\ InMenu /\ Act
  /\ card' = [card EXCEPT !.console = Written]
  /\ loaded' = "console"
  /\ saved' = [g \in Games |-> IF g = run.game \/ ~ card.game[g].on THEN Snapshot ELSE saved[g]]
  /\ UNCHANGED <<run, value, lock, listed, fe, bind, default_, ignore, changed, seen, launches>>

\* Config_write(CONFIG_WRITE_ALL) ...
SaveConsole ==
  /\ InMenu /\ Act
  /\ card' = [card EXCEPT !.console = Written, !.game[run.game] = IF loaded = "game" THEN Absent ELSE @]
  /\ loaded' = "console"
  /\ saved' = [g \in Games |-> IF g = run.game \/ ~ card.game[g].on THEN Snapshot ELSE saved[g]]
  /\ UNCHANGED <<run, value, lock, listed, fe, bind, default_, ignore, changed, seen, launches>>

\* ... and Config_write(CONFIG_WRITE_GAME).
SaveGame ==
  /\ InMenu /\ Act
  /\ card' = [card EXCEPT !.game[run.game] = Written]
  /\ loaded' = "game"
  /\ saved' = [saved EXCEPT ![run.game] = Snapshot]
  /\ UNCHANGED <<run, value, lock, listed, fe, bind, default_, ignore, changed, seen, launches>>

\* The file system calls of Config_write take effect one by one, and not all of
\* them may have when the power goes: the game's file may be gone, the other
\* empty, or cut after some of its lines, the last of which may be cut itself.
Upto(k) == IF k = "scaling" THEN {k} ELSE Frontend \cup {k}
Torn == {[on |-> TRUE, lines |-> Nothing]} \cup
        {[on |-> TRUE, lines |-> [j \in Upto(k) |-> IF j = k /\ odd THEN Count(k) ELSE AllLines[j]]] : k \in Live, odd \in BOOLEAN}
SaveCut ==
  /\ InMenu /\ Act
  /\ \/ \E c \in Torn \cup {card.console}, g \in {card.game[run.game], Absent} :
          /\ loaded = "game" \/ g = card.game[run.game]
          /\ card' = [card EXCEPT !.console = c, !.game[run.game] = g]
          /\ saved' = [h \in Games |-> IF h # run.game /\ card.game[h].on THEN saved[h] ELSE Nothing]
     \/ \E c \in Torn :
          /\ card' = [card EXCEPT !.game[run.game] = c]
          /\ saved' = [saved EXCEPT ![run.game] = Nothing]
  /\ Off
  /\ UNCHANGED launches

\* fopen fails: what Config_write has done before stays done.
SaveFails ==
  /\ InMenu /\ Act
  /\ \/ /\ card' = [card EXCEPT !.game[run.game] = IF loaded = "game" THEN Absent ELSE @]
        /\ loaded' = "console"
     \/ loaded' = "game" /\ UNCHANGED card
  /\ saved' = [saved EXCEPT ![run.game] = Nothing]
  /\ UNCHANGED <<run, value, lock, listed, fe, bind, default_, ignore, changed, seen, launches>>

Removed == [card EXCEPT !.game[run.game] = IF loaded = "game" THEN Absent ELSE @,
                        !.console = IF loaded = "console" THEN Absent ELSE @]
Kept == [g \in Games |-> IF g = run.game \/ (loaded = "console" /\ ~ card.game[g].on) THEN Nothing ELSE saved[g]]
ResetValues == [k \in Keys |-> IF k \in Live THEN DefaultValue(k) ELSE value[k]]
ResetFe == Sync(Sync(fe, "scaling", DefaultValue("scaling")), "sharpness", DefaultValue("sharpness"))
ResetBinds == [n \in Names |-> IF n \in Controls THEN [default_[n] EXCEPT !.mod = FALSE] ELSE Unbound]

\* Mutant: the core is told of restored options only by the files that name them.
RestoreUntold ==
  /\ InMenu /\ Act
  /\ card' = Removed
  /\ LET r == ReadOptions(Removed, run.game, ResetValues, ResetFe) IN Set(r) /\ changed' = (changed \/ r.told)
  /\ ReadControls(Removed, run.game, ResetBinds)
  /\ loaded' = Loaded(Removed, run.game)
  /\ saved' = Kept
  /\ run' = [run EXCEPT !.phase = "restored"]
  /\ UNCHANGED <<listed, default_, ignore, seen, launches>>

\* Mutant: the bindings are left as they were.
RestoreKeepsBinds ==
  /\ InMenu /\ Act
  /\ card' = Removed
  /\ Set(ReadOptions(Removed, run.game, ResetValues, ResetFe)) /\ changed' = TRUE
  /\ ReadControls(Removed, run.game, bind)
  /\ loaded' = Loaded(Removed, run.game)
  /\ saved' = Kept
  /\ run' = [run EXCEPT !.phase = "restored"]
  /\ UNCHANGED <<listed, default_, ignore, seen, launches>>

\* Config_restore: the loaded file goes, everything is reset, and what is left is
\* read again.
Restore ==
  /\ InMenu /\ Act
  /\ card' = Removed
  /\ Set(ReadOptions(Removed, run.game, ResetValues, ResetFe)) /\ changed' = TRUE
  /\ ReadControls(Removed, run.game, ResetBinds)
  /\ loaded' = Loaded(Removed, run.game)
  /\ saved' = Kept
  /\ run' = [run EXCEPT !.phase = "restored"]
  /\ UNCHANGED <<listed, default_, ignore, seen, launches>>

-----------------------------------------------------------------------------
\* The program ends, or the power goes, with nothing being written.
Quit ==
  /\ run.phase # "off"
  /\ Off
  /\ UNCHANGED <<card, saved, acts, launches>>

\* An update brings another default.cfg.
Update ==
  /\ run.phase = "off" /\ Act
  /\ \E d \in Defaults : card' = [card EXCEPT !.default = d]
  /\ UNCHANGED <<run, value, lock, listed, fe, bind, default_, ignore, loaded, changed, seen, saved, launches>>

Next ==
  \/ \E g \in Games : Launch(g)
  \/ Report \/ EarlyRead \/ CoreRead \/ LateRead
  \/ CoreRun \/ CycleScale \/ OpenMenu \/ CloseMenu
  \/ \E k \in CoreKeys : CoreSet(k)
  \/ \E k \in Keys : MenuChange(k)
  \/ \E n \in Names : MenuBind(n)
  \/ SaveConsole \/ SaveGame \/ SaveCut \/ SaveFails \/ Restore \/ Quit \/ Update

Spec == Init /\ [][Next]_vars

-----------------------------------------------------------------------------
\* Types: every value is one its option has, whatever label a file or the core gave.
TypeOK ==
  /\ \A k \in Keys : value[k] \in 0 .. Count(k) - 1
  /\ \A n \in Names : bind[n].local \in -1 .. LOCAL_BUTTON_COUNT - 1 /\ (bind[n].mod => bind[n] # Unbound)
  /\ loaded \in {"none", "console", "game"} /\ changed \in BOOLEAN

\* What a player who launches the game finds: the user's file before the pak's
\* before the system's before the built-in value.
Expected(k) ==
  LET user == UserCfg(card, run.game).lines IN
  IF k \in DOMAIN user THEN ValueIndex(k, user[k])
  ELSE IF k \in DOMAIN card.default.lines THEN ValueIndex(k, card.default.lines[k])
  ELSE IF k \in DOMAIN card.system.lines THEN ValueIndex(k, card.system.lines[k])
  ELSE DefaultValue(k)
ExpectedBind(n) ==
  LET user == UserCfg(card, run.game).lines IN
  IF n \in DOMAIN user THEN Mapping(user[n])
  ELSE IF n \in DOMAIN card.default.lines THEN Mapping(card.default.lines[n])
  ELSE IF n \in Controls THEN [local |-> 0, mod |-> FALSE] ELSE Unbound

\* Reading the files in turn, twice, around a core that reports its options early
\* or late gives that precedence; and "Restore defaults" in a running game gives
\* what a new launch would, for options, controls and shortcuts.
Effective ==
  run.phase \in {"ready", "restored"} =>
    /\ \A k \in Live : value[k] = Expected(k)
    /\ \A n \in Names : bind[n] = ExpectedBind(n)

\* What was saved, for a game or for its console, is what the next launch of the
\* game finds: other games' saves, updates of the pak and the conversion to labels
\* and back do not change it.
SavedReturns ==
  (run.phase = "ready" /\ saved[run.game] # Nothing) =>
    saved[run.game] = [v |-> [k \in Live |-> value[k]], b |-> bind]

\* The sharpness in effect is that of the options shown, whichever of the two
\* options was changed last, by the menu, the shortcut, a file or a restore.
SharpnessFollows ==
  run.phase # "off" =>
    /\ fe.scaling = value["scaling"] /\ fe.sharpness = value["sharpness"]
    /\ fe.gfx = IF fe.scaling = SCALE_NATIVE THEN SHARPNESS_SHARP ELSE fe.sharpness

\* The core runs with the options shown, or is about to be told.
CoreSees ==
  run.phase \in {"ready", "play", "menu", "restored"} => (changed \/ \A k \in CoreKeys : seen[k] = value[k])

\* PAKS.md: "Any option name prefixed with a "-" will be set and hidden."
\* Refuted: a user's file wins (README, known deviations).
HiddenIsSet ==
  run.phase = "ready" =>
    \A k \in card.default.locked : value[k] = ValueIndex(k, card.default.lines[k])

\* What the menu shows is in force: in range, in the video and in the core
\* (Config_syncFrontend, OptionList_setOptionValue).
InForce == TypeOK /\ SharpnessFollows /\ CoreSees
=============================================================================
