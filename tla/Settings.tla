------------------------------ MODULE Settings ------------------------------
(***************************************************************************)
(* The settings that keymon and the running program share: one struct in a  *)
(* shared memory object (msettings_core.c), its file msettings.bin, the     *)
(* setters of libmsettings on both devices, keymon's hot keys and port      *)
(* watcher, and what the program does to them when it starts, sleeps,       *)
(* wakes and quits.                                                         *)
(*                                                                          *)
(* Three threads run: keymon's main loop, keymon's port watcher and the     *)
(* program.  Each setter is cut where another thread can come between: the  *)
(* read of the old value, the store, the mixer or backlight call, and the   *)
(* open, write and rename of the file.                                      *)
(*                                                                          *)
(* Abstractions: a level is a small number (0-20 and 0-10 in the code); a   *)
(* rename is on the card when it returns (Saves is about what is not); a    *)
(* call of the mixer or backlight driver is one step.                       *)
(***************************************************************************)
EXTENDS Integers, Sequences, FiniteSets

CONSTANTS
    Devices,         \* "rg35xx" and "rg35xxplus"
    VOLUME_MAX, BRIGHTNESS_MAX,
    MaxEvents,       \* bound on input events waiting to be read
    MaxActs,         \* bound on what comes from outside: key presses, cable
                     \* changes, program starts, naps, failing calls, cuts
    Crowded          \* bound: the acts a start beside a busy keymon costs

ASSUME SettingsAssumption ==
    /\ Devices \subseteq {"rg35xx", "rg35xxplus"}
    /\ {VOLUME_MAX, BRIGHTNESS_MAX} \subseteq Nat \ {0}
    /\ {MaxEvents, MaxActs, Crowded} \subseteq Nat

Threads == {"keys", "watch", "app"}
ProcessOf == [t \in Threads |-> IF t = "app" THEN "app" ELSE "keymon"]
Processes == {"keymon", "app"}
Objects == 1..2      \* shared memory objects: the named one and an orphan
Inodes == 1..4       \* one per writer and the one in place
None == 0

SETTINGS_VERSION == 2
DefaultSettings == [version |-> SETTINGS_VERSION, brightness |-> 1,
                    headphones |-> 0, speaker |-> 1, jack |-> 0, hdmi |-> 0]
Zeroed == [version |-> 0, brightness |-> 0,
           headphones |-> 0, speaker |-> 0, jack |-> 0, hdmi |-> 0]
Settings == [version : {0, SETTINGS_VERSION}, brightness : 0..BRIGHTNESS_MAX,
             headphones : 0..VOLUME_MAX, speaker : 0..VOLUME_MAX,
             jack : {0, 1}, hdmi : {0, 1}]

VARIABLES
    device,
    shm,        \* the shared memory: key (the object the name refers to),
                \* the objects' contents and which have their size
    mapped,     \* the object each process has mapped, None while it has none
    isHost,     \* whether the process created the object it maps
    pc, todo, reg,  \* per thread: step, calls still to make, value read
    fs,         \* names tmp and path, and the inodes' contents (a sequence of
                \* at most one struct: empty when it is truncated)
    fd, wrote,  \* per thread: the file it saves to, and whether write was whole
    keys,       \* up, down and menu as keymon believes them, and just pressed
    held, events,   \* the keys really held and the input events not yet read
    port,       \* the state of the watched port (HDMI or headphones)
    had,        \* what the watcher saw last
    asleep, stopped, long,  \* faux sleep; keymon stopped, for over a second
    mixer, lit,     \* the level the mixer plays and whether fb0 is unblanked
    mon,        \* hdmimon.sh: the state it saw last, and whether it switches
    past,       \* history: two setters overlapped ("overlap"), a client came
                \* before the host had read the file ("early"), the cable moved
                \* while a program initialised ("midInit"), a call failed
                \* ("fault"), the power went ("cut"), the cable moved back
                \* before the watcher looked ("blip"), or moved before hdmimon
                \* had looked or a thread had applied what it saw ("unseen"),
                \* a program ran ("app")
    acts        \* what is left of MaxActs

vars == <<device, shm, mapped, isHost, pc, todo, reg, fs, fd, wrote, keys,
          held, events, port, had, asleep, stopped, long, mixer, lit, mon,
          past, acts>>
shmVars == <<shm, mapped, isHost>>
fileVars == <<fs, fd, wrote>>
keyVars == <<keys, held, events>>
portVars == <<port, had>>
sleepVars == <<asleep, stopped, long>>
outVars == <<mixer, lit, mon>>
envVars == <<device, keyVars, portVars, sleepVars>>

Now(t) == shm.mem[mapped[ProcessOf[t]]]
Put(t, s) == shm' = [shm EXCEPT !.mem[mapped[ProcessOf[t]]] = s]
Step(t, s) == pc' = [pc EXCEPT ![t] = s]
Spend == acts > 0 /\ acts' = acts - 1
Note(what) == past' = past \union {what}
NoteIf(cond, what) == past' = IF cond THEN past \union {what} ELSE past
Runs(t) == t = "app" \/ ~stopped
Busy(t) == pc[t] \notin {"off", "idle"}

(***************************************************************************)
(* Calls a thread has queued.  A setter with a step is the hot key's        *)
(* Get, compare, Set; with step 0 it is Set(Get()).                         *)
(***************************************************************************)
Volume(d) == [call |-> "volume", arg |-> d]
Brightness(d) == [call |-> "brightness", arg |-> d]
Jack(v) == [call |-> "jack", arg |-> v]
Hdmi(v) == [call |-> "hdmi", arg |-> v]
Simple(c) == [call |-> c, arg |-> 0]

GetVolume(s) == IF s.jack = 1 THEN s.headphones ELSE s.speaker
GetBrightness(s) == s.brightness
WithVolume(s, v) == IF s.jack = 1 THEN [s EXCEPT !.headphones = v]
                                  ELSE [s EXCEPT !.speaker = v]
\* "rg35xx" has no HDMI: its setters never look at the field
Hdmied(s) == device = "rg35xxplus" /\ s.hdmi = 1

\* What InitSettings calls once the struct is mapped.
InitCalls == IF device = "rg35xxplus"
             THEN <<Jack(0), Hdmi(port), Brightness(0)>>
             ELSE <<Volume(0), Brightness(0)>>
\* What the watcher calls for the port it watches.
PortCall(v) == IF device = "rg35xxplus" THEN Hdmi(v) ELSE Jack(v)

Init ==
    /\ device \in Devices
    /\ shm = [key |-> None, mem |-> [o \in Objects |-> Zeroed], sized |-> {}]
    /\ mapped = [p \in Processes |-> None]
    /\ isHost = [p \in Processes |-> FALSE]
    /\ pc = [t \in Threads |-> "off"]
    /\ todo = [t \in Threads |-> <<>>]
    /\ reg = [t \in Threads |-> 0]
    /\ fs = [tmp |-> None, path |-> None, data |-> [i \in Inodes |-> <<>>]]
    /\ fd = [t \in Threads |-> None]
    /\ wrote = [t \in Threads |-> FALSE]
    /\ keys = [down |-> {}, just |-> {}]
    /\ held = {} /\ events = <<>>
    /\ port = 0 /\ had = 0
    /\ asleep = FALSE /\ stopped = FALSE /\ long = FALSE
    /\ mixer = 0 /\ lit = TRUE /\ mon = [had |-> port, busy |-> FALSE]
    /\ past = {}
    /\ acts = MaxActs

-----------------------------------------------------------------------------
(***************************************************************************)
(* InitSettingsCore: the first process creates the object, gives it its     *)
(* size and fills it from the file; a later one waits for the size.         *)
(***************************************************************************)
MainThread == [p \in Processes |-> IF p = "app" THEN "app" ELSE "keys"]
FreeObject == CHOOSE o \in Objects :
                 o # shm.key /\ \A p \in Processes : mapped[p] # o

\* launch.sh starts the next program after an abort, but keymon only once.
Abort(p) == Step(MainThread[p], IF p = "app" THEN "off" ELSE "dead")

Open(p) ==
    LET t == MainThread[p] IN
    /\ pc[t] = "open_shm"
    /\ IF shm.key = None
       THEN /\ shm' = [key |-> FreeObject, mem |-> [shm.mem EXCEPT ![FreeObject] = Zeroed],
                       sized |-> shm.sized \ {FreeObject}]
            /\ mapped' = [mapped EXCEPT ![p] = FreeObject]
            /\ isHost' = [isHost EXCEPT ![p] = TRUE]
            /\ Step(t, "truncate")
       ELSE /\ mapped' = [mapped EXCEPT ![p] = shm.key]
            /\ isHost' = [isHost EXCEPT ![p] = FALSE]
            /\ Step(t, "poll")
            /\ UNCHANGED shm
    /\ UNCHANGED <<todo, reg, fileVars, outVars, envVars, past, acts>>

\* The host's ftruncate, or its failure: the name is removed and it aborts.
Truncate(p) ==
    LET t == MainThread[p] IN
    /\ pc[t] = "truncate"
    /\ \/ /\ shm' = [shm EXCEPT !.sized = @ \union {mapped[p]}]
          /\ Step(t, "read")
          /\ UNCHANGED <<mapped, isHost, past, acts>>
       \/ /\ Spend /\ Note("fault")
          /\ shm' = [shm EXCEPT !.key = None]
          /\ mapped' = [mapped EXCEPT ![p] = None]
          /\ isHost' = [isHost EXCEPT ![p] = FALSE]
          /\ Abort(p)
    /\ UNCHANGED <<todo, reg, fileVars, outVars, envVars>>

\* The client's bounded poll of the size: it maps the object, or gives up.
Poll(p) ==
    LET t == MainThread[p] IN
    /\ pc[t] = "poll"
    /\ \/ /\ mapped[p] \in shm.sized
          /\ Step(t, "next")
          /\ todo' = [todo EXCEPT ![t] = InitCalls]
          /\ NoteIf(\E q \in Processes \ {p} :
                      pc[MainThread[q]] \in {"read", "version"}, "early")
          /\ UNCHANGED <<mapped, acts>>
       \/ /\ mapped[p] \notin shm.sized /\ Note("fault")
          /\ mapped' = [mapped EXCEPT ![p] = None]
          /\ Abort(p)
          /\ UNCHANGED <<todo, acts>>
    /\ UNCHANGED <<shm, isHost, reg, fileVars, outVars, envVars>>

\* The host fills the object: a missing or short file means the defaults.
Read(p) ==
    LET t == MainThread[p] IN
    /\ pc[t] = "read"
    /\ Put(t, IF fs.path = None \/ fs.data[fs.path] = <<>>
              THEN DefaultSettings ELSE Head(fs.data[fs.path]))
    /\ Step(t, "version")
    /\ UNCHANGED <<mapped, isHost, todo, reg, fileVars, outVars, envVars, past, acts>>

\* InitSettings: the host alone checks the version, then everyone applies.
Version(p) ==
    LET t == MainThread[p] IN
    /\ pc[t] = "version"
    /\ Put(t, IF Now(t).version # SETTINGS_VERSION THEN DefaultSettings ELSE Now(t))
    /\ todo' = [todo EXCEPT ![t] = InitCalls]
    /\ Step(t, "next")
    /\ UNCHANGED <<mapped, isHost, reg, fileVars, outVars, envVars, past, acts>>

-----------------------------------------------------------------------------
(***************************************************************************)
(* The setters, one call of todo at a time.                                 *)
(***************************************************************************)
Call(t) == Head(todo[t])
Ready(calls) == IF calls = <<>> THEN "idle" ELSE "next"
Finish(t) == todo' = [todo EXCEPT ![t] = Tail(@)] /\ Step(t, Ready(Tail(todo[t])))
Instead(t, calls) == todo' = [todo EXCEPT ![t] = calls \o Tail(@)] /\ Step(t, "next")
Level(t) == IF Call(t).call = "volume" THEN GetVolume(Now(t)) ELSE GetBrightness(Now(t))
Highest(c) == IF c = "volume" THEN VOLUME_MAX ELSE BRIGHTNESS_MAX
Racing(t) == NoteIf(\E u \in Threads \ {t} : pc[u] \in {"first", "second"}, "overlap")

\* A setter that starts from the old value reads it; a hot key at the end of
\* its range does nothing.
Get(t) ==
    /\ pc[t] = "next" /\ Runs(t) /\ Call(t).call \in {"volume", "brightness"}
    /\ LET v == Level(t) + Call(t).arg IN
       IF v \in 0..Highest(Call(t).call)
       THEN reg' = [reg EXCEPT ![t] = v] /\ Step(t, "first") /\ UNCHANGED todo
       ELSE Finish(t) /\ UNCHANGED reg
    /\ Racing(t)
    /\ UNCHANGED <<shmVars, fileVars, outVars, envVars, acts>>

\* Contents nobody can read any more are forgotten.
Reachable(f, open) == [f EXCEPT !.data = [i \in Inodes |->
    IF i \in {f.tmp, f.path} \union {open[t] : t \in Threads} THEN f.data[i] ELSE <<>>]]

SetVolume(t) ==
    /\ Call(t).call = "volume"
    /\ \/ pc[t] = "first" /\ Hdmied(Now(t)) /\ Finish(t) /\ UNCHANGED <<shm, mixer>>
       \/ /\ pc[t] = "first" /\ ~Hdmied(Now(t))
          /\ Put(t, WithVolume(Now(t), reg[t])) /\ Step(t, "second")
          /\ UNCHANGED <<todo, mixer>>
       \/ pc[t] = "second" /\ mixer' = reg[t] /\ Step(t, "open") /\ UNCHANGED <<todo, shm>>
    /\ UNCHANGED <<lit, mon, sleepVars>>

\* The panel's own level is not tracked: the check, the driver call and the
\* store are one step.
SetBrightness(t) ==
    /\ Call(t).call = "brightness" /\ pc[t] = "first"
    /\ IF Hdmied(Now(t)) THEN Finish(t) /\ UNCHANGED shm
       ELSE /\ Put(t, [Now(t) EXCEPT !.brightness = reg[t]]) /\ Step(t, "open")
            /\ UNCHANGED todo
    /\ UNCHANGED <<outVars, sleepVars>>

SetJack(t) ==
    /\ Call(t).call = "jack" /\ pc[t] = "next"
    /\ Put(t, [Now(t) EXCEPT !.jack = Call(t).arg])
    /\ Instead(t, <<Volume(0)>>)
    /\ UNCHANGED <<outVars, sleepVars>>

\* Mutant: unplugging the cable does not restore the volume.
SetHDMINoRestore(t) ==
    /\ Call(t).call = "hdmi"
    /\ \/ /\ pc[t] = "next"
          /\ Put(t, [Now(t) EXCEPT !.hdmi = Call(t).arg])
          /\ IF Call(t).arg = 1 THEN Step(t, "second") /\ UNCHANGED todo ELSE Finish(t)
          /\ UNCHANGED mixer
       \/ pc[t] = "second" /\ mixer' = VOLUME_MAX /\ Finish(t) /\ UNCHANGED shm
    /\ UNCHANGED <<lit, mon, sleepVars>>

SetHDMI(t) ==
    /\ Call(t).call = "hdmi"
    /\ \/ /\ pc[t] = "next"
          /\ Put(t, [Now(t) EXCEPT !.hdmi = Call(t).arg])
          /\ IF Call(t).arg = 1
             THEN Step(t, "second") /\ UNCHANGED todo
             ELSE Instead(t, <<Volume(0)>>)
          /\ UNCHANGED mixer
       \/ pc[t] = "second" /\ mixer' = VOLUME_MAX /\ Finish(t) /\ UNCHANGED shm
    /\ UNCHANGED <<lit, mon, sleepVars>>

\* PWR_enterSleep and PWR_exitSleep, with the killall between.
SleepCalls(t) ==
    /\ pc[t] = "next"
    /\ \/ /\ Call(t).call = "sleep"
          /\ IF Hdmied(Now(t)) THEN UNCHANGED <<mixer, lit>>
                               ELSE mixer' = 0 /\ lit' = FALSE
          /\ Instead(t, <<Simple("stop")>>)
          /\ UNCHANGED sleepVars
       \/ /\ Call(t).call = "stop"
          /\ stopped' = TRUE /\ Finish(t)
          /\ UNCHANGED <<mixer, lit, asleep, long>>
       \/ /\ Call(t).call = "cont"
          /\ stopped' = FALSE /\ Finish(t)
          /\ UNCHANGED <<mixer, lit, asleep, long>>
       \/ /\ Call(t).call = "wake"
          /\ IF Hdmied(Now(t)) THEN Finish(t) /\ UNCHANGED lit
             ELSE lit' = TRUE /\ Instead(t, <<Brightness(0), Volume(0)>>)
          /\ UNCHANGED <<mixer, sleepVars>>
    /\ UNCHANGED <<shm, mon>>

Setter(t) ==
    /\ pc[t] \in {"next", "first", "second"} /\ Runs(t)
    /\ SetVolume(t) \/ SetBrightness(t) \/ SetJack(t) \/ SetHDMI(t) \/ SleepCalls(t)
    /\ IF pc[t] = "next" THEN Racing(t) ELSE UNCHANGED past
    /\ UNCHANGED <<device, mapped, isHost, reg, fileVars, keyVars, portVars, acts>>

(***************************************************************************)
(* SaveSettingsCore: every writer uses the same temporary name.             *)
(***************************************************************************)
FreeInode == CHOOSE i \in Inodes :
                i \notin {fs.tmp, fs.path} /\ \A t \in Threads : fd[t] # i
Target == IF fs.tmp = None THEN FreeInode ELSE fs.tmp

OpenTmp(t) ==
    /\ pc[t] = "open" /\ Runs(t)
    /\ fs' = [fs EXCEPT !.tmp = Target, !.data[Target] = <<>>]
    /\ fd' = [fd EXCEPT ![t] = Target]
    /\ Step(t, "write")
    /\ UNCHANGED <<shmVars, todo, reg, wrote, outVars, envVars, past, acts>>

WriteTmp(t) ==
    /\ pc[t] = "write" /\ Runs(t)
    /\ \/ /\ fs' = [fs EXCEPT !.data[fd[t]] = <<Now(t)>>]
          /\ wrote' = [wrote EXCEPT ![t] = TRUE]
          /\ UNCHANGED <<past, acts>>
       \/ Spend /\ Note("fault") /\ wrote' = [wrote EXCEPT ![t] = FALSE] /\ UNCHANGED fs
    /\ Step(t, "rename")
    /\ UNCHANGED <<shmVars, todo, reg, fd, outVars, envVars>>

\* Whoever renames moves the name: the file may be another writer's.
RenameTmp(t) ==
    /\ pc[t] = "rename" /\ Runs(t)
    /\ fd' = [fd EXCEPT ![t] = None]
    /\ fs' = Reachable(IF wrote[t] /\ fs.tmp # None
                       THEN [fs EXCEPT !.path = fs.tmp, !.tmp = None] ELSE fs, fd')
    /\ wrote' = [wrote EXCEPT ![t] = FALSE]
    /\ reg' = [reg EXCEPT ![t] = 0]
    /\ Finish(t)
    /\ UNCHANGED <<shmVars, outVars, envVars, past, acts>>

SaveSettings(t) == OpenTmp(t) \/ WriteTmp(t) \/ RenameTmp(t)

-----------------------------------------------------------------------------
(***************************************************************************)
(* keymon: the input loop and the port watcher.                             *)
(***************************************************************************)
StartKeymon ==
    /\ pc["keys"] = "off"
    /\ Step("keys", "open_shm")
    /\ UNCHANGED <<shmVars, todo, reg, fileVars, outVars, envVars, past, acts>>

\* Mutant: the watcher notes what it finds at first and does not apply it.
StartWatchUnapplied ==
    /\ pc["watch"] = "off" /\ pc["keys"] = "idle"
    /\ had' = port
    /\ Step("watch", "idle")
    /\ UNCHANGED <<device, shmVars, todo, reg, fileVars, keyVars, port, sleepVars, outVars, past, acts>>

\* watchHDMI or watchPorts begins by applying what it finds.
StartWatch ==
    /\ pc["watch"] = "off" /\ pc["keys"] = "idle"
    /\ had' = port
    /\ todo' = [todo EXCEPT !["watch"] = <<PortCall(port)>>]
    /\ Step("watch", "next")
    /\ UNCHANGED <<device, shmVars, reg, fileVars, keyVars, port, sleepVars, outVars, past, acts>>

WatchPort ==
    /\ pc["watch"] = "idle" /\ ~stopped /\ had # port
    /\ had' = port
    /\ todo' = [todo EXCEPT !["watch"] = <<PortCall(port)>>]
    /\ Step("watch", "next")
    /\ UNCHANGED <<device, shmVars, reg, fileVars, keyVars, port, sleepVars, outVars, past, acts>>

\* The keys after a batch of events: the last event of each key counts.
LastOf(k) == {i \in 1..Len(events) : events[i].key = k /\ \A j \in i + 1..Len(events) : events[j].key # k}
Touched == {e.key : e \in {events[i] : i \in 1..Len(events)}}
Pressed == {k \in Touched : \A i \in LastOf(k) : events[i].val = 1}
KeysRead == IF long THEN [down |-> {}, just |-> {}]
            ELSE [down |-> (keys.down \ Touched) \union Pressed,
                  just |-> (keys.just \ Touched) \union (Pressed \ {"menu"})]
HotKey(menu, d) == IF menu THEN Brightness(d) ELSE Volume(d)
HotKeys(k, due) ==
    LET act == k.just \union (due \cap k.down)
        menu == "menu" \in k.down
    IN (IF "plus" \in act THEN <<HotKey(menu, 1)>> ELSE <<>>)
       \o (IF "minus" \in act THEN <<HotKey(menu, -1)>> ELSE <<>>)

\* One turn of main's loop; due is what repeats now.
KeymonLoop(due) ==
    LET k == KeysRead IN
    /\ pc["keys"] = "idle" /\ pc["watch"] # "off" /\ ~stopped
    /\ events # <<>> \/ long \/ due # {}
    /\ due \subseteq k.down \ ({"menu"} \union k.just)
    /\ keys' = [k EXCEPT !.just = {}]
    /\ events' = <<>>
    /\ long' = FALSE
    /\ todo' = [todo EXCEPT !["keys"] = HotKeys(k, due)]
    /\ Step("keys", Ready(HotKeys(k, due)))
    /\ IF due = {} THEN UNCHANGED acts ELSE Spend
    /\ UNCHANGED <<device, shmVars, reg, fileVars, held, portVars, asleep, stopped, outVars, past>>

-----------------------------------------------------------------------------
(***************************************************************************)
(* The program, hdmimon.sh, the user and the power.                         *)
(***************************************************************************)
\* The first start on a keymon that is ready is not counted as an act.
StartApp ==
    /\ pc["app"] = "off"
    /\ IF \E t \in {"keys", "watch"} : pc[t] \notin {"idle", "dead"}
       THEN acts >= Crowded /\ acts' = acts - Crowded
       ELSE IF "app" \in past THEN Spend ELSE UNCHANGED acts
    /\ Note("app")
    /\ Step("app", "open_shm")
    /\ UNCHANGED <<shmVars, todo, reg, fileVars, outVars, envVars>>

\* Mutant: the program can be killed while it saves.
AppQuitMidSave(clean) ==
    /\ pc["app"] \in {"idle", "write"} /\ ~asleep
    /\ Step("app", "off")
    /\ todo' = [todo EXCEPT !["app"] = <<>>]
    /\ fd' = [fd EXCEPT !["app"] = None]
    /\ mapped' = [mapped EXCEPT !["app"] = None]
    /\ isHost' = [isHost EXCEPT !["app"] = FALSE]
    /\ shm' = IF clean /\ isHost["app"] THEN [shm EXCEPT !.key = None] ELSE shm
    /\ UNCHANGED <<reg, fs, wrote, outVars, envVars, past, acts>>

\* QuitSettings, or an exit without it (PLAT_powerOff, syncsettings).
AppQuit(clean) ==
    /\ pc["app"] = "idle" /\ ~asleep
    /\ Step("app", "off")
    /\ mapped' = [mapped EXCEPT !["app"] = None]
    /\ isHost' = [isHost EXCEPT !["app"] = FALSE]
    /\ shm' = IF clean /\ isHost["app"] THEN [shm EXCEPT !.key = None] ELSE shm
    /\ UNCHANGED <<todo, reg, fileVars, outVars, envVars, past, acts>>

AppSleep ==
    /\ pc["app"] = "idle" /\ ~asleep /\ Spend
    /\ asleep' = TRUE
    /\ todo' = [todo EXCEPT !["app"] = <<Simple("sleep")>>]
    /\ Step("app", "next")
    /\ UNCHANGED <<device, shmVars, reg, fileVars, keyVars, portVars, stopped, long, outVars, past>>

AppWake ==
    /\ pc["app"] = "idle" /\ asleep
    /\ asleep' = FALSE
    /\ todo' = [todo EXCEPT !["app"] = <<Simple("cont"), Simple("wake")>>]
    /\ Step("app", "next")
    /\ UNCHANGED <<device, shmVars, reg, fileVars, keyVars, portVars, stopped, long, outVars, past, acts>>

\* syncsettings.elf, after its second of waiting.
AppSync ==
    /\ pc["app"] = "idle" /\ ~asleep /\ Spend
    /\ todo' = [todo EXCEPT !["app"] = <<Volume(0), Brightness(0)>>]
    /\ Step("app", "next")
    /\ UNCHANGED <<device, shmVars, reg, fileVars, keyVars, portVars, sleepVars, outVars, past>>

\* enable_hdmi and disable_hdmi blank fb0, switch it and unblank it.
HdmiMon ==
    /\ device = "rg35xxplus"
    /\ \/ ~mon.busy /\ mon.had # port /\ mon' = [had |-> port, busy |-> TRUE] /\ lit' = FALSE
       \/ mon.busy /\ mon' = [mon EXCEPT !.busy = FALSE] /\ lit' = TRUE
    /\ UNCHANGED <<shmVars, pc, todo, reg, fileVars, mixer, envVars, past, acts>>

\* A thread has still to apply a state of the cable that it read.
Queued(t) == {todo[t][i] : i \in DOMAIN todo[t]}
Applying == \E t \in Threads : {Hdmi(0), Hdmi(1)} \cap Queued(t) # {}

Plug ==
    /\ Spend
    /\ port' = 1 - port
    /\ past' = past \union (IF Busy("app") THEN {"midInit"} ELSE {})
                     \union (IF had # port THEN {"blip"} ELSE {})
                     \union (IF mon.had # port \/ Applying THEN {"unseen"} ELSE {})
    /\ UNCHANGED <<device, shmVars, pc, todo, reg, fileVars, keyVars, had, sleepVars, outVars>>

KeyDown(k) ==
    /\ k \notin held /\ Spend /\ Len(events) < MaxEvents
    /\ held' = held \union {k}
    /\ events' = Append(events, [key |-> k, val |-> 1])
    /\ UNCHANGED <<device, shmVars, pc, todo, reg, fileVars, keys, portVars, sleepVars, outVars, past>>

KeyUp(k) ==
    /\ k \in held /\ Len(events) < MaxEvents
    /\ held' = held \ {k}
    /\ events' = Append(events, [key |-> k, val |-> 0])
    /\ UNCHANGED <<device, shmVars, pc, todo, reg, fileVars, keys, portVars, sleepVars, outVars, past, acts>>

\* Over a second passes while keymon is stopped.
LongNap ==
    /\ stopped /\ ~long /\ long' = TRUE
    /\ UNCHANGED <<device, shmVars, pc, todo, reg, fileVars, keyVars, portVars, asleep, stopped, outVars, past, acts>>

\* The power goes; the card keeps its names and files, and the device boots.
PowerCut ==
    /\ Spend
    /\ shm' = [key |-> None, mem |-> [o \in Objects |-> Zeroed], sized |-> {}]
    /\ mapped' = [p \in Processes |-> None]
    /\ isHost' = [p \in Processes |-> FALSE]
    /\ pc' = [t \in Threads |-> "off"]
    /\ todo' = [t \in Threads |-> <<>>]
    /\ reg' = [t \in Threads |-> 0]
    /\ fd' = [t \in Threads |-> None]
    /\ wrote' = [t \in Threads |-> FALSE]
    /\ keys' = [down |-> {}, just |-> {}]
    /\ events' = <<>> /\ had' = 0
    /\ asleep' = FALSE /\ stopped' = FALSE /\ long' = FALSE
    /\ mixer' = 0 /\ lit' = TRUE /\ mon' = [had |-> port, busy |-> FALSE]
    /\ Note("cut")
    /\ UNCHANGED <<device, fs, held, port>>

Next ==
    \/ \E p \in Processes : Open(p) \/ Truncate(p) \/ Poll(p) \/ Read(p) \/ Version(p)
    \/ \E t \in Threads : Get(t) \/ Setter(t) \/ SaveSettings(t)
    \/ StartKeymon \/ StartWatch \/ WatchPort
    \/ \E due \in SUBSET {"plus", "minus"} : KeymonLoop(due)
    \/ StartApp \/ AppSleep \/ AppWake \/ AppSync \/ \E clean \in BOOLEAN : AppQuit(clean)
    \/ HdmiMon \/ Plug \/ LongNap \/ PowerCut
    \/ \E k \in {"plus", "minus", "menu"} : KeyDown(k) \/ KeyUp(k)

Spec == Init /\ [][Next]_vars

-----------------------------------------------------------------------------
\* The variables have their types: no level leaves its range.
TypeOK ==
    /\ device \in Devices
    /\ shm \in [key : Objects \union {None}, mem : [Objects -> Settings], sized : SUBSET Objects]
    /\ mapped \in [Processes -> Objects \union {None}]
    /\ isHost \in [Processes -> BOOLEAN]
    /\ {fs.tmp, fs.path} \subseteq Inodes \union {None}
    /\ \A i \in Inodes : fs.data[i] = <<>> \/ (Len(fs.data[i]) = 1 /\ Head(fs.data[i]) \in Settings)
    /\ fd \in [Threads -> Inodes \union {None}]
    /\ keys.down \subseteq {"plus", "minus", "menu"} /\ mixer \in 0..VOLUME_MAX

Settled == \A t \in Threads : ~Busy(t) \/ pc[t] = "dead"
\* Every process that has the settings mapped shares the named object; it
\* fails once a program that became the host has quit (QuitSettings unlinks).
OneObject == \A p \in Processes : mapped[p] \in {None, shm.key}
FileSays == IF fs.path = None \/ fs.data[fs.path] = <<>>
            THEN DefaultSettings ELSE Head(fs.data[fs.path])
Levels(s) == <<s.version, s.brightness, s.headphones, s.speaker>>
Never(what) == what \notin past

\* However the writers' opens, writes and renames of the one temporary file
\* interleave, once they are done the next boot would read the levels in
\* shared memory.  The exceptions are a write that fails and a client that
\* came between the host's ftruncate and its read, whose zeros may be saved.
SettledFileIsCurrent ==
    Settled /\ OneObject /\ Never("fault") /\ Never("early") /\ shm.key # None
      => Levels(FileSays) = Levels(shm.mem[shm.key])

\* A settings file that is truncated in place (by a second writer, after the
\* first renamed it) still has the writer at work that will fill it.
TornHeals ==
    (/\ Never("fault") /\ Never("cut")
     /\ fs.path # None /\ fs.data[fs.path] = <<>>)
      => \E t \in Threads : fd[t] = fs.path /\ pc[t] = "write"

\* What SaveSettingsCore's comment says: "a power cut mid-write can't leave a
\* torn settings file behind".  With two writers it can: refuted
\* (README, known deviations).
NeverTornSettings == fs.path # None => fs.data[fs.path] # <<>>

\* When no setters overlapped, an awake device plays the level the settings
\* hold for the output in use, through naps, plugs and restarts.
MixerFollows ==
    Settled /\ OneObject /\ Never("overlap") /\ ~asleep /\ pc["app"] = "idle"
      => mixer = IF Hdmied(Now("app")) THEN VOLUME_MAX ELSE GetVolume(Now("app"))

\* The shared HDMI or headphones flag is the port's state once the watcher has
\* looked.  The exceptions are a cable that moves between a program's read of
\* the port in InitSettings and its SetHDMI, and one that is put back before
\* the watcher's next look, while a program started: nobody corrects those.
PortSeen ==
    Settled /\ OneObject /\ Never("midInit") /\ Never("early") /\ Never("blip")
      /\ pc["watch"] = "idle" /\ had = port
      => port = IF device = "rg35xxplus" THEN Now("watch").hdmi ELSE Now("watch").jack

\* An awake device shows a picture: fb0 stays blanked after a wake only while
\* HDMI is in use (a wake that finds HDMI plugged in during the nap skips
\* PLAT_enableBacklight), and hdmimon unblanks it when the cable goes.  The
\* exceptions are a cable that is put back before hdmimon has looked or while a
\* thread has its last state still to apply, and a program that naps before
\* the host has read the file: the picture then stays dark.
DarkOnlyUnderHdmi ==
    (/\ Settled /\ OneObject /\ Never("unseen") /\ Never("early") /\ ~asleep /\ pc["app"] = "idle"
     /\ ~mon.busy /\ mon.had = port
     /\ ~lit)
      => Hdmied(Now("app"))

\* keymon never believes a key held that is up with no event left to say so,
\* though it throws away the events of a long nap.
NoStuckKey == keys.down \subseteq held \/ events # <<>>

\* The levels and the file that keeps them (SaveSettingsCore, QuitSettings).
FileIsSound == TypeOK /\ SettledFileIsCurrent /\ TornHeals

\* Cables and keys that move during a start or a nap are caught up with
\* (keymon's watcher, hdmimon.sh, the reset of keymon's keys).
NothingMissed == PortSeen /\ DarkOnlyUnderHdmi /\ NoStuckKey
=============================================================================
