------------------------------ MODULE Launcher ------------------------------
(***************************************************************************)
(* minui's browser: the stack of open directories, the window of rows that *)
(* each one shows, the position it restores when a directory is opened     *)
(* again, and the way back to where the player was when a game ends and    *)
(* minui starts anew (saveLast, loadLast).  A frame of the main loop is    *)
(* one action.                                                             *)
(*                                                                         *)
(* Indices into entries are C's: the first entry is 0.                     *)
(***************************************************************************)
EXTENDS Integers, Sequences, FiniteSets

CONSTANTS
    MAIN_ROW_COUNT,
    INT_ARRAY_MAX,   \* how many letters a Directory's alphas holds
    MAX_RECENTS,
    Entry,           \* the files and folders of the card, and the made up ones
    None,
    Recents, Collections,
    Info,            \* what the card says of each entry
    Systems, Tools,  \* the console folders and the tools folder of the root
    Colls,           \* the collections, at first
    Saved,           \* the games with a slot file
    Garbage          \* what an uninitialised int may hold

Kinds == {"rom", "pak", "dir"}

(* type, letter and list are what the entry is, sorts under and contains;  *)
(* auto tells what opening a folder with auto_launch finds ("dead" is an   *)
(* m3u whose first disc is missing); game is the file that recents and     *)
(* save states go by, disc the one that is run; path is the way from the   *)
(* root, system the part of a console folder's name before its tag.        *)
Facts == [type : Kinds, letter : Nat, list : Seq(Entry),
          auto : {"none", "run", "dead"}, game : Entry, disc : Entry,
          path : Seq(Entry), file : Entry, system : Entry \cup {None},
          emu : BOOLEAN]

ASSUME RowsAssumption == MAIN_ROW_COUNT \in Nat \ {0}
ASSUME BoundsAssumption == INT_ARRAY_MAX \in Nat /\ MAX_RECENTS \in Nat \ {0}
ASSUME NoneAssumption == None \notin Entry
ASSUME CardAssumption ==
    /\ Recents \in Entry /\ Collections \in Entry /\ Recents # Collections
    /\ Info \in [Entry -> Facts]
    /\ Systems \in Seq(Entry) /\ Tools \in Seq(Entry) /\ Colls \in Seq(Entry)
    /\ Saved \subseteq Entry /\ Garbage \subseteq Int

\* A rom, or a folder with a cue or an m3u of its name.
HasStates(e) == Info[e].type = "rom" \/ Info[e].auto # "none"

\* Only the root lists the Collections folder.
ASSUME NestingAssumption ==
    /\ Info[Collections].type = "dir"
    /\ \A e \in Entry : HasStates(e) => Info[e].game # Collections
    /\ \A e \in Entry : \A i \in DOMAIN Info[e].list :
          Info[e].list[i] # Collections
    /\ \A i \in DOMAIN Colls : Colls[i] # Collections

(* The card is a tree: all of a path but its end are folders, the root     *)
(* lists folders, and a collection is a file of the Collections folder     *)
(* that minui shows as a folder without a game in it.                      *)
ASSUME TreeAssumption ==
    /\ \A e \in Entry : \A i \in DOMAIN Info[e].path :
          i < Len(Info[e].path) \/ Info[e].path[1] = Collections =>
             Info[Info[e].path[i]].type = "dir"
    /\ \A e \in Entry : Info[e].path # <<>> /\ Info[e].path[1] = Collections =>
          Len(Info[e].path) <= 2
    /\ \A e \in Entry : Info[e].system # None => Info[e].type = "dir"
    /\ Info[Recents].type = "dir"
    /\ \A i \in DOMAIN Systems : Info[Systems[i]].type = "dir"
    /\ \A i \in DOMAIN Tools : Info[Tools[i]].type = "dir"
    /\ \A i \in DOMAIN Colls : Info[Colls[i]].type = "dir" /\ ~HasStates(Colls[i])

VARIABLES
    colls,          \* the collections on the card
    recents,        \* recent.txt
    last,           \* /tmp/last.txt: a path, and a file name in a collection
    ui,             \* loading, browse, version, quit, or dead
    todo,           \* the parts of last that loadLast has still to visit
    stack,
    restore,        \* restore_depth, restore_relative and the window
    ready,          \* can_resume and slot_path
    should_resume,
    launch,         \* /tmp/next and /tmp/resume_slot.txt, and the button used
    closed,         \* history: the directory closed last
    forgot,         \* history: a collection was deleted under a restore
    from            \* history: where last was saved, and for what

vars == <<colls, recents, last, ui, todo, stack, restore, ready,
          should_resume, launch, closed, forgot, from>>

-----------------------------------------------------------------------------
\* Directories: what Directory_new lists, and the window onto it.

Rows(n) == IF n < MAIN_ROW_COUNT THEN n ELSE MAIN_ROW_COUNT

Root == None    \* the path of the root is no entry of a list

If(cond, seq) == IF cond THEN seq ELSE <<>>

(* getRoot: Recently Played, then Collections and the consoles, or the     *)
(* collections themselves when no console has roms, then Tools.            *)
getRoot ==
    If(recents # <<>>, <<Recents>>)
    \o If(colls # <<>> /\ Systems # <<>>, <<Collections>>)
    \o If(Systems = <<>>, colls) \o Systems \o Tools

\* prefixMatch(COLLECTIONS_PATH, path)
InCollections(d) ==
    d # Root /\ Info[d].path # <<>> /\ Info[d].path[1] = Collections

getRecents == recents
getCollection(d) == Info[d].list
getEntries(d) == IF d = Collections THEN colls ELSE Info[d].list

\* The entries that Directory_new lists; a disc list is never opened.
Directory_new(d) ==
    IF d = Recents THEN getRecents
    ELSE IF d # Collections /\ InCollections(d) THEN getCollection(d)
    ELSE getEntries(d)

(* Directory_index: where a new letter begins, unless the directory is not *)
(* alphabetized.                                                           *)
Letters(f) ==
    IF f.dir = Recents \/ InCollections(f.dir) THEN {}
    ELSE {i \in 0 .. Len(f.list) - 1 :
             i = 0 \/ Info[f.list[i]].letter # Info[f.list[i + 1]].letter}

\* entry->alpha: IntArray_push ignores what does not fit, the index stays.
Alpha(f, i) ==
    LET before == Cardinality({s \in Letters(f) : s <= i}) - 1
    IN  IF before > INT_ARRAY_MAX THEN INT_ARRAY_MAX ELSE before

AlphaStarts(f, a) ==
    IF a >= INT_ARRAY_MAX THEN {}
    ELSE {s \in Letters(f) : Cardinality({t \in Letters(f) : t < s}) = a}

Entries(f) == Len(f.list)
Top == stack[Len(stack)]
Under(f) == f.list[f.win.selected + 1]       \* the entry under the cursor

-----------------------------------------------------------------------------
\* Scrolling, as Menu_handleInput does it.

Window(s, b, e) == [selected |-> s, start |-> b, end |-> e]
First(n) == Window(0, 0, Rows(n))
Final(n) == Window(n - 1, n - Rows(n), n)
Slide(w, d) == Window(w.selected + d, w.start + d, w.end + d)

Up(w, n, pressed) ==
    IF w.selected = 0 THEN IF pressed THEN Final(n) ELSE w
    ELSE IF w.selected - 1 < w.start THEN Slide(w, -1)
    ELSE [w EXCEPT !.selected = w.selected - 1]

Down(w, n, pressed) ==
    IF w.selected = n - 1 THEN IF pressed THEN First(n) ELSE w
    ELSE IF w.selected + 1 >= w.end THEN Slide(w, 1)
    ELSE [w EXCEPT !.selected = w.selected + 1]

\* Mutant: a page up may leave the list at its top.
LeftUnclamped(w, n) ==
    LET s == w.selected - MAIN_ROW_COUNT
    IN  IF s < 0 THEN First(n)
        ELSE IF s < w.start THEN Slide(w, -MAIN_ROW_COUNT)
        ELSE [w EXCEPT !.selected = s]

Left(w, n) ==
    LET s == w.selected - MAIN_ROW_COUNT
        b == IF w.start < MAIN_ROW_COUNT THEN 0 ELSE w.start - MAIN_ROW_COUNT
    IN  IF s < 0 THEN First(n)
        ELSE IF s < w.start THEN Window(s, b, b + MAIN_ROW_COUNT)
        ELSE [w EXCEPT !.selected = s]

Right(w, n) ==
    LET s == w.selected + MAIN_ROW_COUNT
        e == IF w.end + MAIN_ROW_COUNT > n THEN n ELSE w.end + MAIN_ROW_COUNT
    IN  IF s >= n THEN Final(n)
        ELSE IF s >= w.end THEN Window(s, e - MAIN_ROW_COUNT, e)
        ELSE [w EXCEPT !.selected = s]

Jump(w, n, s) ==
    LET e == IF s + MAIN_ROW_COUNT > n THEN n ELSE s + MAIN_ROW_COUNT
    IN  IF n > MAIN_ROW_COUNT THEN Window(s, e - MAIN_ROW_COUNT, e)
        ELSE [w EXCEPT !.selected = s]

\* L1 and R1: to the letter before or after the entry's, if there is one.
Jumps(f, w) ==
    {w} \cup {Jump(w, Entries(f), s) :
                 s \in AlphaStarts(f, Alpha(f, w.selected) - 1)
                       \cup AlphaStarts(f, Alpha(f, w.selected) + 1)}

(* The windows one frame's directions and shoulder buttons can lead to: UP *)
(* or DOWN, then LEFT or RIGHT, then L1 or R1, each of them optional.      *)
Scrolled(f) ==
    LET n == Entries(f)
        vertical == {f.win} \cup UNION {{Up(f.win, n, p), Down(f.win, n, p)} :
                                           p \in BOOLEAN}
        across == UNION {{w, Left(w, n), Right(w, n)} : w \in vertical}
    IN  IF n = 0 THEN {f.win} ELSE UNION {Jumps(f, w) : w \in across}

\* Menu_draw and readyResume read entries at selected and from start to end.
Fits(f) ==
    Entries(f) > 0 =>
        /\ f.win.selected \in 0 .. Entries(f) - 1
        /\ f.win.start >= 0 /\ f.win.end <= Entries(f)

Scroll(w) == [stack EXCEPT ![Len(stack)].win = w]

-----------------------------------------------------------------------------
\* openDirectory and closeDirectory, on the stack st.

NoRestore == [depth |-> -1, relative |-> -1, win |-> Window(0, 0, 0)]

\* Mutant: the depth is not compared.
SamePlaceAnyDepth(st) ==
    /\ Entries(st[Len(st)]) > 0
    /\ st[Len(st)].win.selected = restore.relative

SamePlace(st) ==
    /\ Entries(st[Len(st)]) > 0
    /\ restore.depth = Len(st)
    /\ st[Len(st)].win.selected = restore.relative

Opened(st, d) ==
    LET w == IF SamePlace(st) THEN restore.win ELSE Window(0, 0, 0)
        l == Directory_new(d)
    IN  [dir |-> d, list |-> l,
         win |-> IF w.end # 0 THEN w ELSE [w EXCEPT !.end = Rows(Len(l))]]

Pop(st) == SubSeq(st, 1, Len(st) - 1)

closeDirectory(st) ==
    /\ stack' = Pop(st)
    /\ restore' = [depth |-> Len(st) - 1,
                   relative |-> st[Len(st) - 1].win.selected,
                   win |-> st[Len(st)].win]
    /\ closed' = st[Len(st)].dir

-----------------------------------------------------------------------------
\* Resuming: readyResume, and the slot that openRom hands to minarch.

readyResume(e) ==
    [can |-> HasStates(e) /\ Info[e].game \in Saved,
     slot |-> IF HasStates(e) THEN Info[e].game ELSE ready.slot]

(* The frame refreshes can_resume when the cursor moved or something else  *)
(* made the screen dirty.                                                  *)
Refreshed(w) ==
    LET fresh == readyResume(Top.list[w.selected + 1])
    IN  IF Entries(Top) = 0 THEN {ready}
        ELSE IF w.selected # Top.win.selected THEN {fresh} ELSE {fresh, ready}

\* Menu_handleInput refreshes it again when A or B has changed the list.
AfterPress(f, r) == IF Entries(f) > 0 /\ Fits(f)
                    THEN readyResume(Under(f)) ELSE r

SlotFor(r, resume) ==
    IF ~resume THEN "default" ELSE IF r.slot \in Saved THEN "noted" ELSE "garbage"

-----------------------------------------------------------------------------
\* Leaving minui: addRecent, saveLast and the command in /tmp/next.

Without(seq, i) == SubSeq(seq, 1, i - 1) \o SubSeq(seq, i + 1, Len(seq))

\* Add at the top, or bump to the top.
addRecent(e) ==
    LET listed == {i \in DOMAIN recents : recents[i] = e}
        room == IF Len(recents) < MAX_RECENTS
                THEN recents ELSE SubSeq(recents, 1, MAX_RECENTS - 1)
    IN  \/ /\ listed = {}
           /\ recents' = <<e>> \o room
        \/ \E i \in listed :
              /\ \A j \in listed : i <= j
              /\ recents' = <<e>> \o Without(recents, i)

PathOf(e) == [path |-> Info[e].path, file |-> None]

saveLast(path) ==
    last' = IF Top.dir = Recents THEN PathOf(Recents) ELSE path

\* Mutant: openRom is not told the collection the game was chosen from.
RomLastPlain(e, sd) == PathOf(sd)

(* Entry_open gives openRom a path inside the collection; a folder that    *)
(* starts a game gives its own path; else it is the file that runs.        *)
RomLast(e, sd) ==
    IF Info[e].type = "dir" THEN PathOf(e)
    ELSE IF InCollections(Top.dir)
         THEN [path |-> Info[Top.dir].path, file |-> Info[e].file]
         ELSE PathOf(sd)

\* The disc that a resumed state notes is one of the same game's.
DiscsFor(e, resume) ==
    IF resume
    THEN {x \in Entry : Info[x].type = "rom" /\ Info[x].game = Info[e].game}
    ELSE {Info[e].disc}

\* openRom resets should_resume, whether the emulator is there or not.
ConsumeFlag(e, resume) == FALSE

NoLaunch == [by |-> "A", slot |-> "default"]

openRom(e, by, r) ==
    LET resume == by = "RESUME" \/ should_resume
    IN  /\ should_resume' = ConsumeFlag(e, resume)
        /\ \/ /\ ~Info[e].emu
              /\ ready' = IF by = "A" THEN readyResume(e) ELSE r
              /\ UNCHANGED <<recents, last, ui, launch, from>>
           \/ /\ Info[e].emu
              /\ addRecent(Info[e].game)
              /\ \E sd \in DiscsFor(e, resume) : saveLast(RomLast(e, sd))
              /\ launch' = [by |-> by, slot |-> SlotFor(r, resume)]
              /\ from' = [dir |-> Top.dir, entry |-> e, why |-> "game"]
              /\ ui' = "quit"
              /\ ready' = r

\* prefixMatch(ROMS_PATH, path)
InRoms(e) == Info[e].path # <<>> /\ Info[Info[e].path[1]].system # None

openPak(e) ==
    /\ IF InRoms(e) THEN addRecent(e) ELSE UNCHANGED recents
    /\ saveLast(PathOf(e))
    /\ launch' = NoLaunch
    /\ from' = [dir |-> Top.dir, entry |-> e, why |-> "tool"]
    /\ ui' = "quit"

-----------------------------------------------------------------------------
(* A frame of the main loop.  Menu_handleInput first scrolls and then acts *)
(* on a button; a frame that does both is a Move and then the button.      *)

fixed == <<colls, todo>>
unlaunched == <<recents, last, launch, from>>

Move ==
    /\ ui = "browse"
    /\ \E w \in Scrolled(Top) :
          /\ stack' = Scroll(w)
          /\ IF Fits([Top EXCEPT !.win = w])
             THEN UNCHANGED ui /\ ready' \in Refreshed(w)
             ELSE ui' = "dead" /\ UNCHANGED ready
    /\ UNCHANGED <<fixed, unlaunched, restore, should_resume, closed, forgot>>

(* L1 and R1 read the entry under the cursor without asking for the count. *)
ShoulderOnEmpty ==
    /\ ui = "browse" /\ Entries(Top) = 0
    /\ ui' = "dead"
    /\ UNCHANGED <<fixed, unlaunched, stack, restore, ready, should_resume,
                   closed, forgot>>

\* Entry_open, for A or for RESUME, on the entry under the cursor.
Pressable == ui = "browse" /\ Entries(Top) > 0
Buttons(r) == IF r.can THEN {"A", "RESUME"} ELSE {"A"}

OpenRom ==
    /\ Pressable
    /\ \E r \in Refreshed(Top.win) : \E by \in Buttons(r) :
          /\ Info[Under(Top)].type = "rom" \/ Info[Under(Top)].auto = "run"
          /\ openRom(Under(Top), by, r)
    /\ UNCHANGED <<fixed, stack, restore, closed, forgot>>

OpenPak ==
    /\ Pressable
    /\ Info[Under(Top)].type = "pak"
    /\ ready' \in Refreshed(Top.win)
    /\ openPak(Under(Top))
    /\ UNCHANGED <<fixed, stack, restore, should_resume, closed, forgot>>

OpenDirectory ==
    /\ Pressable
    /\ \E r \in Refreshed(Top.win) : \E by \in Buttons(r) :
          LET e == Under(Top)
              f == Opened(stack, e) IN
          /\ Info[e].type = "dir" /\ Info[e].auto # "run"
          /\ stack' = Append(stack, f)
          /\ should_resume' = (should_resume \/ by = "RESUME")
          /\ ready' = IF by = "A" THEN AfterPress(f, r) ELSE r
          /\ ui' = IF Fits(f) THEN "browse" ELSE "dead"
    /\ UNCHANGED <<fixed, unlaunched, restore, closed, forgot>>

CloseDirectory ==
    /\ ui = "browse" /\ Len(stack) > 1
    /\ closeDirectory(stack)
    /\ ready' = AfterPress(stack[Len(stack) - 1], ready)
    /\ UNCHANGED <<fixed, unlaunched, ui, should_resume, forgot>>

(* Y on a collection: ask, unlink, list the directory again.  The count    *)
(* can fall to zero only from one; Directory_new has not set start and end *)
(* by then, and closeDirectory keeps what they hold.                       *)
Rebuilt(w, l) ==
    LET n == Len(l)
        s == IF w.selected >= n THEN n - 1 ELSE w.selected
    IN  IF s < Rows(n) THEN Window(s, 0, Rows(n))
        ELSE Window(s, s + 1 - MAIN_ROW_COUNT, s + 1)

\* Another collection takes the place that restore_relative stands for.
Misplaced(l) ==
    /\ restore.depth = Len(stack)
    /\ restore.relative \in 0 .. Len(l) - 1
    /\ l[restore.relative + 1] # Top.list[restore.relative + 1]

\* When the player says no or unlink fails, nothing has changed.
DeleteCollection ==
    LET l == Without(colls, Top.win.selected + 1)
        rebuilt(w) == [stack EXCEPT ![Len(stack)] =
                          [dir |-> Collections, list |-> l, win |-> w]]
    IN
    /\ ui = "browse" /\ Len(stack) > 1
    /\ Top.dir = Collections /\ Entries(Top) > 0
    /\ colls' = l
    /\ from' = None
    /\ ready' \in Refreshed(Top.win)
    /\ forgot' = (forgot \/ Misplaced(l))
    /\ \/ /\ l # <<>>
          /\ stack' = rebuilt(Rebuilt(Top.win, l))
          /\ UNCHANGED <<restore, closed>>
       \/ /\ l = <<>>
          /\ \E b \in Garbage, f \in Garbage :
                closeDirectory(rebuilt(Window(Top.win.selected, b, f)))
    /\ UNCHANGED <<todo, recents, last, ui, should_resume, launch>>

\* MENU shows the version screen and, like B, hides it again.
ToggleVersion ==
    /\ ui \in {"browse", "version"}
    /\ ui' = IF ui = "browse" THEN "version" ELSE "browse"
    /\ UNCHANGED <<fixed, unlaunched, stack, restore, ready, should_resume,
                   closed, forgot>>

(* The end of the frame, after a cable was plugged in or pulled: the entry *)
(* under the cursor is where minui starts again, also when this frame has  *)
(* just queued a game.                                                     *)
HDMIChange ==
    /\ ui \in {"browse", "version", "quit"}
    /\ IF Entries(Top) = 0
       THEN ui' = "dead" /\ UNCHANGED <<last, from>>
       ELSE /\ saveLast(PathOf(Under(Top)))
            /\ from' = [dir |-> Top.dir, entry |-> Under(Top), why |-> "cable"]
            /\ ui' = "quit"
    /\ UNCHANGED <<fixed, recents, stack, restore, ready, should_resume, launch,
                   closed, forgot>>

-----------------------------------------------------------------------------
\* launch.sh runs the game or tool and then minui again; Menu_init.

NoLast == [path |-> <<>>, file |-> None]
RootFrame == [dir |-> Root, list |-> getRoot, win |-> First(Len(getRoot))]

\* The path, directory by directory, and the file when it is in a collection.
Parts(p) == p.path \o If(p.file # None, <<None>>)

Boot ==
    /\ ui' = "loading"
    /\ stack' = <<RootFrame>>
    /\ restore' = NoRestore
    /\ ready' = [can |-> FALSE, slot |-> None]
    /\ should_resume' = FALSE
    /\ launch' = NoLaunch
    /\ closed' = None /\ forgot' = FALSE
    /\ UNCHANGED <<colls, recents>>

\* A wild read ends minui too; /tmp keeps last.txt from the time before.
Relaunch ==
    /\ ui \in {"quit", "dead"}
    /\ todo' = Parts(last)
    /\ Boot
    /\ UNCHANGED <<last, from>>

\* Switched off and on: /tmp starts empty.
Reboot ==
    /\ ui \in {"browse", "version", "quit"}
    /\ last' = NoLast /\ from' = None /\ todo' = <<>>
    /\ Boot

SamePath(x, part) ==
    \/ x = part
    \/ /\ part # None /\ Info[part].system # None
       /\ Info[x].system = Info[part].system     \* collated consoles
    \/ last.file # None /\ Info[x].file = last.file

SelectRow(w, n, i) ==
    LET e == IF i + MAIN_ROW_COUNT > n THEN n ELSE i + MAIN_ROW_COUNT
    IN  IF i >= w.end THEN Window(i, e - MAIN_ROW_COUNT, e)
        ELSE [w EXCEPT !.selected = i]

\* Contents of auto-launch directories are not shown, nor is the last one's.
Enters(e) ==
    /\ Info[e].type = "dir"
    /\ \/ Len(todo) > 1
       \/ e = Recents
       \/ e # Collections /\ InCollections(e)

\* One round of loadLast's loop over the parts of the path.
LoadLast ==
    LET found == {i \in 0 .. Entries(Top) - 1 :
                     SamePath(Top.list[i + 1], Head(todo))}
    IN
    /\ ui = "loading" /\ todo # <<>>
    /\ todo' = Tail(todo)
    /\ \/ found = {} /\ UNCHANGED stack
       \/ \E i \in found :
          LET e == Top.list[i + 1]
              st == Scroll(SelectRow(Top.win, Entries(Top), i)) IN
          /\ \A j \in found : i <= j
          /\ stack' = IF Enters(e) THEN Append(st, Opened(st, e)) ELSE st
    /\ UNCHANGED <<colls, unlaunched, ui, restore, ready, should_resume, closed,
                   forgot>>

\* The first frame is dirty and so makes can_resume right.
LoadDone ==
    /\ ui = "loading" /\ todo = <<>>
    /\ ui' = "browse"
    /\ ready' = AfterPress(Top, ready)
    /\ UNCHANGED <<fixed, unlaunched, stack, restore, should_resume, closed,
                   forgot>>

Init ==
    /\ colls = Colls /\ recents = <<>>
    /\ last = NoLast /\ ui = "loading" /\ todo = <<>>
    /\ stack = <<RootFrame>>
    /\ restore = NoRestore
    /\ ready = [can |-> FALSE, slot |-> None]
    /\ should_resume = FALSE
    /\ launch = NoLaunch
    /\ closed = None /\ forgot = FALSE /\ from = None

Next ==
    \/ Move \/ ShoulderOnEmpty \/ OpenRom \/ OpenPak \/ OpenDirectory
    \/ CloseDirectory \/ DeleteCollection \/ ToggleVersion \/ HDMIChange
    \/ Relaunch \/ Reboot \/ LoadLast \/ LoadDone

Spec == Init /\ [][Next]_vars

-----------------------------------------------------------------------------
\* Properties.

Windows == [selected : Int, start : Int, end : Int]
Frames == [dir : Entry \cup {None}, list : Seq(Entry), win : Windows]
Paths == [path : Seq(Entry), file : Entry \cup {None}]
Places == [dir : Entry \cup {None}, entry : Entry, why : {"game", "tool", "cable"}]

TypeOK ==
    /\ colls \in Seq(Entry) /\ recents \in Seq(Entry)
    /\ last \in Paths /\ todo \in Seq(Entry \cup {None})
    /\ ui \in {"loading", "browse", "version", "quit", "dead"}
    /\ stack \in Seq(Frames) /\ stack # <<>>
    /\ restore \in [depth : Int, relative : Int, win : Windows]
    /\ ready \in [can : BOOLEAN, slot : Entry \cup {None}]
    /\ should_resume \in BOOLEAN /\ forgot \in BOOLEAN
    /\ launch \in [by : {"A", "RESUME"}, slot : {"default", "noted", "garbage"}]
    /\ closed \in Entry \cup {None}
    /\ from \in Places \cup {None}

(* The window of every open directory shows as many rows as there are, up  *)
(* to MAIN_ROW_COUNT, and the cursor is on one of them, whatever was       *)
(* scrolled, opened, closed, restored or found again (Menu_handleInput,    *)
(* openDirectory, loadLast) -- unless a collection was deleted and another *)
(* one has taken its remembered place.                                     *)
Shown(w, n) ==
    n > 0 => /\ 0 <= w.start /\ w.start <= w.selected
             /\ w.selected < w.end /\ w.end <= n
             /\ w.end - w.start = Rows(n)
WindowsShown ==
    ~forgot => \A i \in DOMAIN stack : Shown(stack[i].win, Entries(stack[i]))

(* The launcher reads an entry that is not there only in an empty list, or *)
(* after such a deletion: everything else keeps to the entries it has.     *)
WildOnlyThere == ui = "dead" => Entries(Top) = 0 \/ forgot

(* openDirectory restores a position only to the directory it was saved    *)
(* from; every other directory opens at its first entry.                   *)
RestoresItsOwn ==
    [][Len(stack') > Len(stack) /\ ui = "browse" /\ ~forgot =>
         LET f == stack'[Len(stack')]
         IN  f.dir = closed \/ f.win = First(Entries(f)) ]_vars

(* When minui starts again after a game, a tool or an HDMI change, loadLast *)
(* leads back to the directory it was left from, with the cursor on the    *)
(* same game: for a game in a collection, in Recently Played (where it is  *)
(* on top by now), in a collated console and in a multi-disc folder alike. *)
(* A tool, and an HDMI change, save the path of the entry itself.  From a  *)
(* collection that leads to the same game in the folder it is kept in; a   *)
(* list under the cursor, Recently Played or a collection, is opened; and  *)
(* Recently Played, which no change of the cable reorders, opens at its    *)
(* top ("doesn't work in Recents (by design)").  The Collections folder is  *)
(* not listed any more when its last collection has been deleted.          *)
SameGame(a, b) == Info[a].game = Info[b].game \/ Info[a].file = Info[b].file
ACollection(d) == d # Collections /\ InCollections(d)
OpensIt(e) == e = Recents \/ ACollection(e)

ThereAgain == Top.dir = from.dir /\ SameGame(Under(Top), from.entry)
FoundAgain ==
    IF from.entry = Collections /\ colls = <<>> THEN Top.dir = Root
    ELSE IF from.why = "game" THEN ThereAgain
    ELSE IF from.dir = Recents /\ from.why = "cable"
         THEN Top.dir = Recents /\ Top.win.selected = 0
    ELSE IF OpensIt(from.entry) THEN Top.dir = from.entry
    ELSE IF ACollection(from.dir) THEN SameGame(Under(Top), from.entry)
    ELSE ThereAgain
ComesBack == [][ui = "loading" /\ ui' = "browse" /\ from # None => FoundAgain]_vars

(* "doesn't work in Recents (by design)" (minui.c:1681): everywhere else an *)
(* HDMI change comes back to the entry it left.  Refuted (README).          *)
CableComesBack ==
    [][ui = "loading" /\ ui' = "browse" /\ from # None /\ from.why = "cable"
          /\ from.dir # Recents => ThereAgain]_vars

(* should_resume is left set after a frame only when RESUME was pressed on *)
(* a folder whose m3u lists a missing first disc, which opens it instead:  *)
(* a game without its emulator, a launch and every other press consume it. *)
FlagLingersInDead ==
    [][~should_resume /\ should_resume' =>
         /\ Len(stack') > Len(stack)
         /\ Info[stack'[Len(stack')].dir].auto = "dead"]_vars

(* "set to 1 on BTN_RESUME but only if can_resume==1": a game starts from  *)
(* a save slot exactly when RESUME was pressed on it.  Refuted (README).    *)
LaunchAsAsked == launch.slot = IF launch.by = "A" THEN "default" ELSE "noted"

(* "Delete the collection under the cursor, then rebuild the Collections   *)
(* list in place": after that the list browses like any other.  Refuted.   *)
DeleteIsHarmless == ui = "dead" => Entries(Top) = 0

(* Menu_handleInput and openDirectory keep every list and its window sound. *)
Browses == TypeOK /\ WindowsShown /\ WildOnlyThere

(* What an earlier frame left behind, a position to restore (openDirectory) *)
(* or the wish to resume (should_resume), serves only what it was left for. *)
NothingStale == RestoresItsOwn /\ FlagLingersInDead
=============================================================================
