------------------------------- MODULE Lists --------------------------------
(***************************************************************************)
(* The lists of games kept on the card: recent.txt, which minui reads,     *)
(* prunes, merges and rewrites whenever it starts and adds to whenever it  *)
(* launches a game, and the collections, which minarch's picker edits and  *)
(* minui shows and deletes.  The two programs meet through the files, the  *)
(* note of a changed disc in /tmp and the auto-resume marker.  A game may  *)
(* have several discs; its files may come and go, a file may fail to open  *)
(* or to take all that is written, and the power may be cut.               *)
(*                                                                         *)
(* A path is <<game, n>>: n = 0 is the game's only file, or the m3u that   *)
(* lists its discs, n > 0 its n-th disc.  Names shown are left out.        *)
(***************************************************************************)
EXTENDS Integers, Sequences, FiniteSets, SequencesExt

CONSTANTS
  Games,
  DiscCount,    \* [Games -> Nat]: 0 for a game of one file
  Names,        \* names a collection can have, "Favorites" among them
  ByHand,       \* the collections there may be at first
  MAX_RECENTS,
  MaxActs       \* bound: what the player, the card and the power do

Paths == UNION {{<<g, n>> : n \in 0 .. DiscCount[g]} : g \in Games}
Junk == <<"junk", 0>>    \* a line that names no file

\* A collection: whether its file exists, its lines, and whether the last of
\* them ends in a newline.
File(lines) == [on |-> TRUE, lines |-> lines, ended |-> TRUE]
NoFile == [on |-> FALSE, lines |-> <<>>, ended |-> TRUE]

ASSUME ListsAssumption ==
  /\ DiscCount \in [Games -> Nat] /\ Junk[1] \notin Games
  /\ "Favorites" \in Names
  /\ \A all \in ByHand : all \in [Names -> [on : BOOLEAN, lines : Seq(Paths), ended : BOOLEAN]]
  /\ MAX_RECENTS \in Nat \ {0} /\ MaxActs \in Nat

VARIABLES
  present,  \* the paths that exist
  able,     \* games whose emulator's pak is installed
  recent,   \* recent.txt, as the programs see it
  coll,     \* the collections, as the programs see them
  disk,     \* both as they are on the card
  rewrite,  \* history: the last removal from each collection: "kept" (on the card),
            \* "renamed" (not synced yet) or "cut" (not all of it was written)
  proc,     \* what runs: off, minui or game
  recents,  \* minui's recents: [path, available]
  playing,  \* minarch's game.path
  change,   \* /tmp/change_disc.txt, <<>> or <<path>>
  marker,   \* the auto-resume marker, <<>> or <<path>>
  picker,   \* the collections picker: the tick of each row; no row when closed
  plays,    \* history: the games launched, the last one first
  touched,  \* history: games whose files have come or gone since their launch
  split,    \* history: an m3u has been away, and its discs were games of their own
  lost,     \* history: recent.txt is not what minui last had to save
  acts      \* bound: a step that fails half way counts twice

AppendIf(l, e, set) == IF e \in set THEN Append(l, e) ELSE l

\* The elements of s that are in set, in their order.
Filter(s, set) ==
  LET picked[n \in 0 .. Len(s)] == IF n = 0 THEN <<>> ELSE AppendIf(picked[n - 1], s[n], set)
  IN  picked[Len(s)]

files == <<recent, coll, disk, rewrite>>
KeptAll == [c \in Names |-> "kept"]
card == <<present, able>>
past == <<plays, touched, split, lost>>
listVars == <<card, files, proc, recents, playing, change, marker, picker, past, acts>>

Act == acts < MaxActs /\ acts' = acts + 1
FailingAct == acts + 1 < MaxActs /\ acts' = acts + 2
Closed == [c \in {} |-> FALSE]

ListsInit ==
  /\ present = Paths /\ able = Games
  /\ recent = <<>> /\ coll \in ByHand
  /\ disk = [recent |-> recent, coll |-> coll] /\ rewrite = KeptAll
  /\ proc = "off" /\ recents = <<>> /\ playing = Junk
  /\ change = <<>> /\ marker = <<>> /\ picker = Closed
  /\ plays = <<>> /\ touched = {} /\ split = FALSE /\ lost = FALSE /\ acts = 0

-----------------------------------------------------------------------------
(* recent.txt.                                                             *)

hasEmu(g) == g \in able
Recent_new(p) == [path |-> p, available |-> hasEmu(p[1])]
hasM3u(p) == p \in Paths /\ DiscCount[p[1]] > 0 /\ <<p[1], 0>> \in present
Lines(rows) == [i \in DOMAIN rows |-> rows[i].path]

\* What there is of lines of which not all were written.
CutShort(lines) == {SubSeq(lines, 1, n) : n \in 0 .. Len(lines)} \cup
                   {Append(SubSeq(lines, 1, n), Junk) : n \in 0 .. Len(lines) - 1}

\* fopen truncates the file: when it fails the file stays as it is, and what
\* fputs cannot write is missing (a line cut short names no file, and is as good
\* as missing).  n acts go with it, and one more when it fails.
saveRecents(rows, n) ==
  \/ recent' = Lines(rows) /\ lost' = FALSE /\ acts' = acts + n
  \/ /\ acts + n < MaxActs /\ acts' = acts + n + 1
     /\ lost' = TRUE /\ recent' \in {recent} \cup {SubSeq(Lines(rows), 1, k) : k \in 0 .. Len(rows)}

\* A new row drops the oldest when the list is full; a row that is there is
\* moved to the top.
addRecent(p) ==
  LET at == {i \in DOMAIN recents : recents[i].path = p} IN
  IF at = {}
  THEN <<Recent_new(p)>> \o SubSeq(recents, 1, IF Len(recents) < MAX_RECENTS THEN Len(recents) ELSE MAX_RECENTS - 1)
  ELSE LET i == CHOOSE j \in at : \A k \in at : j <= k
       IN  <<recents[i]>> \o SubSeq(recents, 1, i - 1) \o SubSeq(recents, i + 1, Len(recents))

\* Mutant: the discs of one game are not merged.
MergeNone(acc, p) ==
  IF p \notin present \/ Len(acc.rows) >= MAX_RECENTS THEN acc
  ELSE [rows |-> Append(acc.rows, Recent_new(p)), parents |-> acc.parents]

\* A line of recent.txt: a missing game is dropped, and so is a disc of a game
\* that has a row.
Merge(acc, p) ==
  IF p \notin present \/ Len(acc.rows) >= MAX_RECENTS \/ (hasM3u(p) /\ p[1] \in acc.parents) THEN acc
  ELSE [rows |-> Append(acc.rows, Recent_new(p)),
        parents |-> IF hasM3u(p) THEN acc.parents \cup {p[1]} ELSE acc.parents]

\* The disc that minarch changed to comes first.
hasRecents(lines) ==
  LET told == Filter(change, present)
      read[n \in 0 .. Len(lines)] ==
        IF n = 0
        THEN [rows |-> [i \in DOMAIN told |-> Recent_new(told[i])], parents |-> {p[1] : p \in Range(told)}]
        ELSE Merge(read[n - 1], lines[n])
  IN  read[Len(lines)].rows

getRecents == Filter(recents, {r \in Range(recents) : r.available})

-----------------------------------------------------------------------------
(* minui.                                                                  *)

\* A file of the launcher's lists: a collection shows what exists and can run.
getCollection(c) == {p \in Range(coll[c].lines) : p \in present /\ hasEmu(p[1])}

\* A folder whose m3u names a disc that exists is launched, not listed.
getFirstDisc(g) == <<g, 1>>
Launches(g) == <<g, 0>> \in present /\ getFirstDisc(g) \in present
Listed ==
  {p \in present : DiscCount[p[1]] = 0}
    \cup {getFirstDisc(g) : g \in {x \in Games : DiscCount[x] > 0 /\ Launches(x)}}
    \cup {p \in present : DiscCount[p[1]] > 0 /\ ~Launches(p[1])}
    \cup {r.path : r \in Range(getRecents)}
    \cup UNION {getCollection(c) : c \in Names}

\* Menu_init, when autoResume has nothing to resume.
Shows ==
  LET rows == hasRecents(recent) IN
  /\ proc' = "minui"
  /\ recents' = rows
  /\ change' = <<>>
  /\ saveRecents(rows, 0)
  /\ plays' = IF lost THEN <<>> ELSE plays

Resumable == marker # <<>> /\ Head(marker) \in present /\ hasEmu(Head(marker)[1])
Boot ==
  /\ proc = "off" /\ ~Resumable
  /\ marker' = <<>> /\ playing' = Junk
  /\ Shows
  /\ UNCHANGED <<card, coll, disk, rewrite, picker, touched, split>>

\* "NOTE: bypasses recents".  The marker's removal is synced.
autoResume ==
  /\ proc = "off" /\ Resumable
  /\ proc' = "game" /\ playing' = Head(marker)
  /\ marker' = <<>>
  /\ disk' = [recent |-> recent, coll |-> coll] /\ rewrite' = KeptAll
  /\ UNCHANGED <<card, recent, coll, recents, change, picker, past, acts>>

\* sd is the file the emulator is given: the path chosen, its m3u's first disc,
\* or the disc noted beside the state that is resumed.
Given(p) ==
  (IF hasM3u(p) THEN {<<p[1], n>> : n \in 1 .. DiscCount[p[1]]} \cap present ELSE {})
    \cup {IF hasM3u(p) /\ p[2] = 0 THEN getFirstDisc(p[1]) ELSE p}

openRom(p, sd) ==
  /\ proc = "minui" /\ p \in Listed /\ sd \in Given(p)
  /\ hasEmu(p[1])                        \* "emulator pak not installed, don't queue"
  /\ acts < MaxActs
  /\ LET rows == addRecent(IF hasM3u(p) THEN <<p[1], 0>> ELSE p) IN
     /\ recents' = rows
     /\ saveRecents(rows, 1)
  /\ proc' = "game" /\ playing' = sd
  /\ plays' = <<p[1]>> \o Filter(plays, Games \ {p[1]})
  /\ touched' = touched \ {p[1]}
  /\ UNCHANGED <<card, coll, disk, rewrite, change, marker, picker, split>>

\* The file is removed and the list built again; unlink may fail.
Menu_deleteSelectedCollection(c) ==
  /\ proc = "minui" /\ coll[c].on
  /\ Act
  /\ coll' = [coll EXCEPT ![c] = NoFile]
  /\ rewrite' = [rewrite EXCEPT ![c] = "kept"]
  /\ UNCHANGED <<card, recent, disk, proc, recents, playing, change, marker, picker, past>>

-----------------------------------------------------------------------------
(* minarch.                                                                *)

\* A core without replace_image_index gets no further than the new game.path.
Game_changeDisc(n) ==
  /\ proc = "game" /\ picker = Closed
  /\ hasM3u(playing) /\ n \in 1 .. DiscCount[playing[1]]
  /\ <<playing[1], n>> \in present /\ <<playing[1], n>> # playing
  /\ Act
  /\ playing' = <<playing[1], n>>
  /\ change' \in {change, <<playing'>>}
  /\ UNCHANGED <<card, files, proc, recents, marker, picker, past>>

\* minarch ends and launch.sh starts minui; there is no marker.
GameOver ==
  /\ proc = "game" /\ picker = Closed
  /\ playing' = Junk
  /\ Shows
  /\ UNCHANGED <<card, coll, disk, rewrite, marker, picker, touched, split>>

\* minui ends for a tool or a change of the HDMI cable and is started again.
Restart ==
  /\ proc = "minui"
  /\ Shows
  /\ UNCHANGED <<card, coll, disk, rewrite, playing, marker, picker, touched, split>>

Menu_inCollection(file) == file.on /\ playing \in Range(file.lines)

\* Menu_collections: "Favorites", then the collections there are.
Rows(all) == [c \in {"Favorites"} \cup {n \in Names : all[n].on} |-> Menu_inCollection(all[c])]

Menu_collections ==
  /\ proc = "game" /\ picker = Closed
  /\ picker' = Rows(coll)
  /\ UNCHANGED <<card, files, proc, recents, playing, change, marker, past, acts>>

ClosePicker ==
  /\ proc = "game" /\ picker # Closed
  /\ picker' = Closed
  /\ UNCHANGED <<card, files, proc, recents, playing, change, marker, past, acts>>

\* fopen(path, "a"), fprintf("%s\n"): the line goes on where the file ends.
Appended(file) ==
  IF file.ended THEN File(Append(file.lines, playing)) ELSE File(Append(Front(file.lines), Junk))

\* Of the line that is added, a part or nothing is written.
Unended(lines) == [on |-> TRUE, lines |-> lines, ended |-> FALSE]
AppendedPart(file) ==
  {[file EXCEPT !.on = TRUE], Unended(Append(IF file.ended THEN file.lines ELSE Front(file.lines), Junk))}

\* A whole append ends a rewriting that was cut short; what it leaves is as
\* little synced as the renaming.
AppendTo(c) ==
  /\ \/ Act /\ coll' = [coll EXCEPT ![c] = Appended(@)]
     \/ FailingAct /\ coll' \in {[coll EXCEPT ![c] = f] : f \in AppendedPart(coll[c])}
  /\ rewrite' = [rewrite EXCEPT ![c] = IF @ = "kept" THEN "kept" ELSE "renamed"]

\* Mutant: the lines up to the game are copied, and no more.
WithoutShort(file) ==
  File(SubSeq(file.lines, 1, (CHOOSE i \in DOMAIN file.lines : file.lines[i] = playing) - 1))

\* The other lines are copied to a temporary file, which replaces the file.
Without(file) == File(Filter(file.lines, Range(file.lines) \ {playing}))

\* A rewritten file of which not all is there.
WithoutPart(file) ==
  {[on |-> TRUE, lines |-> l, ended |-> l = <<>> \/ Last(l) # Junk] : l \in CutShort(file.lines)}

\* "remove entry (temp + rename = atomic)": the temporary file takes the place
\* of the file whatever came of writing it.
RemoveFrom(c) ==
  \/ /\ Act /\ coll' = [coll EXCEPT ![c] = Without(@)]
     /\ rewrite' = [rewrite EXCEPT ![c] = "renamed"]
  \/ /\ FailingAct /\ coll' \in {[coll EXCEPT ![c] = f] : f \in WithoutPart(Without(coll[c]))}
     /\ rewrite' = [rewrite EXCEPT ![c] = "cut"]

\* The file, or the temporary one, may fail to open.
Menu_toggleCollection(c) ==
  /\ proc = "game" /\ c \in DOMAIN picker
  /\ \/ Act /\ UNCHANGED <<coll, rewrite>>
     \/ Menu_inCollection(coll[c]) /\ RemoveFrom(c)
     \/ ~Menu_inCollection(coll[c]) /\ AppendTo(c)
  /\ picker' = [picker EXCEPT ![c] = Menu_inCollection(coll'[c])]
  /\ UNCHANGED <<card, recent, disk, proc, recents, playing, change, marker, past>>

\* What the player may type, without the spaces at its end; any spelling of
\* Favorites is Favorites.
Menu_keyboard == Names

\* The name may be one that is there; the picker is built again.
Menu_newCollection(c) ==
  /\ proc = "game" /\ picker # Closed /\ c \in Menu_keyboard
  /\ AppendTo(c)
  /\ picker' = Rows(coll')
  /\ UNCHANGED <<card, recent, disk, proc, recents, playing, change, marker, past>>

-----------------------------------------------------------------------------
(* The card and the power.                                                 *)

\* With the card elsewhere, or a game running and a host on the cable.
CardChange(p) ==
  /\ proc # "minui"
  /\ Act
  /\ present' = IF p \in present THEN present \ {p} ELSE present \cup {p}
  /\ touched' = touched \cup {p[1]}
  /\ split' = (split \/ (p[2] = 0 /\ DiscCount[p[1]] > 0))
  /\ UNCHANGED <<able, files, proc, recents, playing, change, marker, picker, plays, lost>>

PakChange(g) ==
  /\ proc = "off"
  /\ Act
  /\ able' = IF g \in able THEN able \ {g} ELSE able \cup {g}
  /\ UNCHANGED <<present, files, proc, recents, playing, change, marker, picker, past>>

\* Sleeping and powering off sync; in a game they leave a marker.
PowerOff ==
  /\ proc # "off" /\ acts < MaxActs
  /\ proc' = "off"
  /\ marker' = IF proc = "game" THEN <<playing>> ELSE <<>>
  /\ disk' = [recent |-> recent, coll |-> coll] /\ rewrite' = KeptAll
  /\ change' = <<>> /\ picker' = Closed /\ recents' = <<>>
  /\ UNCHANGED <<card, recent, coll, playing, past, acts>>

Writeback ==
  /\ \/ disk' = [disk EXCEPT !.recent = recent] /\ UNCHANGED rewrite
     \/ disk' = [disk EXCEPT !.coll = coll] /\ rewrite' = KeptAll
  /\ <<disk', rewrite'>> # <<disk, rewrite>>
  /\ UNCHANGED <<card, recent, coll, proc, recents, playing, change, marker, picker, past, acts>>

\* A file written in place may be cut short: recent.txt at any point, a
\* collection within the line that is added.  A renamed file whose data was
\* never synced may have any part of it.
Survives(old, new, how) ==
  {old, new}
    \cup (IF new.on /\ Len(new.lines) = Len(old.lines) + 1 /\ Front(new.lines) = old.lines
          THEN {Unended(Append(old.lines, Junk))} ELSE {})
    \cup (IF new.on /\ how # "kept" THEN WithoutPart(new) ELSE {})
SurvivesOf(c) == Survives(disk.coll[c], coll[c], rewrite[c])

PowerCut ==
  /\ proc # "off"
  /\ Act
  /\ recent' \in {disk.recent, recent} \cup (IF recent = disk.recent THEN {} ELSE CutShort(recent))
  /\ coll' \in {f \in [Names -> UNION {SurvivesOf(c) : c \in Names}] : \A c \in Names : f[c] \in SurvivesOf(c)}
  /\ disk' = [recent |-> recent', coll |-> coll'] /\ rewrite' = KeptAll
  /\ proc' = "off" /\ marker' = <<>>
  /\ change' = <<>> /\ picker' = Closed /\ recents' = <<>>
  /\ plays' = IF recent' = recent /\ ~lost THEN plays ELSE <<>>
  /\ lost' = FALSE
  /\ UNCHANGED <<card, playing, touched, split>>

ListsNext ==
  \/ Boot \/ autoResume \/ GameOver \/ Restart
  \/ \E p, sd \in Paths : openRom(p, sd)
  \/ \E c \in Names : Menu_deleteSelectedCollection(c) \/ Menu_toggleCollection(c) \/ Menu_newCollection(c)
  \/ \E n \in 1 .. 9 : Game_changeDisc(n)
  \/ Menu_collections \/ ClosePicker
  \/ \E p \in Paths : CardChange(p)
  \/ \E g \in Games : PakChange(g)
  \/ PowerOff \/ Writeback \/ PowerCut

ListsSpec == ListsInit /\ [][ListsNext]_listVars

-----------------------------------------------------------------------------
(* Properties.                                                             *)

Lined == Seq(Paths \cup {Junk})
Collections == [Names -> [on : BOOLEAN, lines : Lined, ended : BOOLEAN]]
GamesOf(rows) == [i \in DOMAIN rows |-> rows[i].path[1]]

ListsTypeOK ==
  /\ present \subseteq Paths /\ able \subseteq Games
  /\ recent \in Lined /\ coll \in Collections
  /\ disk \in [recent : Lined, coll : Collections]
  /\ rewrite \in [Names -> {"kept", "renamed", "cut"}]
  /\ proc \in {"off", "minui", "game"}
  /\ recents \in Seq([path : Paths, available : BOOLEAN]) /\ Len(recents) <= MAX_RECENTS
  /\ playing \in Paths \cup {Junk}
  /\ change \in Seq(Paths) /\ marker \in Seq(Paths)
  /\ DOMAIN picker \subseteq Names
  /\ plays \in Seq(Games) /\ touched \subseteq Games /\ split \in BOOLEAN /\ lost \in BOOLEAN /\ acts \in 0 .. MaxActs

\* "this logic replaces an existing disc from a multi-disc game with the last
\* used" (minui.c:446): while minui shows them, no two rows are one game, though
\* a game is noted as its m3u when it is launched and as its disc when a disc
\* is changed.
OneRowPerGame ==
  proc = "minui" =>
    \A i, j \in DOMAIN recents :
      GamesOf(recents)[i] = GamesOf(recents)[j] /\ hasM3u(recents[i].path) => i = j

FirstOf(j) == \A k \in DOMAIN recents : k < j => GamesOf(recents)[k] # GamesOf(recents)[j]

\* "newest at top" (minui.c:426), across both programs and any number of
\* restarts: of two games the one launched last is above, as long as its files
\* are there.
NewestFirst ==
  proc = "minui" =>
    \A i, j \in DOMAIN recents : \A a, b \in DOMAIN plays :
      (i < j /\ plays[a] = GamesOf(recents)[i] /\ plays[b] = GamesOf(recents)[j] /\ FirstOf(j)
         /\ plays[b] \notin touched) => a <= b

\* The games launched last are there as long as their files are: all but one
\* of MAX_RECENTS, because a changed disc takes a row of its own until minui
\* starts again.
Remembered ==
  (proc = "minui" /\ ~split) =>
    \A k \in DOMAIN plays :
      (k < MAX_RECENTS /\ plays[k] \notin touched) => plays[k] \in Range(GamesOf(recents))

\* The picker's ticks say what the files hold, whatever failed on the way.
PickerTells == \A c \in DOMAIN picker : picker[c] = Menu_inCollection(coll[c])

\* What the lists show is right at every moment (hasRecents, addRecent,
\* Menu_collections).
ListsAreRight == ListsTypeOK /\ OneRowPerGame /\ NewestFirst /\ Remembered /\ PickerTells

\* "your most recently played game will always be at the top which is also the
\* default selection" (minui.c:1103): saveLast relies on it.
LastPlayedFirst ==
  (proc = "game" /\ proc' = "minui" /\ ~lost /\ playing[1] \in able \ touched) =>
    getRecents' # <<>> /\ getRecents'[1].path[1] = playing[1]

\* Editing a collection, and a power cut, leave every other game in it: what
\* both the card and the programs had is there afterwards.  A game may go in
\* three ways (README, known deviations): it is the last line of a file that does
\* not end in a newline; a removal could not write all the others; or the power
\* is cut before the file a removal renamed is synced.
Spared(c) == IF proc' = "off" THEN rewrite[c] = "kept" ELSE rewrite'[c] # "cut"
OthersKept ==
  \A c \in Names : \A p \in (Range(coll[c].lines) \cap Range(disk.coll[c].lines)) \ {playing, Junk} :
    (coll'[c].on /\ Spared(c) /\ (coll[c].ended \/ p # Last(coll[c].lines))) => p \in Range(coll'[c].lines)

\* Refuted (README, known deviations): "remove entry (temp + rename = atomic)"
\* (menu.c:1185): whatever fails, the file is the old one or the whole new one.
RemovalIsAtomic ==
  [][proc' = "game" => \A c \in DOMAIN picker :
       Menu_inCollection(coll[c]) => coll'[c] \in {coll[c], Without(coll[c]), Appended(coll[c])}]_listVars

\* What a step never does to the lists.
ListsAreKept == [][LastPlayedFirst /\ OthersKept]_listVars

=============================================================================
