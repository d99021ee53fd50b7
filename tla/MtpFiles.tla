------------------------------ MODULE MtpFiles ------------------------------
(***************************************************************************)
(* The object database of the MTP responder (fs_handles_db.c, hash_utils.c)*)
(* and the three parties that change what it describes: the io thread,     *)
(* which runs one host operation at a time; the inotify thread, which      *)
(* reports what happens in the folders the host has listed; and the        *)
(* programs of the console, which write the same card.                     *)
(*                                                                         *)
(* inotify_mutex makes a host operation atomic against the inotify thread, *)
(* not against the card: a listing reads the folder, discards, and only    *)
(* then asks for a watch.  SetObjectPropValue takes no lock at all, and the*)
(* inotify thread lets go of it before it tells the host what it found.    *)
(*                                                                         *)
(* A path is a sequence of names, <<>> the root of the storage.  Contents  *)
(* and sizes of files are the subject of MtpUsb.                           *)
(***************************************************************************)
EXTENDS Integers, Sequences, FiniteSets, FiniteSetsExt, SequencesExt, Functions

CONSTANTS
  Names,      \* the names a file can have
  NoName,     \* the empty name
  Bucket,     \* hash_function_name: [Names \cup {NoName} -> bucket]
  MaxActs,    \* bound: changes to the card and session ends
  MaxHandles  \* bound: a host with this many handles lists no further folder

ASSUME MtpFilesAssumption ==
  /\ Names # {} /\ NoName \notin Names
  /\ DOMAIN Bucket = Names \cup {NoName}
  /\ MaxActs \in Nat /\ MaxHandles \in Nat

VARIABLES
  fs,       \* the kernel: disk, queue of events, watches, last inode, last wd
  fs_db,    \* ctx->fs_db: handle -> entry; the empty function when there is none
  told,     \* the handles the host has been told of and not been told are gone
  target,   \* ctx->SendObjInfoHandle, <<>> or <<handle>>
  dataset,  \* rdbuffer2: the last dataset received, <<>> when it is something else
  op,       \* the operation the io thread is in
  adding,   \* inotify_thread's ObjectAdded that is not pushed yet: {} or {handle} ...
  removing, \* ... and its ObjectRemoved
  cursor,   \* inotify_thread's entry between two rounds: <<>> or <<handle>>
  wild,     \* the thread holds a pointer into a database that was freed
  blind,    \* history: folders that changed under a listing, before its watch,
            \* those that moved or went, and those the host could not delete
  missed,   \* history: handles whose event was dropped, or reached the host when the
            \* object, or the session it was about, was gone
  renamed,  \* history: handles the host has asked to rename
  acts      \* bound: changes so far

fileVars == <<fs, fs_db, told, target, dataset, op, adding, removing, cursor, wild, blind, missed, renamed, acts>>
push == <<adding, removing>>

NoWd == 0
Idle == [pc |-> "idle", h |-> 0, ok |-> FALSE, old |-> NoName, from |-> <<>>, to |-> <<>>]
MaxDepth == 2
Paths == UNION {[1 .. n -> Names] : n \in 1 .. MaxDepth}

With(m, x, v) == [y \in DOMAIN m \cup {x} |-> IF y = x THEN v ELSE m[y]]

-----------------------------------------------------------------------------
(* The card: nodes, events and watches.                                    *)

\* f.watch is the watch descriptor of each watched folder, by its inode.
Exists(f, p) == p = <<>> \/ p \in DOMAIN f.disk
IsDir(f, p) == p = <<>> \/ (p \in DOMAIN f.disk /\ f.disk[p].dir)
Ino(f, p) == IF p = <<>> THEN 0 ELSE f.disk[p].ino
Passes(q, p) == Len(q) >= Len(p) /\ SubSeq(q, 1, Len(p)) = p   \* q is p, or below it
Below(f, p) == {q \in DOMAIN f.disk \ {p} : Passes(q, p)}
Kids(f, p) == {n \in Names : Append(p, n) \in DOMAIN f.disk}

Watching(f, p) == IsDir(f, p) /\ Ino(f, p) \in DOMAIN f.watch

\* An event for the folder of p, when the folder is watched.  The kernel
\* merges an event that repeats the last one.
Notice(f, p, kind) == [wd |-> f.watch[Ino(f, Front(p))], kind |-> kind, name |-> Last(p)]
Told(f, p, kind) ==
  IF ~ Watching(f, Front(p)) \/ (f.queue # <<>> /\ Last(f.queue) = Notice(f, p, kind)) THEN f
  ELSE [f EXCEPT !.queue = Append(@, Notice(f, p, kind))]

\* open(O_CREAT) or mkdir of a name that is free.
Create(f, p, dir) ==
  Told([f EXCEPT !.disk = With(@, p, [dir |-> dir, ino |-> f.inos + 1]), !.inos = @ + 1], p, "create")

\* remove() of a file or of an empty folder; a watch goes with its folder.
Unlink(f, p) ==
  Told([f EXCEPT !.disk = Restrict(@, DOMAIN @ \ {p}),
                 !.watch = Restrict(@, DOMAIN @ \ {f.disk[p].ino})], p, "delete")

\* rename(p, q): what is below p moves along.
Moved(r, p, q) == q \o SubSeq(r, Len(p) + 1, Len(r))
Rename(f, p, q) ==
  LET tree == {p} \cup Below(f, p)
      stay == DOMAIN f.disk \ (tree \cup {q})
      back == [r \in stay \cup {Moved(s, p, q) : s \in tree} |-> f.disk[IF r \in stay THEN r ELSE Moved(r, q, p)]]
      over == IF q \in DOMAIN f.disk THEN {f.disk[q].ino} ELSE {}
  IN Told(Told([f EXCEPT !.disk = back, !.watch = Restrict(@, DOMAIN @ \ over)], p, "delete"), q, "create")

\* Whether rename(p, q) succeeds.
CanRename(f, p, q) ==
  /\ p \in DOMAIN f.disk /\ IsDir(f, Front(q)) /\ q \notin Below(f, p)
  /\ Len(q) + (IF f.disk[p].dir THEN 1 ELSE 0) <= MaxDepth
  /\ q \in DOMAIN f.disk => f.disk[q].dir = f.disk[p].dir /\ Below(f, q) = {}

\* fs_remove_tree's walk: everything below p goes, a folder after what is in
\* it.  Nothing there has a last event that says it is gone already, so that
\* no two are merged; a watch goes with its folder, after the events in it.
Walks(f, p) ==
  {o \in SetToSeqs({q \in Below(f, p) : Watching(f, Front(q))}) :
     \A i, j \in DOMAIN o : o[j] \in Below(f, o[i]) => j < i}
Empty(f, p, order) ==
  [f EXCEPT !.disk = Restrict(@, DOMAIN @ \ Below(f, p)),
            !.watch = Restrict(@, DOMAIN @ \ {f.disk[q].ino : q \in Below(f, p)}),
            !.queue = @ \o [i \in DOMAIN order |-> Notice(f, order[i], "delete")]]

\* inotify_add_watch and inotify_rm_watch.
AddWatch(f, p) ==
  IF ~ IsDir(f, p) \/ Watching(f, p) THEN f
  ELSE [f EXCEPT !.watch = With(@, Ino(f, p), f.wds + 1), !.wds = @ + 1]
RmWatch(f, ws) == [f EXCEPT !.watch = Restrict(@, {i \in DOMAIN @ : @[i] \notin ws})]

-----------------------------------------------------------------------------
(* The database.                                                           *)

Live(d, h) == h \in DOMAIN d /\ d[h].live

\* find_entry: the bucket of the name, then name, parent and not deleted.
find_entry(d, name, parent) ==
  {h \in DOMAIN d : d[h].filed = Bucket[name] /\ d[h].name = name /\ d[h].parent = parent
                    /\ d[h].live /\ h # 0}

\* alloc_entry: the next handle, filed under the hash of its name.
alloc_entry(d, name, parent, dir) ==
  With(d, Cardinality(DOMAIN d), [parent |-> parent, name |-> name, filed |-> Bucket[name],
                                  dir |-> dir, live |-> TRUE, wd |-> NoWd])

add_entry(d, name, parent, dir) ==
  IF find_entry(d, name, parent) = {} THEN alloc_entry(d, name, parent, dir) ELSE d

\* init_fs_db and alloc_root_entry.
RootOnly == [h \in {0} |-> [parent |-> 0, name |-> NoName, filed |-> Bucket[NoName],
                            dir |-> TRUE, live |-> TRUE, wd |-> NoWd]]

\* build_full_path: up to a parent that is the root, or is deleted.
build_full_path(d, h) ==
  LET path[i \in DOMAIN d] ==
        LET up == IF d[i].parent # 0 /\ d[d[i].parent].live THEN path[d[i].parent] ELSE <<>>
        IN IF i = 0 \/ d[i].name = NoName THEN up ELSE Append(up, d[i].name)
  IN path[h]

\* get_next_child_handle, all of them.
Children(d, h) == {c \in DOMAIN d \ {0} : d[c].live /\ d[c].parent = h}

\* Flag entries deleted and drop their watches.
Flag(d, hs) == [h \in DOMAIN d |-> IF h \in hs THEN [d[h] EXCEPT !.live = FALSE, !.wd = NoWd] ELSE d[h]]
WatchesOf(d, hs) == {d[h].wd : h \in hs} \ {NoWd}

\* scan_and_add_folder, first pass: an entry for every name in the folder that
\* has none, in the order the folder is read in.  A name is read once, so that
\* the search for it is the same before the pass as when it is its turn.
Missing(d, f, p, h) == {n \in IF IsDir(f, p) THEN Kids(f, p) ELSE {} : find_entry(d, n, h) = {}}
ScanAdd(d, f, p, h, order) ==
  LET next == Cardinality(DOMAIN d) IN
  [c \in DOMAIN d \cup (next .. next + Len(order) - 1) |->
     IF c \in DOMAIN d THEN d[c]
     ELSE LET n == order[c - next + 1] IN
          [parent |-> h, name |-> n, filed |-> Bucket[n], dir |-> IsDir(f, Append(p, n)), live |-> TRUE, wd |-> NoWd]]

\* Second pass: the entries whose path is gone.
Gone(d, f, h) == {c \in Children(d, h) : ~ Exists(f, build_full_path(d, c))}

\* The entries whose path is p or passes through it.
EntriesAt(p) == {h \in DOMAIN fs_db : Passes(build_full_path(fs_db, h), p)}

-----------------------------------------------------------------------------
FilesInit ==
  /\ \E d, n \in Names :
        fs = [disk |-> [p \in {<<d>>, <<d, n>>} |-> [dir |-> Len(p) = 1, ino |-> Len(p)]],
              queue |-> <<>>, watch |-> <<>>, inos |-> 2, wds |-> 0]
  /\ fs_db = <<>> /\ told = {} /\ target = <<>> /\ dataset = <<>>
  /\ op = Idle /\ adding = {} /\ removing = {} /\ cursor = <<>> /\ wild = FALSE
  /\ blind = {} /\ missed = {} /\ renamed = {} /\ acts = 0

Act == acts < MaxActs /\ acts' = acts + 1
Session == fs_db # <<>>
Free == op.pc = "idle"                    \* the io thread is in read_usb
Unlocked == op.pc \in {"idle", "rename"}  \* inotify_mutex is free

\* Entries go while the host is yet to hear that they have come.
Late(hs) == missed' = missed \cup (hs \cap adding)

-----------------------------------------------------------------------------
(* Host operations, on the io thread.                                      *)

OpenSession ==
  /\ Free /\ ~ Session
  /\ fs_db' = RootOnly
  /\ UNCHANGED <<fs, told, target, dataset, op, push, cursor, wild, blind, missed, renamed, acts>>

\* deinit_fs_db: every watch of every entry, then the memory.  CloseSession
\* does so without inotify_mutex; a FunctionFS DISABLE joins the io thread
\* and takes the lock, which the inotify thread has let go between rounds.
Drop ==
  /\ Free /\ Session /\ Act
  /\ fs' = RmWatch(fs, WatchesOf(fs_db, DOMAIN fs_db))
  /\ fs_db' = <<>> /\ told' = {} /\ blind' = {} /\ renamed' = {} /\ missed' = adding \cup removing
  /\ wild' = (wild \/ cursor # <<>>)
  /\ UNCHANGED <<target, dataset, op, push, cursor>>

\* GetObjectHandles: scan_and_add_folder's first pass.
ListFolder(h) ==
  LET p == build_full_path(fs_db, h) IN
  /\ Free /\ Live(fs_db, h) /\ Cardinality(DOMAIN fs_db) < MaxHandles
  /\ \E order \in SetToSeqs(Missing(fs_db, fs, p, h)) :
       fs_db' = ScanAdd(fs_db, fs, p, h, order)
  /\ op' = [Idle EXCEPT !.pc = "drop", !.h = h, !.ok = IsDir(fs, p), !.from = p]
  /\ blind' = IF IsDir(fs, p) THEN blind \ {h} ELSE blind
  /\ UNCHANGED <<fs, told, target, dataset, push, cursor, wild, missed, renamed, acts>>

\* Its second pass; a folder that could not be opened is ACCESS_DENIED.  An
\* entry that goes takes its watch along, were it the one of the folder.
ListDrop ==
  LET gone == Gone(fs_db, fs, op.h)
      lost == WatchesOf(fs_db, gone) IN
  /\ op.pc = "drop"
  /\ fs_db' = Flag(fs_db, gone) /\ Late(gone)
  /\ fs' = RmWatch(fs, lost)
  /\ op' = IF op.ok THEN [op EXCEPT !.pc = "watch"] ELSE Idle
  /\ blind' = IF op.ok /\ Watching(fs, op.from) /\ fs.watch[Ino(fs, op.from)] \in lost THEN blind \cup {op.h} ELSE blind
  /\ UNCHANGED <<told, target, dataset, push, cursor, wild, renamed, acts>>

\* Then the watch, and the answer: the live children of the handle.
ListReply ==
  /\ op.pc = "watch"
  /\ fs' = IF fs_db[op.h].dir THEN AddWatch(fs, op.from) ELSE fs
  /\ fs_db' = IF fs_db[op.h].dir
           THEN [fs_db EXCEPT ![op.h].wd = IF IsDir(fs, op.from) THEN fs'.watch[Ino(fs, op.from)] ELSE NoWd]
           ELSE fs_db
  /\ told' = {h \in told : fs_db[h].parent # op.h} \cup Children(fs_db, op.h)
  /\ missed' = missed \ ({h \in DOMAIN fs_db : fs_db[h].parent = op.h} \ (adding \cup removing))
  /\ op' = Idle
  /\ UNCHANGED <<target, dataset, push, cursor, wild, blind, renamed, acts>>

\* parse_incoming_dataset: mkdir, then the entry.
NewFolder(h, n) ==
  LET p == Append(build_full_path(fs_db, h), n) IN
  IF IsDir(fs, Front(p)) /\ ~ Exists(fs, p) /\ Len(p) < MaxDepth
  THEN /\ fs' = Create(fs, p, TRUE)
       /\ fs_db' = add_entry(fs_db, n, h, TRUE)
       /\ told' = told \cup {Min(find_entry(fs_db', n, h))}
       /\ UNCHANGED target
  ELSE UNCHANGED <<fs, fs_db, told, target>>     \* ACCESS_DENIED

\* open(O_CREAT | O_TRUNC), then the entry, which SendObject will write to.
NewFile(h, n) ==
  LET p == Append(build_full_path(fs_db, h), n) IN
  IF IsDir(fs, Front(p)) /\ ~ IsDir(fs, p)
  THEN /\ fs' = IF Exists(fs, p) THEN fs ELSE Create(fs, p, FALSE)
       /\ fs_db' = add_entry(fs_db, n, h, FALSE)
       /\ told' = told \cup {Min(find_entry(fs_db', n, h))}
       /\ target' = <<Min(find_entry(fs_db', n, h))>>
  ELSE UNCHANGED <<fs, fs_db, told, target>>     \* ACCESS_DENIED

\* A parent that is unknown or no folder answers OK and does nothing.
NewObject(h, ds) ==
  IF Live(fs_db, h) /\ fs_db[h].dir
  THEN IF ds.dir THEN NewFolder(h, ds.name) ELSE NewFile(h, ds.name)
  ELSE UNCHANGED <<fs, fs_db, told, target>>

SendObjectInfo(h, ds) ==
  /\ Free /\ Session /\ Act
  /\ NewObject(h, ds)
  /\ dataset' = <<ds>>
  /\ UNCHANGED <<op, push, cursor, wild, blind, missed, renamed>>

\* The cable goes after the command: read_usb's error is not looked at, and
\* the dataset that is still in rdbuffer2 is acted on.
SendObjectInfoCut(h) ==
  /\ Free /\ Session /\ Act /\ dataset # <<>>
  /\ NewObject(h, dataset[1])
  /\ UNCHANGED <<dataset, op, push, cursor, wild, blind, missed, renamed>>

\* SendObject's data phase opens the object by its path, O_CREAT; data of
\* more than one packet goes through rdbuffer2.
SendObject ==
  /\ Free /\ Session /\ Act /\ target # <<>>
  /\ LET p == build_full_path(fs_db, target[1]) IN
     fs' = IF Live(fs_db, target[1]) /\ ~ Exists(fs, p) /\ IsDir(fs, Front(p)) THEN Create(fs, p, FALSE) ELSE fs
  /\ dataset' \in {dataset, <<>>}
  /\ UNCHANGED <<fs_db, told, target, op, push, cursor, wild, blind, missed, renamed>>

\* DeleteObject on a file, or the walk of fs_remove_tree on a folder.
DeleteObject(h) ==
  LET p == build_full_path(fs_db, h)
      can == p # <<>> /\ Exists(fs, p) /\ Below(fs, p) = {}
  IN
  /\ Free /\ Live(fs_db, h) /\ h # 0 /\ Act
  /\ IF fs_db[h].dir
     THEN /\ IF IsDir(fs, p) THEN \E order \in Walks(fs, p) : fs' = Empty(fs, p, order) ELSE UNCHANGED fs
          /\ op' = [Idle EXCEPT !.pc = "rmdir", !.h = h, !.ok = IsDir(fs, p), !.from = p]
          /\ UNCHANGED <<fs_db, told, missed>>
     ELSE /\ fs' = IF can THEN RmWatch(Unlink(fs, p), WatchesOf(fs_db, {h})) ELSE fs
          /\ fs_db' = IF can THEN Flag(fs_db, {h}) ELSE fs_db
          /\ told' = IF can THEN told \ {h} ELSE told
          /\ Late(IF can THEN {h} ELSE {})
          /\ UNCHANGED op
  /\ UNCHANGED <<target, dataset, push, cursor, wild, blind, renamed>>

\* The folder itself; when it is not empty after all, the database is synced.
DeleteFolder ==
  LET can == op.ok /\ op.from \in DOMAIN fs.disk /\ Below(fs, op.from) = {} IN
  /\ op.pc = "rmdir"
  /\ IF can
     THEN /\ fs' = RmWatch(Unlink(fs, op.from), WatchesOf(fs_db, {op.h}))
          /\ fs_db' = Flag(fs_db, {op.h})
          /\ told' = told \ {op.h} /\ Late({op.h})
          /\ UNCHANGED blind
     ELSE \E order \in SetToSeqs(Missing(fs_db, fs, op.from, op.h)) :
          LET seen == ScanAdd(fs_db, fs, op.from, op.h, order) IN
          /\ fs_db' = Flag(seen, Gone(seen, fs, op.h)) /\ Late(Gone(seen, fs, op.h))
          /\ fs' = RmWatch(fs, WatchesOf(seen, Gone(seen, fs, op.h)))
          /\ blind' = blind \cup {op.h}
          /\ UNCHANGED told
  /\ op' = Idle
  /\ UNCHANGED <<target, dataset, push, cursor, wild, renamed, acts>>

\* setObjectPropValue: the entry takes the new name at once, in the bucket of
\* the old one.
SetName(h, n) ==
  LET new == [fs_db EXCEPT ![h].name = n] IN
  /\ Free /\ Live(fs_db, h) /\ h # 0 /\ Act
  /\ fs_db' = new
  /\ op' = [Idle EXCEPT !.pc = "rename", !.h = h, !.old = fs_db[h].name,
                        !.from = build_full_path(fs_db, h), !.to = build_full_path(new, h)]
  /\ renamed' = renamed \cup {h}
  /\ blind' = blind \cup EntriesAt(build_full_path(fs_db, h))
  /\ UNCHANGED <<fs, told, target, dataset, push, cursor, wild, missed>>

\* Then the card; the entry gets its old name back when that fails.
RenameObject ==
  /\ op.pc = "rename"
  /\ IF op.from = op.to THEN UNCHANGED <<fs, fs_db>>
     ELSE IF op.from # <<>> /\ CanRename(fs, op.from, op.to)
     THEN fs' = Rename(fs, op.from, op.to) /\ UNCHANGED fs_db
     ELSE fs_db' = [fs_db EXCEPT ![op.h].name = op.old] /\ UNCHANGED fs
  /\ op' = Idle
  /\ UNCHANGED <<told, target, dataset, push, cursor, wild, blind, missed, renamed, acts>>

-----------------------------------------------------------------------------
(* The inotify thread: one round of one event.                             *)

\* The entries from the thread's position on that hold the event's watch;
\* entry_list is newest first.
Matches(wd) == {h \in DOMAIN fs_db : fs_db[h].live /\ fs_db[h].wd = wd /\ (cursor = <<>> \/ h < cursor[1])}

\* Mutant: alloc_entry without the search for an entry that is there already.
EntryAddedTwice(h, name) ==
  /\ fs_db' = alloc_entry(fs_db, name, h, IsDir(fs, Append(build_full_path(fs_db, h), name)))
  /\ adding' = DOMAIN fs_db' \ DOMAIN fs_db /\ UNCHANGED removing

\* IN_CREATE, IN_MOVED_TO.  fs_entry_stat's failure is not looked at: it leaves
\* an empty name and whatever isdirectory was.
EntryAdded(h, name) ==
  LET p == Append(build_full_path(fs_db, h), name) IN
  \E n \in {IF Exists(fs, p) THEN name ELSE NoName}, dir \in IF Exists(fs, p) THEN {IsDir(fs, p)} ELSE BOOLEAN :
    /\ fs_db' = add_entry(fs_db, n, h, dir)
    /\ adding' = DOMAIN fs_db' \ DOMAIN fs_db /\ UNCHANGED removing

\* Mutant: ObjectRemoved is not sent.
EntryRemovedSilently(h, name) ==
  /\ fs_db' = Flag(fs_db, find_entry(fs_db, name, h))
  /\ UNCHANGED push

\* IN_DELETE, IN_MOVED_FROM: the first of the bucket.
EntryRemoved(h, name) ==
  LET found == find_entry(fs_db, name, h)
      gone == IF found = {} THEN {} ELSE {Min(found)} IN
  /\ fs_db' = Flag(fs_db, gone)
  /\ removing' = gone /\ UNCHANGED adding

\* The rest of the list is looked at in another round, after the lock was let
\* go and the event was pushed; the root entry ends the list.
Round ==
  LET ev == Head(fs.queue)
      last == ~ Session \/ Matches(ev.wd) \subseteq {0} IN
  /\ fs.queue # <<>> /\ Unlocked /\ ~ wild /\ adding \cup removing = {}
  /\ IF ~ Session \/ Matches(ev.wd) = {} THEN UNCHANGED <<fs_db, push>>
     ELSE IF ev.kind = "create" THEN EntryAdded(Max(Matches(ev.wd)), ev.name)
     ELSE EntryRemoved(Max(Matches(ev.wd)), ev.name)
  /\ cursor' = IF last THEN <<>> ELSE <<Max(Matches(ev.wd))>>
  /\ LET dropped == {fs_db[h].wd : h \in {g \in DOMAIN fs_db : fs_db'[g].wd = NoWd}} IN
     fs' = RmWatch([fs EXCEPT !.queue = IF last THEN Tail(@) ELSE @], dropped)
  /\ UNCHANGED <<told, target, dataset, op, wild, blind, missed, renamed, acts>>

\* mtp_push_event, with no lock held: by now the host may have listed or deleted the
\* object, or closed its session.
Push ==
  /\ adding \cup removing # {}
  /\ told' = (told \cup (adding \cap DOMAIN fs_db)) \ removing
  /\ adding' = {} /\ removing' = {}
  /\ UNCHANGED <<fs, fs_db, target, dataset, op, cursor, wild, blind, missed, renamed, acts>>

\* write_usb drops the event while a cancel is pending, and nobody looks at its result.
PushDropped ==
  /\ adding \cup removing # {} /\ Act
  /\ missed' = missed \cup adding \cup removing
  /\ adding' = {} /\ removing' = {}
  /\ UNCHANGED <<fs, fs_db, told, target, dataset, op, cursor, wild, blind, renamed>>

-----------------------------------------------------------------------------
(* The console's own programs.  A change in a folder that is being listed  *)
(* and is not watched yet is noticed by nobody.                            *)

Blinded(folders) ==
  IF op.pc \in {"drop", "watch"} /\ op.from \in folders /\ ~ Watching(fs, op.from)
  THEN blind \cup {op.h} ELSE blind

DevCreate(p, dir) ==
  /\ Act /\ ~ Exists(fs, p) /\ IsDir(fs, Front(p)) /\ (dir => Len(p) < MaxDepth)
  /\ fs' = Create(fs, p, dir) /\ blind' = Blinded({Front(p)})
  /\ UNCHANGED <<fs_db, told, target, dataset, op, push, cursor, wild, missed, renamed>>

DevRemove(p) ==
  /\ Act /\ p \in DOMAIN fs.disk /\ Below(fs, p) = {}
  /\ fs' = Unlink(fs, p) /\ blind' = Blinded({Front(p)}) \cup EntriesAt(p)
  /\ UNCHANGED <<fs_db, told, target, dataset, op, push, cursor, wild, missed, renamed>>

DevRename(p, q) ==
  /\ Act /\ p # q /\ CanRename(fs, p, q)
  /\ fs' = Rename(fs, p, q) /\ blind' = Blinded({Front(p), Front(q)}) \cup EntriesAt(p) \cup EntriesAt(q)
  /\ UNCHANGED <<fs_db, told, target, dataset, op, push, cursor, wild, missed, renamed>>

Device ==
  \/ \E p \in Paths, dir \in BOOLEAN : DevCreate(p, dir)
  \/ \E p \in DOMAIN fs.disk : DevRemove(p)
  \/ \E p \in DOMAIN fs.disk, q \in Paths : DevRename(p, q)

Host ==
  \/ OpenSession
  \/ Drop
  \/ \E h \in told \cup {0} : ListFolder(h)
  \/ ListDrop
  \/ ListReply
  \/ \E h \in told \cup {0}, ds \in [name : Names, dir : BOOLEAN] : SendObjectInfo(h, ds)
  \/ \E h \in told \cup {0} : SendObjectInfoCut(h)
  \/ SendObject
  \/ \E h \in told : DeleteObject(h)
  \/ DeleteFolder
  \/ \E h \in told, n \in Names : SetName(h, n)
  \/ RenameObject

FilesNext == Host \/ Round \/ Push \/ PushDropped \/ Device
FilesSpec == FilesInit /\ [][FilesNext]_fileVars

-----------------------------------------------------------------------------
Entry == [parent : Nat, name : Names \cup {NoName}, filed : Range(Bucket),
          dir : BOOLEAN, live : BOOLEAN, wd : Nat]

\* Types: handles are dense from the root's 0 up, a parent is older than its
\* children, and an entry's watch is one the kernel gave out.
FilesTypeOK ==
  /\ DOMAIN fs.disk \subseteq Paths
  /\ \A p \in DOMAIN fs.disk : IsDir(fs, Front(p))
  /\ DOMAIN fs_db = 0 .. (Cardinality(DOMAIN fs_db) - 1)
  /\ \A h \in DOMAIN fs_db : fs_db[h] \in Entry /\ fs_db[h].wd <= fs.wds /\ (h # 0 => fs_db[h].parent < h)
  /\ told \subseteq DOMAIN fs_db \ {0}

Settled == fs.queue = <<>> /\ adding \cup removing = {} /\ Free /\ Session /\ ~ wild

\* The folder is watched, its path still leads to what is watched, and none of
\* the three things that defeat the watch has happened to it: a change between
\* a listing and its watch, its move or removal, a rename by the host in it.
Watched(h) ==
  /\ Live(fs_db, h) /\ h \notin blind
  /\ LET p == build_full_path(fs_db, h) IN
     Watching(fs, p) /\ fs.watch[Ino(fs, p)] = fs_db[h].wd
  /\ \A r \in renamed : fs_db[r].parent # h

\* However listings, uploads and the inotify thread interleave, a file has one
\* handle: two live entries with one name in one folder take a rename by the
\* host.
NoTwins ==
  \A g, h \in DOMAIN fs_db \ {0} :
    (/\ g # h /\ fs_db[g].live /\ fs_db[h].live
     /\ fs_db[g].parent = fs_db[h].parent /\ fs_db[g].name = fs_db[h].name) => g \in renamed \/ h \in renamed

\* Once the events are handled, the entries of a watched folder are what is in
\* it: nothing is missed and, but for a name that was gone before it could be
\* looked at, nothing stays behind.
Synced ==
  Settled => \A h \in DOMAIN fs_db : Watched(h) =>
    Kids(fs, build_full_path(fs_db, h)) = {fs_db[c].name : c \in Children(fs_db, h)} \ {NoName}

\* Once the events are handled, the children the host knows of a watched folder
\* are those of the database: what was added or removed behind its back has been
\* announced, whichever of a listing and an event came first.  What defeats this,
\* until the folder is listed again, is an announcement that is dropped, and one that
\* comes late: of an object that went, or for a session that was closed, after the
\* thread had let go of the lock.
HostView ==
  Settled => \A h \in DOMAIN fs_db : Watched(h) =>
    Children(fs_db, h) \ missed = {c \in told : fs_db[c].parent = h} \ missed

\* The database of handles (alloc_entry, search_entry, add_entry).
DbIsSound == FilesTypeOK /\ NoTwins

\* Card, database and host agree once the inotify thread has caught up.
InStep == Synced /\ HostView
=============================================================================
