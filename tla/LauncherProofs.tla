--------------------------- MODULE LauncherProofs ---------------------------
(***************************************************************************)
(* Proofs about the launcher's windows, for every number of rows, every    *)
(* card and every sequence of presses.                                     *)
(*                                                                         *)
(* A window that is restored was saved for the entry that is now opened    *)
(* again (RestoreOK), and it still fits because until minui quits a        *)
(* directory lists what it listed before (Current).  While loadLast walks  *)
(* down a path every directory it comes to is at its first row, so that    *)
(* selecting a row cannot leave the cursor above the window (LoadingOK).   *)
(***************************************************************************)
EXTENDS Launcher, SequenceTheorems, TLAPS

USE DEF Entries, Root

Live == {"loading", "browse", "version"}

FitsAll(st) == \A i \in 1 .. Len(st) : Fits(st[i])
ShownAll(st) == \A i \in 1 .. Len(st) : Shown(st[i].win, Entries(st[i]))

(* Each directory was opened from the entry under its parent's cursor. *)
Chained(st) ==
    \A i \in 1 .. Len(st) - 1 :
        /\ st[i].win.selected \in 0 .. Entries(st[i]) - 1
        /\ Under(st[i]) = st[i + 1].dir

(* Only the root lists the Collections folder; the root lists folders and  *)
(* Collections lists collections.                                          *)
Bare(l) == \A k \in 1 .. Len(l) : l[k] # Collections
Folders(l) == \A k \in 1 .. Len(l) : Info[l[k]].type = "dir"
CollsOK(l) == /\ l \in Seq(Entry) /\ Bare(l) /\ Folders(l)
              /\ \A k \in 1 .. Len(l) : ~HasStates(l[k])
Nesting(st) == /\ st[1].dir = Root /\ Folders(st[1].list)
               /\ \A i \in 2 .. Len(st) : st[i].dir \in Entry /\ Bare(st[i].list)

(* What Directory_new lists, with the collections c and the recents r.     *)
(* Until minui quits, a directory shows what it would list if opened anew. *)
Listed(d, c, r) ==
    IF d = Recents THEN r ELSE IF d = Collections THEN c ELSE Info[d].list
Current(st, c, r) == \A i \in 2 .. Len(st) : st[i].list = Listed(st[i].dir, c, r)

(* What would be restored belongs to the entry it would be restored for. *)
RestoreFor(st, rs, cl, c, r) ==
    LET f == st[Len(st)] IN
    rs.depth = Len(st) /\ rs.relative \in 0 .. Entries(f) - 1 =>
        /\ f.list[rs.relative + 1] = cl
        /\ Shown(rs.win, Len(Listed(cl, c, r)))
RestoreOK ==
    /\ restore.depth <= Len(stack)
    /\ ui \in Live /\ ~forgot => RestoreFor(stack, restore, closed, colls, recents)

(* last.txt names a path of folders, and a game in a collection at most    *)
(* two folders deep.                                                       *)
LastOK ==
    /\ \A i \in 1 .. Len(last.path) :
          i < Len(last.path) \/ last.file # None => Info[last.path[i]].type = "dir"
    /\ last.file # None => Len(last.path) <= 2

(* The parts still to visit are the end of the path. *)
TodoOK ==
    LET parts == Parts(last) IN
    /\ Len(todo) <= Len(parts)
    /\ \A i \in 1 .. Len(todo) : todo[i] = parts[Len(parts) - Len(todo) + i]

\* The rows that the name of a game in a collection can stand for.
FileRows == {i \in 0 .. Entries(Top) - 1 : Info[Top.list[i + 1]].file = last.file}

LoadingOK ==
    ui = "loading" =>
        /\ ~forgot /\ restore.depth = -1
        /\ TodoOK
        /\ Len(todo) >= 3 /\ last.file # None => Len(stack) = 1
        /\ todo # <<>> =>
              \/ Top.win = First(Entries(Top))
              \/ /\ last.file # None /\ todo = <<None>>
                 /\ Top.win.selected \in FileRows
                 /\ \A j \in FileRows : Top.win.selected <= j

(* can_resume is of the entry under the cursor, while no resume is wished. *)
ReadyOK ==
    ui \in {"browse", "version"} /\ ~should_resume /\ ready.can /\ Entries(Top) > 0
        => HasStates(Under(Top))

BrowserInv ==
    /\ TypeOK
    /\ ui # "dead" => FitsAll(stack)
    /\ ~forgot => ShownAll(stack)
    /\ Chained(stack) /\ Nesting(stack)
    /\ CollsOK(colls) /\ Bare(recents)
    /\ ui \in Live => Current(stack, colls, recents)
    /\ RestoreOK /\ LastOK /\ LoadingOK /\ ReadyOK /\ WildOnlyThere

-----------------------------------------------------------------------------
(* Scrolling: a window that is shown right stays so. *)
LEMMA RowsRange == \A n \in Nat : Rows(n) \in 0 .. n /\ Rows(n) <= MAIN_ROW_COUNT
BY RowsAssumption DEF RowsAssumption, Rows

LEMMA UpDown ==
    ASSUME NEW w \in Windows, NEW n \in Nat, n > 0, Shown(w, n), NEW p \in BOOLEAN
    PROVE  /\ Up(w, n, p) \in Windows /\ Shown(Up(w, n, p), n)
           /\ Down(w, n, p) \in Windows /\ Shown(Down(w, n, p), n)
<1>1. Up(w, n, p) \in Windows /\ Shown(Up(w, n, p), n)
  BY RowsAssumption DEF RowsAssumption, Rows, Up, Final, Slide, Window, Windows, Shown
<1>2. Down(w, n, p) \in Windows /\ Shown(Down(w, n, p), n)
  BY RowsAssumption DEF RowsAssumption, Rows, Down, First, Slide, Window, Windows, Shown
<1> QED BY <1>1, <1>2

LEMMA FirstShown ==
    ASSUME NEW n \in Nat
    PROVE  First(n) \in Windows /\ Shown(First(n), n)
BY RowsAssumption DEF RowsAssumption, First, Rows, Window, Windows, Shown

LEMMA FinalShown ==
    ASSUME NEW n \in Nat
    PROVE  Final(n) \in Windows /\ Shown(Final(n), n)
BY RowsAssumption DEF RowsAssumption, Final, Rows, Window, Windows, Shown

LEMMA WindowShown ==
    ASSUME NEW n \in Nat, NEW s \in Int, NEW b \in Int, NEW e \in Int,
           0 <= b, b <= s, s < e, e <= n, e - b = Rows(n)
    PROVE  Window(s, b, e) \in Windows /\ Shown(Window(s, b, e), n)
BY DEF Window, Windows, Shown

LEMMA RowShown ==
    ASSUME NEW n \in Nat, NEW w \in Windows, NEW s \in Int, Shown(w, n), n > 0,
           w.start <= s, s < w.end
    PROVE  [w EXCEPT !.selected = s] \in Windows /\ Shown([w EXCEPT !.selected = s], n)
BY DEF Windows, Shown

LEMMA LeftRight ==
    ASSUME NEW w \in Windows, NEW n \in Nat, n > 0, Shown(w, n)
    PROVE  /\ Left(w, n) \in Windows /\ Shown(Left(w, n), n)
           /\ Right(w, n) \in Windows /\ Shown(Right(w, n), n)
<1> DEFINE k == MAIN_ROW_COUNT
           s == w.selected - k
           b == IF w.start < k THEN 0 ELSE w.start - k
           t == w.selected + k
           e == IF w.end + k > n THEN n ELSE w.end + k
<1>0. /\ k \in Nat /\ k > 0 /\ w.selected \in Int /\ w.start \in Int /\ w.end \in Int
      /\ 0 <= w.start /\ w.start <= w.selected /\ w.selected < w.end /\ w.end <= n
      /\ w.end - w.start = Rows(n)
  BY RowsAssumption DEF RowsAssumption, Windows, Shown
<1>1. /\ n >= k => Rows(n) = k
      /\ n < k => Rows(n) = n
  BY <1>0 DEF Rows
<1>2. Left(w, n) \in Windows /\ Shown(Left(w, n), n)
  <2>0. Left(w, n) = IF s < 0 THEN First(n)
                     ELSE IF s < w.start THEN Window(s, b, b + k)
                     ELSE [w EXCEPT !.selected = s]
    BY DEF Left
  <2>1. CASE s < 0
    BY <2>0, <2>1, FirstShown
  <2>2. CASE s >= 0 /\ s < w.start
    <3>1. /\ s \in Int /\ b \in Int /\ b + k \in Int
          /\ 0 <= b /\ b <= s /\ s < b + k /\ b + k <= n /\ (b + k) - b = Rows(n)
      <4>1. s \in Int /\ b \in Int /\ b + k \in Int
        BY <1>0
      <4>2. b = IF w.start < k THEN 0 ELSE w.start - k
        OBVIOUS
      <4>3. s = w.selected - k
        OBVIOUS
      <4> HIDE DEF k, b, s
      <4>4. n >= k => w.end - w.start = k
        BY <1>0, <1>1
      <4>5. w.selected - k >= 0 /\ w.selected - k < w.start
        BY <2>2, <4>3
      <4>6. /\ n >= k /\ 0 <= b /\ b <= w.selected - k /\ w.selected - k < b + k
            /\ b + k <= n /\ (b + k) - b = k
        <5> DEFINE x == w.selected
                   a == w.start
                   z == w.end
        <5>1. /\ x \in Int /\ a \in Int /\ z \in Int /\ k \in Nat /\ k > 0 /\ b \in Int
              /\ 0 <= a /\ a <= x /\ x < z /\ z <= n /\ (n >= k => z - a = k)
              /\ x - k >= 0 /\ x - k < a /\ b = IF a < k THEN 0 ELSE a - k
          BY <1>0, <4>1, <4>2, <4>4, <4>5
        <5> HIDE DEF x, a, z
        <5>2. /\ n >= k /\ 0 <= b /\ b <= x - k /\ x - k < b + k /\ b + k <= n
              /\ (b + k) - b = k
          BY <5>1
        <5> QED BY <5>2 DEF x
      <4> QED BY <1>1, <4>1, <4>3, <4>6
    <3>2. Left(w, n) = Window(s, b, b + k)
      BY <1>0, <2>0, <2>2
    <3> HIDE DEF s, b, k
    <3> QED BY <3>1, <3>2, WindowShown
  <2>3. CASE s >= 0 /\ s >= w.start
    <3>1. s \in Int /\ w.start <= s /\ s < w.end
      BY <1>0, <2>3
    <3>2. Left(w, n) = [w EXCEPT !.selected = s]
      BY <1>0, <2>0, <2>3
    <3> HIDE DEF s
    <3> QED BY <3>1, <3>2, RowShown
  <2> QED BY <1>0, <2>1, <2>2, <2>3
<1>3. Right(w, n) \in Windows /\ Shown(Right(w, n), n)
  <2>0. Right(w, n) = IF t >= n THEN Final(n)
                      ELSE IF t >= w.end THEN Window(t, e - k, e)
                      ELSE [w EXCEPT !.selected = t]
    BY DEF Right
  <2>1. CASE t >= n
    BY <2>0, <2>1, FinalShown
  <2>2. CASE t < n /\ t >= w.end
    <3>1. /\ t \in Int /\ e \in Int /\ e - k \in Int
          /\ 0 <= e - k /\ e - k <= t /\ t < e /\ e <= n /\ e - (e - k) = Rows(n)
      <4>1. t \in Int /\ e \in Int /\ e - k \in Int
        BY <1>0
      <4>2. e = IF w.end + k > n THEN n ELSE w.end + k
        OBVIOUS
      <4>3. t = w.selected + k
        OBVIOUS
      <4> HIDE DEF k, e, t
      <4>4. n >= k => w.end - w.start = k
        BY <1>0, <1>1
      <4>5. w.selected + k < n /\ w.selected + k >= w.end
        BY <2>2, <4>3
      <4>6. /\ n >= k /\ 0 <= e - k /\ e - k <= w.selected + k /\ w.selected + k < e
            /\ e <= n /\ e - (e - k) = k
        <5> DEFINE x == w.selected
                   a == w.start
                   z == w.end
        <5>1. /\ x \in Int /\ a \in Int /\ z \in Int /\ k \in Nat /\ k > 0 /\ e \in Int
              /\ 0 <= a /\ a <= x /\ x < z /\ z <= n /\ (n >= k => z - a = k)
              /\ x + k < n /\ x + k >= z /\ e = IF z + k > n THEN n ELSE z + k
          BY <1>0, <4>1, <4>2, <4>4, <4>5
        <5> HIDE DEF x, a, z
        <5>2. /\ n >= k /\ 0 <= e - k /\ e - k <= x + k /\ x + k < e /\ e <= n
              /\ e - (e - k) = k
          BY <5>1
        <5> QED BY <5>2 DEF x
      <4> QED BY <1>1, <4>1, <4>3, <4>6
    <3>2. Right(w, n) = Window(t, e - k, e)
      BY <1>0, <2>0, <2>2
    <3> HIDE DEF t, e, k
    <3> QED BY <3>1, <3>2, WindowShown
  <2>3. CASE t < n /\ t < w.end
    <3>1. t \in Int /\ w.start <= t /\ t < w.end
      BY <1>0, <2>3
    <3>2. Right(w, n) = [w EXCEPT !.selected = t]
      BY <1>0, <2>0, <2>3
    <3> HIDE DEF t
    <3> QED BY <3>1, <3>2, RowShown
  <2> QED BY <1>0, <2>1, <2>2, <2>3
<1> QED BY <1>2, <1>3

LEMMA JumpShown ==
    ASSUME NEW w \in Windows, NEW n \in Nat, n > 0, Shown(w, n),
           NEW s \in 0 .. n - 1
    PROVE  Jump(w, n, s) \in Windows /\ Shown(Jump(w, n, s), n)
BY RowsAssumption DEF RowsAssumption, Rows, Jump, Window, Windows, Shown

(* Whatever the window was, scrolling yields numbers. *)
LEMMA ScrollTypes ==
    ASSUME NEW w \in Windows, NEW n \in Nat
    PROVE  /\ \A p \in BOOLEAN : Up(w, n, p) \in Windows /\ Down(w, n, p) \in Windows
           /\ Left(w, n) \in Windows /\ Right(w, n) \in Windows
           /\ \A s \in Int : Jump(w, n, s) \in Windows
<1>1. \A p \in BOOLEAN : Up(w, n, p) \in Windows /\ Down(w, n, p) \in Windows
  BY RowsAssumption DEF RowsAssumption, Rows, Up, Down, First, Final, Slide, Window, Windows
<1>2. Left(w, n) \in Windows /\ Right(w, n) \in Windows
  BY RowsAssumption DEF RowsAssumption, Rows, Left, Right, First, Final, Window, Windows
<1>3. \A s \in Int : Jump(w, n, s) \in Windows
  BY RowsAssumption DEF RowsAssumption, Jump, Window, Windows
<1> QED BY <1>1, <1>2, <1>3

LEMMA ScrolledShown ==
    ASSUME NEW f \in Frames, NEW w \in Scrolled(f)
    PROVE  /\ w \in Windows
           /\ Shown(f.win, Len(f.list)) => Shown(w, Len(f.list))
<1> DEFINE n == Len(f.list)
           vert == {f.win} \cup UNION {{Up(f.win, n, p), Down(f.win, n, p)} :
                                          p \in BOOLEAN}
           hor == UNION {{v, Left(v, n), Right(v, n)} : v \in vert}
<1>0. n \in Nat /\ f.win \in Windows
  BY DEF Frames
<1>1. CASE n = 0
  BY <1>0, <1>1 DEF Scrolled
<1>2. CASE n # 0
  <2>1. w \in UNION {Jumps(f, v) : v \in hor}
    BY <1>0, <1>2 DEF Scrolled
  <2>2. \A v \in vert : v \in Windows /\ (Shown(f.win, n) => Shown(v, n))
    <3>1. \A p \in BOOLEAN :
            \A v \in {Up(f.win, n, p), Down(f.win, n, p)} :
               v \in Windows /\ (Shown(f.win, n) => Shown(v, n))
      <4>1. n > 0
        BY <1>0, <1>2
      <4> HIDE DEF n
      <4> QED BY <1>0, <4>1, UpDown, ScrollTypes
    <3> QED BY <1>0, <3>1
  <2>3. \A v \in hor : v \in Windows /\ (Shown(f.win, n) => Shown(v, n))
    <3> HIDE DEF vert
    <3> SUFFICES ASSUME NEW v \in vert
                 PROVE  \A u \in {v, Left(v, n), Right(v, n)} :
                           u \in Windows /\ (Shown(f.win, n) => Shown(u, n))
      OBVIOUS
    <3>1. v \in Windows /\ Left(v, n) \in Windows /\ Right(v, n) \in Windows
      BY <1>0, <2>2, ScrollTypes
    <3>2. Shown(f.win, n) => Shown(v, n) /\ Shown(Left(v, n), n) /\ Shown(Right(v, n), n)
      BY <1>0, <1>2, <2>2, <3>1, LeftRight
    <3> QED BY <3>1, <3>2
  <2>4. \A s \in Letters(f) : s \in 0 .. n - 1
    BY DEF Letters
  <2>5. PICK v \in hor : w \in Jumps(f, v)
    BY <2>1
  <2>6. w = v \/ \E s \in Letters(f) : w = Jump(v, n, s)
    <3> HIDE DEF hor
    <3> QED BY <2>5 DEF Jumps, AlphaStarts
  <2> HIDE DEF hor, n
  <2>7. v \in Windows /\ (Shown(f.win, n) => Shown(v, n)) /\ n > 0
    BY <1>0, <1>2, <2>3
  <2>8. CASE w = v
    BY <2>7, <2>8 DEF n
  <2>9. CASE \E s \in Letters(f) : w = Jump(v, n, s)
    <3>1. PICK s \in 0 .. n - 1 : w = Jump(v, n, s)
      BY <2>4, <2>9
    <3>2. w \in Windows
      BY <1>0, <2>7, <3>1, ScrollTypes
    <3>3. Shown(f.win, n) => Shown(w, n)
      BY <1>0, <2>7, <3>1, JumpShown
    <3> QED BY <3>2, <3>3 DEF n
  <2> QED BY <2>6, <2>8, <2>9
<1> HIDE DEF hor, vert
<1> QED BY <1>1, <1>2 DEF n

LEMMA ShownFits ==
    ASSUME NEW f \in Frames, Shown(f.win, Len(f.list))
    PROVE  Fits(f)
BY DEF Frames, Windows, Shown, Fits

(* A list whose collection was removed. *)
LEMMA RebuiltShown ==
    ASSUME NEW w \in Windows, w.selected >= 0, NEW l \in Seq(Entry), l # <<>>
    PROVE  Rebuilt(w, l) \in Windows /\ Shown(Rebuilt(w, l), Len(l))
<1>1. Len(l) \in Nat /\ Len(l) > 0
  BY EmptySeq
<1> QED
  BY <1>1, RowsAssumption DEF RowsAssumption, Rebuilt, Rows, Window, Windows, Shown

-----------------------------------------------------------------------------
(* The stack: scrolling its top, pushing and popping. *)
LEMMA Listing ==
    \A d : Directory_new(d) = Listed(d, colls, recents)
BY DEF Directory_new, getRecents, getCollection, getEntries, Listed

LEMMA InfoFacts ==
    ASSUME NEW e \in Entry
    PROVE  /\ Info[e].type \in Kinds /\ Info[e].list \in Seq(Entry)
           /\ Info[e].auto \in {"none", "run", "dead"}
           /\ Info[e].game \in Entry /\ Info[e].disc \in Entry
           /\ Info[e].path \in Seq(Entry) /\ Info[e].file \in Entry
           /\ Info[e].system \in Entry \cup {None} /\ Info[e].emu \in BOOLEAN
<1>1. Info[e] \in Facts
  BY CardAssumption DEF CardAssumption
<1> QED BY <1>1 DEF Facts

LEMMA ListedFacts ==
    ASSUME NEW d \in Entry, NEW c \in Seq(Entry), NEW r \in Seq(Entry),
           Bare(c), Bare(r)
    PROVE  Listed(d, c, r) \in Seq(Entry) /\ Bare(Listed(d, c, r))
<1>1. Info[d].list \in Seq(Entry)
  BY InfoFacts
<1>2. Bare(Info[d].list)
  BY <1>1, NestingAssumption DEF NestingAssumption, Bare
<1> QED BY <1>1, <1>2 DEF Listed

LEMMA StackTop ==
    ASSUME NEW st \in Seq(Frames), st # <<>>
    PROVE  /\ Len(st) \in Nat /\ Len(st) > 0 /\ st[Len(st)] \in Frames
           /\ \A i \in 1 .. Len(st) : st[i] \in Frames
<1>1. Len(st) \in Nat /\ Len(st) > 0
  BY EmptySeq
<1>2. \A i \in 1 .. Len(st) : st[i] \in Frames
  BY ElementOfSeq
<1> QED BY <1>1, <1>2

LEMMA FrameFacts ==
    ASSUME NEW f \in Frames
    PROVE  /\ f.dir \in Entry \cup {None} /\ f.list \in Seq(Entry)
           /\ f.win \in Windows /\ Len(f.list) \in Nat
           /\ f.win.selected \in Int /\ f.win.start \in Int /\ f.win.end \in Int
BY DEF Frames, Windows

LEMMA UnderEntry ==
    ASSUME NEW f \in Frames, Entries(f) > 0, Fits(f)
    PROVE  /\ f.win.selected \in 0 .. Entries(f) - 1
           /\ Under(f) \in Entry
<1>1. f.win.selected \in 0 .. Len(f.list) - 1 /\ f.list \in Seq(Entry)
  BY FrameFacts DEF Fits
<1>2. f.win.selected + 1 \in 1 .. Len(f.list)
  BY <1>1, FrameFacts
<1> QED BY <1>1, <1>2, ElementOfSeq DEF Under

(* t is st with another directory on top. *)
Topped(st, t) ==
    /\ t \in Seq(Frames) /\ t # <<>> /\ Len(t) = Len(st)
    /\ t[Len(st)].dir = st[Len(st)].dir
    /\ \A i \in 1 .. Len(st) - 1 : t[i] = st[i]

LEMMA PutTop ==
    ASSUME NEW st \in Seq(Frames), st # <<>>, NEW f \in Frames,
           f.dir = st[Len(st)].dir
    PROVE  /\ Topped(st, [st EXCEPT ![Len(st)] = f])
           /\ [st EXCEPT ![Len(st)] = f][Len(st)] = f
<1> DEFINE t == [st EXCEPT ![Len(st)] = f]
<1>1. Len(st) \in Nat /\ Len(st) > 0 /\ st[Len(st)] \in Frames
  BY StackTop
<1>2. t \in Seq(Frames) /\ Len(t) = Len(st)
  BY <1>1, ExceptSeq
<1>3. \A i \in 1 .. Len(st) : t[i] = IF i = Len(st) THEN f ELSE st[i]
  BY <1>1, ExceptSeq
<1>4. t # <<>>
  BY <1>1, <1>2, EmptySeq
<1> HIDE DEF t
<1>5. t[Len(st)] = f
  BY <1>1, <1>3
<1>6. \A i \in 1 .. Len(st) - 1 : t[i] = st[i]
  BY <1>1, <1>3
<1> QED BY <1>2, <1>4, <1>5, <1>6 DEF t, Topped

LEMMA ToppedKeeps ==
    ASSUME NEW st \in Seq(Frames), st # <<>>, NEW t, Topped(st, t)
    PROVE  /\ Chained(st) => Chained(t)
           /\ FitsAll(st) /\ Fits(t[Len(st)]) => FitsAll(t)
           /\ ShownAll(st) /\ Shown(t[Len(st)].win, Entries(t[Len(st)])) => ShownAll(t)
<1>1. Len(st) \in Nat /\ Len(st) > 0
  BY StackTop
<1>2. t \in Seq(Frames) /\ Len(t) = Len(st) /\ t[Len(st)].dir = st[Len(st)].dir
      /\ \A i \in 1 .. Len(st) - 1 : t[i] = st[i]
  BY DEF Topped
<1>3. \A i \in 1 .. Len(st) : i = Len(st) \/ i \in 1 .. Len(st) - 1
  BY <1>1
<1>4. \A i \in 1 .. Len(st) : t[i].dir = st[i].dir
  BY <1>2, <1>3
<1>5. Chained(st) => Chained(t)
  <2> SUFFICES ASSUME Chained(st), NEW i \in 1 .. Len(st) - 1
               PROVE  t[i].win.selected \in 0 .. Entries(t[i]) - 1 /\ Under(t[i]) = t[i + 1].dir
    BY <1>2 DEF Chained
  <2>1. t[i] = st[i]
    BY <1>2
  <2>2. t[i + 1].dir = st[i + 1].dir
    BY <1>1, <1>4
  <2> QED BY <2>1, <2>2 DEF Chained
<1>6. FitsAll(st) /\ Fits(t[Len(st)]) => FitsAll(t)
  BY <1>1, <1>2, <1>3 DEF FitsAll
<1>7. ShownAll(st) /\ Shown(t[Len(st)].win, Entries(t[Len(st)])) => ShownAll(t)
  BY <1>1, <1>2, <1>3 DEF ShownAll
<1> QED BY <1>5, <1>6, <1>7

LEMMA ListKeeps ==
    ASSUME NEW st \in Seq(Frames), st # <<>>, NEW t, Topped(st, t),
           t[Len(st)].list = st[Len(st)].list
    PROVE  /\ Nesting(st) => Nesting(t)
           /\ \A c, r : Current(st, c, r) => Current(t, c, r)
           /\ \A rs, cl, c, r : RestoreFor(st, rs, cl, c, r) => RestoreFor(t, rs, cl, c, r)
<1>1. Len(st) \in Nat /\ Len(st) > 0
  BY StackTop
<1>2. t \in Seq(Frames) /\ Len(t) = Len(st) /\ t[Len(st)].dir = st[Len(st)].dir
      /\ \A i \in 1 .. Len(st) - 1 : t[i] = st[i]
  BY DEF Topped
<1>3. \A i \in 1 .. Len(st) : i = Len(st) \/ i \in 1 .. Len(st) - 1
  BY <1>1
<1>4. \A i \in 1 .. Len(st) : t[i].dir = st[i].dir /\ t[i].list = st[i].list
  BY <1>2, <1>3
<1>5. 1 \in 1 .. Len(st) /\ 2 .. Len(st) \subseteq 1 .. Len(st)
  BY <1>1
<1>6. Nesting(st) => Nesting(t)
  BY <1>2, <1>4, <1>5 DEF Nesting
<1>7. \A c, r : Current(st, c, r) => Current(t, c, r)
  BY <1>2, <1>4, <1>5 DEF Current
<1>8. \A rs, cl, c, r : RestoreFor(st, rs, cl, c, r) => RestoreFor(t, rs, cl, c, r)
  BY <1>2 DEF RestoreFor
<1> QED BY <1>6, <1>7, <1>8

LEMMA ScrollTop ==
    ASSUME NEW st \in Seq(Frames), st # <<>>, NEW w \in Windows
    PROVE  LET t == [st EXCEPT ![Len(st)].win = w] IN
           /\ Topped(st, t) /\ t[Len(st)].dir = st[Len(st)].dir
           /\ t[Len(st)].list = st[Len(st)].list /\ t[Len(st)].win = w
           /\ t[Len(st)] = [st[Len(st)] EXCEPT !.win = w]
<1> DEFINE f == [st[Len(st)] EXCEPT !.win = w]
<1>1. Len(st) \in Nat /\ Len(st) > 0 /\ st[Len(st)] \in Frames
  BY StackTop
<1>2. f \in Frames /\ f.dir = st[Len(st)].dir /\ f.list = st[Len(st)].list /\ f.win = w
  BY <1>1 DEF Frames
<1>3. [st EXCEPT ![Len(st)].win = w] = [st EXCEPT ![Len(st)] = f]
  OBVIOUS
<1>4. Topped(st, [st EXCEPT ![Len(st)] = f]) /\ [st EXCEPT ![Len(st)] = f][Len(st)] = f
  <2> HIDE DEF f
  <2> QED BY <1>2, PutTop
<1> QED BY <1>2, <1>3, <1>4

(* t is st with f pushed; t is st with its top popped. *)
Pushed(st, f, t) ==
    /\ t \in Seq(Frames) /\ t # <<>> /\ Len(t) = Len(st) + 1 /\ t[Len(st) + 1] = f
    /\ \A i \in 1 .. Len(st) : t[i] = st[i]
Popped(st, t) ==
    /\ t \in Seq(Frames) /\ t # <<>> /\ Len(t) = Len(st) - 1
    /\ \A i \in 1 .. Len(st) - 1 : t[i] = st[i]

LEMMA AppendPushes ==
    ASSUME NEW st \in Seq(Frames), st # <<>>, NEW f \in Frames
    PROVE  Pushed(st, f, Append(st, f))
<1>1. Len(st) \in Nat /\ Len(st) > 0
  BY StackTop
<1> QED BY <1>1, AppendProperties DEF Pushed

LEMMA PopPops ==
    ASSUME NEW st \in Seq(Frames), Len(st) > 1
    PROVE  Popped(st, Pop(st))
<1>1. Len(st) \in Nat /\ Len(st) - 1 \in 1 .. Len(st)
  OBVIOUS
<1>2. Pop(st) \in Seq(Frames) /\ Len(Pop(st)) = Len(st) - 1
      /\ \A i \in 1 .. Len(st) - 1 : Pop(st)[i] = st[i]
  BY <1>1, SubSeqProperties DEF Pop
<1>3. Pop(st) # <<>>
  BY <1>1, <1>2, EmptySeq
<1> QED BY <1>2, <1>3 DEF Popped

LEMMA PushTop ==
    ASSUME NEW st \in Seq(Frames), st # <<>>, NEW f \in Frames,
           NEW t, Pushed(st, f, t)
    PROVE  /\ (/\ Chained(st) /\ st[Len(st)].win.selected \in 0 .. Entries(st[Len(st)]) - 1
               /\ Under(st[Len(st)]) = f.dir) => Chained(t)
           /\ Nesting(st) /\ f.dir \in Entry /\ Bare(f.list) => Nesting(t)
           /\ \A c, r : Current(st, c, r) /\ f.list = Listed(f.dir, c, r) => Current(t, c, r)
           /\ FitsAll(st) /\ Fits(f) => FitsAll(t)
           /\ ShownAll(st) /\ Shown(f.win, Entries(f)) => ShownAll(t)
<1>1. Len(st) \in Nat /\ Len(st) > 0 /\ st[Len(st)] \in Frames
  BY StackTop
<1>2. t \in Seq(Frames) /\ Len(t) = Len(st) + 1 /\ t # <<>>
  BY DEF Pushed
<1>3. \A i \in 1 .. Len(st) : t[i] = st[i]
  BY DEF Pushed
<1>4. t[Len(st) + 1] = f
  BY DEF Pushed
<1>5. \A i \in 1 .. Len(t) : i \in 1 .. Len(st) \/ i = Len(st) + 1
  BY <1>1, <1>2
<1>6. (/\ Chained(st) /\ st[Len(st)].win.selected \in 0 .. Entries(st[Len(st)]) - 1
       /\ Under(st[Len(st)]) = f.dir) => Chained(t)
  <2> SUFFICES ASSUME Chained(st), Under(st[Len(st)]) = f.dir,
                      st[Len(st)].win.selected \in 0 .. Entries(st[Len(st)]) - 1,
                      NEW i \in 1 .. Len(st)
               PROVE  t[i].win.selected \in 0 .. Entries(t[i]) - 1 /\ Under(t[i]) = t[i + 1].dir
    BY <1>1, <1>2 DEF Chained
  <2>1. CASE i = Len(st)
    BY <1>3, <1>4, <2>1
  <2>2. CASE i # Len(st)
    <3>1. i \in 1 .. Len(st) - 1 /\ i + 1 \in 1 .. Len(st)
      BY <1>1, <2>2
    <3>2. t[i] = st[i] /\ t[i + 1] = st[i + 1]
      BY <1>3, <3>1
    <3> QED BY <3>1, <3>2 DEF Chained
  <2> QED BY <2>1, <2>2
<1>7. Nesting(st) /\ f.dir \in Entry /\ Bare(f.list) => Nesting(t)
  <2>1. t[1] = st[1]
    BY <1>1, <1>3
  <2>2. \A i \in 2 .. Len(t) : (i \in 2 .. Len(st) /\ t[i] = st[i]) \/ t[i] = f
    BY <1>1, <1>2, <1>3, <1>4
  <2> QED BY <2>1, <2>2 DEF Nesting
<1>8. \A c, r : Current(st, c, r) /\ f.list = Listed(f.dir, c, r) => Current(t, c, r)
  <2>2. \A i \in 2 .. Len(t) : (i \in 2 .. Len(st) /\ t[i] = st[i]) \/ t[i] = f
    BY <1>1, <1>2, <1>3, <1>4
  <2> QED BY <2>2 DEF Current
<1>9. FitsAll(st) /\ Fits(f) => FitsAll(t)
  BY <1>3, <1>4, <1>5 DEF FitsAll
<1>10. ShownAll(st) /\ Shown(f.win, Entries(f)) => ShownAll(t)
  BY <1>3, <1>4, <1>5 DEF ShownAll
<1> QED BY <1>6, <1>7, <1>8, <1>9, <1>10

LEMMA PopTop ==
    ASSUME NEW st \in Seq(Frames), Len(st) > 1, NEW t, Popped(st, t)
    PROVE  /\ Chained(st) => Chained(t)
           /\ Nesting(st) => Nesting(t)
           /\ \A c, r : Current(st, c, r) => Current(t, c, r)
           /\ FitsAll(st) => FitsAll(t)
           /\ ShownAll(st) => ShownAll(t)
<1>1. Len(st) \in Nat /\ Len(st) - 1 \in 1 .. Len(st)
  OBVIOUS
<1>2. t \in Seq(Frames) /\ Len(t) = Len(st) - 1
      /\ \A i \in 1 .. Len(st) - 1 : t[i] = st[i]
  BY DEF Popped
<1>4. Chained(st) => Chained(t)
  <2> SUFFICES ASSUME Chained(st), NEW i \in 1 .. Len(st) - 2
               PROVE  t[i].win.selected \in 0 .. Entries(t[i]) - 1 /\ Under(t[i]) = t[i + 1].dir
    BY <1>1, <1>2 DEF Chained
  <2>1. t[i] = st[i] /\ t[i + 1] = st[i + 1] /\ i \in 1 .. Len(st) - 1
    BY <1>1, <1>2
  <2> QED BY <2>1 DEF Chained
<1>5. \A i \in 1 .. Len(t) : i \in 1 .. Len(st) /\ t[i] = st[i]
  BY <1>1, <1>2
<1>6. t[1] = st[1] /\ \A i \in 2 .. Len(t) : i \in 2 .. Len(st) /\ t[i] = st[i]
  BY <1>1, <1>2
<1>7. Nesting(st) => Nesting(t)
  BY <1>6 DEF Nesting
<1>8. \A c, r : Current(st, c, r) => Current(t, c, r)
  BY <1>6 DEF Current
<1>9. FitsAll(st) => FitsAll(t)
  BY <1>5 DEF FitsAll
<1>10. ShownAll(st) => ShownAll(t)
  BY <1>5 DEF ShownAll
<1> QED BY <1>4, <1>7, <1>8, <1>9, <1>10

-----------------------------------------------------------------------------
(* minui starts: the root, and the parts of last.txt to visit. *)
LEMMA ConcatFolders ==
    ASSUME NEW a \in Seq(Entry), NEW b \in Seq(Entry), Folders(a), Folders(b)
    PROVE  a \o b \in Seq(Entry) /\ Folders(a \o b)
<1>1. a \o b \in Seq(Entry) /\ Len(a \o b) = Len(a) + Len(b)
  BY ConcatProperties
<1>2. \A k \in 1 .. Len(a) + Len(b) :
         (a \o b)[k] = IF k <= Len(a) THEN a[k] ELSE b[k - Len(a)]
  BY ConcatProperties
<1>3. \A k \in 1 .. Len(a) + Len(b) : k \in 1 .. Len(a) \/ (~(k <= Len(a)) /\ k - Len(a) \in 1 .. Len(b))
  BY LenProperties
<1> QED BY <1>1, <1>2, <1>3 DEF Folders

LEMMA RootFacts ==
    ASSUME CollsOK(colls)
    PROVE  /\ getRoot \in Seq(Entry) /\ Folders(getRoot)
           /\ RootFrame \in Frames /\ Shown(RootFrame.win, Entries(RootFrame))
           /\ RootFrame.win = First(Entries(RootFrame))
           /\ RootFrame.dir = None /\ RootFrame.list = getRoot
<1> DEFINE a == If(recents # <<>>, <<Recents>>)
           b == If(colls # <<>> /\ Systems # <<>>, <<Collections>>)
           c == If(Systems = <<>>, colls)
<1>1. <<>> \in Seq(Entry) /\ Folders(<<>>)
  BY EmptySeq DEF Folders
<1>2. a \in Seq(Entry) /\ Folders(a)
  BY <1>1, CardAssumption, TreeAssumption DEF CardAssumption, TreeAssumption, If, Folders
<1>3. b \in Seq(Entry) /\ Folders(b)
  BY <1>1, CardAssumption, NestingAssumption DEF CardAssumption, NestingAssumption, If, Folders
<1>4. c \in Seq(Entry) /\ Folders(c)
  BY <1>1 DEF If, CollsOK
<1>5. Systems \in Seq(Entry) /\ Folders(Systems) /\ Tools \in Seq(Entry) /\ Folders(Tools)
  BY CardAssumption, TreeAssumption DEF CardAssumption, TreeAssumption, Folders
<1>6. getRoot = (((a \o b) \o c) \o Systems) \o Tools
  BY DEF getRoot
<1> HIDE DEF a, b, c
<1>7. a \o b \in Seq(Entry) /\ Folders(a \o b)
  BY <1>2, <1>3, ConcatFolders
<1>8. (a \o b) \o c \in Seq(Entry) /\ Folders((a \o b) \o c)
  BY <1>4, <1>7, ConcatFolders
<1>9. ((a \o b) \o c) \o Systems \in Seq(Entry) /\ Folders(((a \o b) \o c) \o Systems)
  BY <1>5, <1>8, ConcatFolders
<1>10. getRoot \in Seq(Entry) /\ Folders(getRoot)
  BY <1>5, <1>6, <1>9, ConcatFolders
<1> DEFINE n == Len(getRoot)
<1>11. n \in Nat
  BY <1>10
<1>12. First(n) \in Windows /\ Shown(First(n), n)
  <2> HIDE DEF n
  <2> QED BY <1>11, FirstShown
<1> QED BY <1>10, <1>12 DEF RootFrame, Frames

LEMMA OneFrame ==
    ASSUME NEW f \in Frames, f.dir = None, Folders(f.list), Shown(f.win, Entries(f))
    PROVE  /\ <<f>> \in Seq(Frames) /\ <<f>> # <<>> /\ Len(<<f>>) = 1 /\ <<f>>[1] = f
           /\ FitsAll(<<f>>) /\ ShownAll(<<f>>) /\ Chained(<<f>>) /\ Nesting(<<f>>)
           /\ \A c, r : Current(<<f>>, c, r)
<1>1. Fits(f)
  BY ShownFits
<1>2. Len(<<f>>) = 1 /\ <<f>>[1] = f /\ <<f>> \in Seq(Frames) /\ <<f>> # <<>>
  OBVIOUS
<1>3. \A i \in 1 .. Len(<<f>>) : <<f>>[i] = f
  OBVIOUS
<1>4. FitsAll(<<f>>) /\ ShownAll(<<f>>)
  BY <1>1, <1>3 DEF FitsAll, ShownAll
<1>5. 1 .. Len(<<f>>) - 1 = {} /\ 2 .. Len(<<f>>) = {}
  BY <1>2
<1> QED BY <1>2, <1>4, <1>5 DEF Chained, Nesting, Current

LEMMA PartsFacts ==
    ASSUME NEW p \in Paths
    PROVE  /\ Parts(p) \in Seq(Entry \cup {None})
           /\ p.path \in Seq(Entry) /\ Len(p.path) \in Nat
           /\ p.file = None => Len(Parts(p)) = Len(p.path)
           /\ p.file # None => /\ Len(Parts(p)) = Len(p.path) + 1
                               /\ Parts(p)[Len(p.path) + 1] = None
           /\ \A i \in 1 .. Len(p.path) : Parts(p)[i] = p.path[i]
<1>1. p.path \in Seq(Entry) /\ p.path \in Seq(Entry \cup {None}) /\ Len(p.path) \in Nat
  BY SeqMonotonic DEF Paths
<1>2. CASE p.file = None
  <2>1. Parts(p) = p.path
    BY <1>1, <1>2, ConcatEmptySeq DEF Parts, If
  <2> QED BY <1>1, <1>2, <2>1
<1>3. CASE p.file # None
  <2>1. Parts(p) = p.path \o <<None>>
    BY <1>3 DEF Parts, If
  <2>2. <<None>> \in Seq(Entry \cup {None}) /\ Len(<<None>>) = 1 /\ <<None>>[1] = None
    OBVIOUS
  <2>3. Parts(p) \in Seq(Entry \cup {None}) /\ Len(Parts(p)) = Len(p.path) + 1
    BY <1>1, <2>1, <2>2, ConcatProperties
  <2>4. \A i \in 1 .. Len(p.path) + 1 :
           Parts(p)[i] = IF i <= Len(p.path) THEN p.path[i] ELSE <<None>>[i - Len(p.path)]
    BY <1>1, <2>1, <2>2, ConcatProperties
  <2>5. Parts(p)[Len(p.path) + 1] = None
    BY <1>1, <2>2, <2>4
  <2>6. \A i \in 1 .. Len(p.path) : Parts(p)[i] = p.path[i]
    BY <1>1, <2>4
  <2> QED BY <1>1, <1>3, <2>3, <2>5, <2>6
<1> QED BY <1>2, <1>3

LEMMA Starts ==
    ASSUME CollsOK(colls), Bare(recents), recents \in Seq(Entry),
           Boot, last' \in Paths, LastOK', todo' = Parts(last'), from' \in Places \cup {None}
    PROVE  BrowserInv'
<1>1. RootFrame \in Frames /\ Folders(RootFrame.list) /\ RootFrame.dir = None
      /\ Shown(RootFrame.win, Entries(RootFrame)) /\ RootFrame.win = First(Entries(RootFrame))
  BY RootFacts
<1>2. stack' = <<RootFrame>>
  BY DEF Boot
<1> DEFINE st == stack'
<1>3. /\ st \in Seq(Frames) /\ st # <<>> /\ Len(st) = 1 /\ st[1] = RootFrame
      /\ FitsAll(st) /\ ShownAll(st) /\ Chained(st) /\ Nesting(st)
      /\ \A c, r : Current(st, c, r)
  BY <1>1, <1>2, OneFrame
<1>4. /\ ui' = "loading" /\ restore' = NoRestore /\ ready' = [can |-> FALSE, slot |-> None]
      /\ should_resume' = FALSE /\ launch' = NoLaunch /\ closed' = None /\ forgot' = FALSE
      /\ colls' = colls /\ recents' = recents
  BY DEF Boot
<1>5. todo' \in Seq(Entry \cup {None})
  BY PartsFacts
<1>6. TypeOK'
  <2>1. restore' \in [depth : Int, relative : Int, win : Windows]
    BY <1>4 DEF NoRestore, Window, Windows
  <2>2. launch' \in [by : {"A", "RESUME"}, slot : {"default", "noted", "garbage"}]
    BY <1>4 DEF NoLaunch
  <2>3. ready' \in [can : BOOLEAN, slot : Entry \cup {None}]
    BY <1>4
  <2> QED BY <1>3, <1>4, <1>5, <2>1, <2>2, <2>3 DEF TypeOK, CollsOK
<1>7. restore'.depth = -1
  BY <1>4 DEF NoRestore
<1>8. RestoreOK'
  BY <1>3, <1>7 DEF RestoreOK, RestoreFor
<1>9. TodoOK'
  <2>1. Len(Parts(last')) \in Nat
    BY PartsFacts
  <2> QED BY <2>1 DEF TodoOK
<1>10. LoadingOK'
  <2>1. Top' = RootFrame
    BY <1>3 DEF Top
  <2> QED BY <1>1, <1>3, <1>4, <1>7, <1>9, <2>1 DEF LoadingOK
<1>11. ReadyOK' /\ WildOnlyThere'
  BY <1>4 DEF ReadyOK, WildOnlyThere
<1>12. CollsOK(colls)' /\ Bare(recents)'
  BY <1>4
<1> QED BY <1>3, <1>6, <1>8, <1>10, <1>11, <1>12 DEF BrowserInv

LEMMA InitInv == Init => BrowserInv
<1> SUFFICES ASSUME Init PROVE BrowserInv
  OBVIOUS
<1>0. CollsOK(colls) /\ Bare(recents) /\ recents \in Seq(Entry)
  <2>1. Colls \in Seq(Entry) /\ colls = Colls /\ recents = <<>>
    BY CardAssumption DEF CardAssumption, Init
  <2>2. Bare(Colls) /\ Folders(Colls) /\ \A k \in 1 .. Len(Colls) : ~HasStates(Colls[k])
    BY <2>1, NestingAssumption, TreeAssumption DEF NestingAssumption, TreeAssumption, Bare, Folders
  <2> QED BY <2>1, <2>2 DEF CollsOK, Bare
<1>1. RootFrame \in Frames /\ Folders(RootFrame.list) /\ RootFrame.dir = None
      /\ Shown(RootFrame.win, Entries(RootFrame)) /\ RootFrame.win = First(Entries(RootFrame))
  BY <1>0, RootFacts
<1>2. stack = <<RootFrame>>
  BY DEF Init
<1>3. /\ stack \in Seq(Frames) /\ stack # <<>> /\ Len(stack) = 1 /\ stack[1] = RootFrame
      /\ FitsAll(stack) /\ ShownAll(stack) /\ Chained(stack) /\ Nesting(stack)
      /\ \A c, r : Current(stack, c, r)
  BY <1>1, <1>2, OneFrame
<1>4. /\ ui = "loading" /\ restore = NoRestore /\ ready = [can |-> FALSE, slot |-> None]
      /\ should_resume = FALSE /\ launch = NoLaunch /\ closed = None /\ forgot = FALSE
      /\ last = NoLast /\ todo = <<>> /\ from = None
  BY DEF Init
<1>5. last \in Paths /\ last.path = <<>> /\ last.file = None
  BY <1>4 DEF NoLast, Paths
<1>6. TypeOK
  <2>1. restore \in [depth : Int, relative : Int, win : Windows]
    BY <1>4 DEF NoRestore, Window, Windows
  <2>2. launch \in [by : {"A", "RESUME"}, slot : {"default", "noted", "garbage"}]
    BY <1>4 DEF NoLaunch
  <2>3. ready \in [can : BOOLEAN, slot : Entry \cup {None}]
    BY <1>4
  <2>4. todo \in Seq(Entry \cup {None})
    BY <1>4, EmptySeq
  <2>5. /\ should_resume \in BOOLEAN /\ forgot \in BOOLEAN
        /\ closed \in Entry \cup {None} /\ from \in Places \cup {None}
    BY <1>4
  <2>6. ui \in {"loading", "browse", "version", "quit", "dead"} /\ colls \in Seq(Entry)
    BY <1>0, <1>4 DEF CollsOK
  <2> QED BY <1>0, <1>3, <1>5, <2>1, <2>2, <2>3, <2>4, <2>5, <2>6 DEF TypeOK
<1>7. restore.depth = -1
  BY <1>4 DEF NoRestore
<1>8. RestoreOK
  BY <1>3, <1>7 DEF RestoreOK, RestoreFor
<1>9. TodoOK /\ LastOK
  <2>1. Len(Parts(last)) \in Nat
    BY <1>5, PartsFacts
  <2> QED BY <1>4, <1>5, <2>1 DEF TodoOK, LastOK
<1>10. LoadingOK
  BY <1>3, <1>4, <1>7, <1>9 DEF LoadingOK
<1>11. ReadyOK /\ WildOnlyThere
  BY <1>4 DEF ReadyOK, WildOnlyThere
<1> QED BY <1>0, <1>3, <1>6, <1>8, <1>9, <1>10, <1>11 DEF BrowserInv

LEMMA RelaunchInv == BrowserInv /\ Relaunch => BrowserInv'
<1> SUFFICES ASSUME BrowserInv, Relaunch PROVE BrowserInv'
  OBVIOUS
<1>1. last' = last /\ from' = from /\ todo' = Parts(last') /\ Boot
  BY DEF Relaunch
<1>2. CollsOK(colls) /\ Bare(recents) /\ recents \in Seq(Entry)
      /\ last' \in Paths /\ from' \in Places \cup {None}
  BY <1>1 DEF BrowserInv, TypeOK
<1>3. LastOK'
  BY <1>1 DEF BrowserInv, LastOK
<1> QED BY <1>1, <1>2, <1>3, Starts

LEMMA RebootInv == BrowserInv /\ Reboot => BrowserInv'
<1> SUFFICES ASSUME BrowserInv, Reboot PROVE BrowserInv'
  OBVIOUS
<1>1. last' = NoLast /\ from' = None /\ todo' = <<>> /\ Boot
  BY DEF Reboot
<1>2. last' \in Paths /\ last'.path = <<>> /\ last'.file = None
  BY <1>1 DEF NoLast, Paths
<1>3. CollsOK(colls) /\ Bare(recents) /\ recents \in Seq(Entry)
  BY DEF BrowserInv, TypeOK
<1>4. LastOK'
  BY <1>2 DEF LastOK
<1>5. Parts(last') = <<>>
  BY <1>2, PartsFacts, EmptySeq
<1> QED BY <1>1, <1>2, <1>3, <1>4, <1>5, Starts

-----------------------------------------------------------------------------
(* Frames that leave the stack of lists as it is. *)
LEMMA TopFacts ==
    ASSUME BrowserInv
    PROVE  /\ stack \in Seq(Frames) /\ stack # <<>> /\ Len(stack) \in Nat /\ Len(stack) > 0
           /\ Top = stack[Len(stack)] /\ Top \in Frames
           /\ ui # "dead" => Fits(Top)
           /\ ~forgot => Shown(Top.win, Entries(Top))
<1>1. stack \in Seq(Frames) /\ stack # <<>>
  BY DEF BrowserInv, TypeOK
<1>2. Len(stack) \in Nat /\ Len(stack) > 0 /\ stack[Len(stack)] \in Frames
  BY <1>1, StackTop
<1>3. Len(stack) \in 1 .. Len(stack)
  BY <1>2
<1> QED BY <1>1, <1>2, <1>3 DEF BrowserInv, FitsAll, ShownAll, Top

LEMMA Scrolls ==
    ASSUME BrowserInv, NEW w \in Windows
    PROVE  LET f == [Top EXCEPT !.win = w] IN
           /\ Topped(stack, Scroll(w)) /\ Scroll(w)[Len(stack)] = f
           /\ f.dir = Top.dir /\ f.list = Top.list /\ f.win = w
<1> DEFINE t == [stack EXCEPT ![Len(stack)].win = w]
<1>1. stack \in Seq(Frames) /\ stack # <<>> /\ Scroll(w) = t /\ Top = stack[Len(stack)]
  BY TopFacts DEF Scroll
<1>2. /\ Topped(stack, t) /\ t[Len(stack)].dir = stack[Len(stack)].dir
      /\ t[Len(stack)].list = stack[Len(stack)].list /\ t[Len(stack)].win = w
      /\ t[Len(stack)] = [stack[Len(stack)] EXCEPT !.win = w]
  BY <1>1, ScrollTop
<1> HIDE DEF t
<1> QED BY <1>1, <1>2

LEMMA ReadyFacts ==
    ASSUME BrowserInv, NEW e \in Entry
    PROVE  /\ readyResume(e) \in [can : BOOLEAN, slot : Entry \cup {None}]
           /\ readyResume(e).can => HasStates(e)
<1>1. Info[e].game \in Entry /\ ready \in [can : BOOLEAN, slot : Entry \cup {None}]
  BY InfoFacts DEF BrowserInv, TypeOK
<1>2. HasStates(e) \in BOOLEAN
  BY DEF HasStates
<1> HIDE DEF HasStates
<1> QED BY <1>1, <1>2 DEF readyResume

LEMMA RefreshedFacts ==
    ASSUME BrowserInv, ui = "browse", NEW r \in Refreshed(Top.win), Entries(Top) > 0
    PROVE  /\ r \in [can : BOOLEAN, slot : Entry \cup {None}]
           /\ ~should_resume /\ r.can => HasStates(Under(Top))
<1>1. Top \in Frames /\ Fits(Top)
  BY TopFacts
<1>2. Under(Top) \in Entry
  BY <1>1, UnderEntry
<1>3. r = readyResume(Under(Top)) \/ r = ready
  BY DEF Refreshed, Under
<1>4. ready \in [can : BOOLEAN, slot : Entry \cup {None}]
  BY DEF BrowserInv, TypeOK
<1>5. ~should_resume /\ ready.can => HasStates(Under(Top))
  BY DEF BrowserInv, ReadyOK
<1> QED BY <1>2, <1>3, <1>4, <1>5, ReadyFacts

LEMMA ToggleVersionInv == BrowserInv /\ ToggleVersion => BrowserInv'
<1> SUFFICES ASSUME BrowserInv, ToggleVersion PROVE BrowserInv'
  OBVIOUS
<1>1. /\ UNCHANGED <<colls, todo, recents, last, launch, from, stack, restore, ready,
                     should_resume, closed, forgot>>
      /\ ui \in {"browse", "version"} /\ ui' \in {"browse", "version"}
  BY DEF ToggleVersion, fixed, unlaunched
<1>2. TypeOK'
  BY <1>1 DEF BrowserInv, TypeOK
<1>3. RestoreOK' /\ LastOK' /\ LoadingOK' /\ WildOnlyThere'
  BY <1>1 DEF BrowserInv, RestoreOK, Live, LastOK, LoadingOK, WildOnlyThere
<1>4. ReadyOK'
  BY <1>1 DEF BrowserInv, ReadyOK, Top
<1>5. ui \in Live /\ ui # "dead"
  BY <1>1 DEF Live
<1> QED BY <1>1, <1>2, <1>3, <1>4, <1>5 DEF BrowserInv

LEMMA ShoulderInv == BrowserInv /\ ShoulderOnEmpty => BrowserInv'
<1> SUFFICES ASSUME BrowserInv, ShoulderOnEmpty PROVE BrowserInv'
  OBVIOUS
<1>1. /\ UNCHANGED <<colls, todo, recents, last, launch, from, stack, restore, ready,
                     should_resume, closed, forgot>>
      /\ ui' = "dead" /\ Entries(Top) = 0
  BY DEF ShoulderOnEmpty, fixed, unlaunched
<1>2. TypeOK'
  BY <1>1 DEF BrowserInv, TypeOK
<1>3. RestoreOK' /\ LastOK' /\ LoadingOK' /\ ReadyOK'
  BY <1>1 DEF BrowserInv, RestoreOK, Live, LastOK, LoadingOK, ReadyOK
<1>4. WildOnlyThere'
  BY <1>1 DEF WildOnlyThere, Top
<1>5. ui' \notin Live
  BY <1>1 DEF Live
<1> QED BY <1>1, <1>2, <1>3, <1>4, <1>5 DEF BrowserInv

LEMMA MoveInv == BrowserInv /\ Move => BrowserInv'
<1> SUFFICES ASSUME BrowserInv, Move PROVE BrowserInv'
  OBVIOUS
<1>1. UNCHANGED <<colls, todo, recents, last, launch, from, restore, should_resume,
                  closed, forgot>> /\ ui = "browse"
  BY DEF Move, fixed, unlaunched
<1>2. PICK w \in Scrolled(Top) :
         /\ stack' = Scroll(w)
         /\ IF Fits([Top EXCEPT !.win = w])
            THEN UNCHANGED ui /\ ready' \in Refreshed(w)
            ELSE ui' = "dead" /\ UNCHANGED ready
  BY DEF Move
<1>3. /\ stack \in Seq(Frames) /\ stack # <<>> /\ Len(stack) \in Nat /\ Len(stack) > 0
      /\ Top = stack[Len(stack)] /\ Top \in Frames /\ Fits(Top)
      /\ ~forgot => Shown(Top.win, Entries(Top))
  BY <1>1, TopFacts
<1>4. w \in Windows /\ (~forgot => Shown(w, Entries(Top)))
  BY <1>3, ScrolledShown
<1> DEFINE t == stack'
           f == [Top EXCEPT !.win = w]
<1>5. /\ f \in Frames /\ f.dir = Top.dir /\ f.list = Top.list /\ f.win = w
      /\ t \in Seq(Frames) /\ t # <<>> /\ Len(t) = Len(stack) /\ t[Len(t)] = f
      /\ Chained(stack) => Chained(t)
      /\ Nesting(stack) => Nesting(t)
      /\ Current(stack, colls, recents) => Current(t, colls, recents)
      /\ RestoreFor(stack, restore, closed, colls, recents) =>
            RestoreFor(t, restore, closed, colls, recents)
      /\ FitsAll(stack) /\ Fits(f) => FitsAll(t)
      /\ ShownAll(stack) /\ Shown(w, Entries(f)) => ShownAll(t)
  <2>1. Topped(stack, t) /\ t[Len(stack)] = f /\ f.dir = Top.dir /\ f.list = Top.list
        /\ f.win = w
    BY <1>2, <1>4, Scrolls
  <2> HIDE DEF t, f
  <2>2. t \in Seq(Frames) /\ t # <<>> /\ Len(t) = Len(stack) /\ f \in Frames
    BY <1>3, <2>1, StackTop DEF Topped
  <2>3. /\ Chained(stack) => Chained(t)
        /\ FitsAll(stack) /\ Fits(f) => FitsAll(t)
        /\ ShownAll(stack) /\ Shown(w, Entries(f)) => ShownAll(t)
    BY <1>3, <2>1, ToppedKeeps
  <2>4. /\ Nesting(stack) => Nesting(t)
        /\ Current(stack, colls, recents) => Current(t, colls, recents)
        /\ RestoreFor(stack, restore, closed, colls, recents) =>
              RestoreFor(t, restore, closed, colls, recents)
    BY <1>3, <2>1, ListKeeps
  <2> QED BY <2>1, <2>2, <2>3, <2>4
<1>6. Top' = f
  BY <1>5 DEF Top
<1> HIDE DEF f
<1>7. ui \in Live
  BY <1>1 DEF Live
<1>8. CASE Fits(f)
  <2>1. ui' = "browse" /\ ready' \in Refreshed(w)
    BY <1>1, <1>2, <1>8 DEF f
  <2>2. ready' \in [can : BOOLEAN, slot : Entry \cup {None}]
        /\ (~should_resume /\ ready'.can /\ Entries(Top) > 0 => HasStates(Under(f)))
    <3>1. CASE Entries(Top) = 0
      BY <1>3, <2>1, <3>1 DEF Refreshed, BrowserInv, TypeOK
    <3>2. CASE Entries(Top) # 0
      <4>1. Entries(f) > 0
        BY <1>3, <1>5, <3>2, FrameFacts
      <4>2. Under(f) \in Entry
        BY <1>5, <1>8, <4>1, UnderEntry
      <4>3. Top.list[w.selected + 1] = Under(f)
        BY <1>5 DEF Under
      <4>4. ready' = readyResume(Under(f)) \/ (ready' = ready /\ Under(f) = Under(Top))
        BY <2>1, <3>2, <4>3 DEF Refreshed, Under
      <4>5. ~should_resume /\ ready.can /\ Entries(Top) > 0 => HasStates(Under(Top))
        BY <1>1 DEF BrowserInv, ReadyOK
      <4>6. ready \in [can : BOOLEAN, slot : Entry \cup {None}]
        BY DEF BrowserInv, TypeOK
      <4> QED BY <4>2, <4>4, <4>5, <4>6, ReadyFacts
    <3> QED BY <3>1, <3>2
  <2>3. TypeOK'
    BY <1>1, <1>5, <2>1, <2>2 DEF BrowserInv, TypeOK
  <2>4. ReadyOK'
    BY <1>1, <1>5, <1>6, <2>2 DEF ReadyOK
  <2>5. RestoreOK'
    BY <1>1, <1>5, <1>7 DEF BrowserInv, RestoreOK
  <2>6. LastOK' /\ LoadingOK' /\ WildOnlyThere'
    BY <1>1, <2>1 DEF BrowserInv, LastOK, LoadingOK, WildOnlyThere
  <2> QED BY <1>1, <1>4, <1>5, <1>7, <1>8, <2>3, <2>4, <2>5, <2>6 DEF BrowserInv
<1>9. CASE ~Fits(f)
  <2>1. ui' = "dead" /\ ready' = ready
    BY <1>2, <1>9 DEF f
  <2>2. forgot
    BY <1>4, <1>5, <1>9, ShownFits
  <2>3. TypeOK'
    BY <1>1, <1>5, <2>1 DEF BrowserInv, TypeOK
  <2>4. LastOK' /\ LoadingOK' /\ WildOnlyThere' /\ ReadyOK'
    BY <1>1, <2>1, <2>2 DEF BrowserInv, LastOK, LoadingOK, WildOnlyThere, ReadyOK
  <2>5. RestoreOK' /\ ui' \notin Live
    BY <1>1, <1>5, <2>1 DEF BrowserInv, RestoreOK, Live
  <2> QED BY <1>1, <1>5, <2>1, <2>2, <2>3, <2>4, <2>5 DEF BrowserInv
<1> QED BY <1>8, <1>9

-----------------------------------------------------------------------------
(* Leaving minui: last.txt and recent.txt. *)
LEMMA WithoutFacts ==
    ASSUME NEW s \in Seq(Entry), NEW i \in 1 .. Len(s)
    PROVE  /\ Without(s, i) \in Seq(Entry) /\ Len(Without(s, i)) = Len(s) - 1
           /\ \A k \in 1 .. Len(s) - 1 :
                 Without(s, i)[k] = IF k < i THEN s[k] ELSE s[k + 1]
<1> DEFINE a == SubSeq(s, 1, i - 1)
           b == SubSeq(s, i + 1, Len(s))
<1>0. Len(s) \in Nat /\ i \in Nat /\ 1 <= i /\ i <= Len(s)
  OBVIOUS
<1>1. a \in Seq(Entry) /\ Len(a) = i - 1 /\ \A k \in 1 .. i - 1 : a[k] = s[k]
  <2>1. 1 \in 1 .. Len(s) + 1 /\ i - 1 \in 1 - 1 .. Len(s)
    BY <1>0
  <2> QED BY <1>0, <2>1, SubSeqProperties
<1>2. b \in Seq(Entry) /\ Len(b) = Len(s) - i /\ \A k \in 1 .. Len(s) - i : b[k] = s[i + k]
  <2>1. i + 1 \in 1 .. Len(s) + 1 /\ Len(s) \in (i + 1) - 1 .. Len(s)
    BY <1>0
  <2>2. b \in Seq(Entry)
    BY <2>1, SubSeqProperties
  <2>3. Len(b) = Len(s) - (i + 1) + 1
    BY <1>0, <2>1, SubSeqProperties
  <2>4. \A k \in 1 .. Len(s) - (i + 1) + 1 : b[k] = s[(i + 1) + k - 1]
    BY <1>0, <2>1, SubSeqProperties
  <2>5. /\ Len(s) - (i + 1) + 1 = Len(s) - i
        /\ \A k \in 1 .. Len(s) - i : /\ k \in 1 .. Len(s) - (i + 1) + 1
                                      /\ (i + 1) + k - 1 = i + k
    BY <1>0
  <2> HIDE DEF b
  <2> QED BY <2>2, <2>3, <2>4, <2>5
<1>3. Without(s, i) = a \o b
  BY DEF Without
<1> HIDE DEF a, b
<1>4. a \o b \in Seq(Entry) /\ Len(a \o b) = (i - 1) + (Len(s) - i)
      /\ \A k \in 1 .. (i - 1) + (Len(s) - i) :
            (a \o b)[k] = IF k <= i - 1 THEN a[k] ELSE b[k - (i - 1)]
  <2>1. a \o b \in Seq(Entry) /\ Len(a \o b) = Len(a) + Len(b)
        /\ \A k \in 1 .. Len(a) + Len(b) :
              (a \o b)[k] = IF k <= Len(a) THEN a[k] ELSE b[k - Len(a)]
    BY <1>1, <1>2, ConcatProperties
  <2> QED BY <1>1, <1>2, <2>1, Zenon
<1>5. (i - 1) + (Len(s) - i) = Len(s) - 1
  BY <1>0
<1>6. ASSUME NEW k \in 1 .. Len(s) - 1
      PROVE  (a \o b)[k] = IF k < i THEN s[k] ELSE s[k + 1]
  <2>1. CASE k < i
    <3>1. k <= i - 1 /\ k \in 1 .. i - 1
      BY <1>0, <2>1
    <3> QED BY <1>1, <1>4, <1>5, <2>1, <3>1
  <2>2. CASE ~(k < i)
    <3>1. ~(k <= i - 1) /\ k - (i - 1) \in 1 .. Len(s) - i /\ i + (k - (i - 1)) = k + 1
      BY <1>0, <2>2
    <3> QED BY <1>2, <1>4, <1>5, <2>2, <3>1
  <2> QED BY <2>1, <2>2
<1> QED BY <1>3, <1>4, <1>5, <1>6

LEMMA PrefixBare ==
    ASSUME NEW e \in Entry, e # Collections, NEW s \in Seq(Entry), Bare(s)
    PROVE  <<e>> \o s \in Seq(Entry) /\ Bare(<<e>> \o s)
<1>1. <<e>> \in Seq(Entry) /\ Len(<<e>>) = 1 /\ <<e>>[1] = e
  OBVIOUS
<1>2. <<e>> \o s \in Seq(Entry) /\ Len(<<e>> \o s) = 1 + Len(s)
  BY <1>1, ConcatProperties
<1>3. \A k \in 1 .. 1 + Len(s) :
         (<<e>> \o s)[k] = IF k <= 1 THEN <<e>>[k] ELSE s[k - 1]
  BY <1>1, ConcatProperties
<1>4. \A k \in 1 .. 1 + Len(s) : k = 1 \/ (~(k <= 1) /\ k - 1 \in 1 .. Len(s))
  BY LenProperties
<1> QED BY <1>1, <1>2, <1>3, <1>4 DEF Bare

LEMMA RecentsBare ==
    ASSUME recents \in Seq(Entry), Bare(recents), NEW e \in Entry, e # Collections,
           addRecent(e)
    PROVE  recents' \in Seq(Entry) /\ Bare(recents')
<1> DEFINE listed == {i \in DOMAIN recents : recents[i] = e}
           room == IF Len(recents) < MAX_RECENTS
                   THEN recents ELSE SubSeq(recents, 1, MAX_RECENTS - 1)
<1>1. CASE recents' = <<e>> \o room
  <2>1. room \in Seq(Entry) /\ Bare(room)
    <3>1. CASE Len(recents) < MAX_RECENTS
      BY <3>1
    <3>2. CASE ~(Len(recents) < MAX_RECENTS)
      <4>1. MAX_RECENTS - 1 \in 0 .. Len(recents) /\ Len(recents) \in Nat
        BY <3>2, BoundsAssumption DEF BoundsAssumption
      <4> DEFINE m == MAX_RECENTS - 1
      <4>2. SubSeq(recents, 1, m) \in Seq(Entry) /\ Len(SubSeq(recents, 1, m)) = m
            /\ \A k \in 1 .. m : SubSeq(recents, 1, m)[k] = recents[k]
        <5> HIDE DEF m
        <5>1. 1 \in 1 .. Len(recents) + 1 /\ m \in 1 - 1 .. Len(recents)
          BY <4>1 DEF m
        <5> QED BY <4>1, <5>1, SubSeqProperties
      <4>3. room = SubSeq(recents, 1, m) /\ 1 .. m \subseteq 1 .. Len(recents)
        BY <3>2, <4>1
      <4> QED BY <4>2, <4>3 DEF Bare
    <3> QED BY <3>1, <3>2
  <2> HIDE DEF room
  <2> QED BY <1>1, <2>1, PrefixBare
<1>2. CASE \E i \in listed : recents' = <<e>> \o Without(recents, i)
  <2>0. listed \subseteq 1 .. Len(recents)
    OBVIOUS
  <2> HIDE DEF listed
  <2>1. PICK i \in 1 .. Len(recents) : recents' = <<e>> \o Without(recents, i)
    BY <1>2, <2>0
  <2>2. Without(recents, i) \in Seq(Entry) /\ Len(Without(recents, i)) = Len(recents) - 1
        /\ \A k \in 1 .. Len(recents) - 1 :
              Without(recents, i)[k] = IF k < i THEN recents[k] ELSE recents[k + 1]
    BY WithoutFacts
  <2>3. \A k \in 1 .. Len(recents) - 1 : k \in 1 .. Len(recents) /\ k + 1 \in 1 .. Len(recents)
    BY LenProperties
  <2>4. Bare(Without(recents, i))
    BY <2>2, <2>3 DEF Bare
  <2> QED BY <2>1, <2>2, <2>4, PrefixBare
<1> HIDE DEF room
<1> QED BY <1>1, <1>2 DEF addRecent, room

LEMMA PathFits ==
    ASSUME NEW e \in Entry
    PROVE  /\ PathOf(e) \in Paths /\ PathOf(e).file = None
           /\ \A i \in 1 .. Len(PathOf(e).path) :
                 i < Len(PathOf(e).path) => Info[PathOf(e).path[i]].type = "dir"
<1>1. Info[e].path \in Seq(Entry)
  BY InfoFacts
<1>2. \A i \in 1 .. Len(Info[e].path) :
         i < Len(Info[e].path) => Info[Info[e].path[i]].type = "dir"
  BY <1>1, TreeAssumption DEF TreeAssumption
<1> QED BY <1>1, <1>2 DEF PathOf, Paths

LEMMA SavedLast ==
    ASSUME Top.dir \in Entry \cup {None}, NEW p \in Paths, saveLast(p),
           \A i \in 1 .. Len(p.path) :
              i < Len(p.path) \/ p.file # None => Info[p.path[i]].type = "dir",
           p.file # None => Len(p.path) <= 2
    PROVE  last' \in Paths /\ LastOK'
<1>1. Recents \in Entry
  BY CardAssumption DEF CardAssumption
<1>2. last' = p \/ last' = PathOf(Recents)
  BY DEF saveLast
<1>3. CASE last' = p
  BY <1>3 DEF LastOK
<1>4. CASE last' = PathOf(Recents)
  BY <1>1, <1>4, PathFits DEF LastOK
<1> QED BY <1>2, <1>3, <1>4

LEMMA Quits ==
    ASSUME BrowserInv, ui # "dead", ui' = "quit",
           UNCHANGED <<colls, todo, stack, restore, closed, forgot>>,
           TypeOK', LastOK', Bare(recents')
    PROVE  BrowserInv'
<1>1. RestoreOK' /\ LoadingOK' /\ ReadyOK' /\ WildOnlyThere'
  BY DEF BrowserInv, RestoreOK, Live, LoadingOK, ReadyOK, WildOnlyThere
<1>2. ui' \notin Live
  BY DEF Live
<1> QED BY <1>1, <1>2 DEF BrowserInv

LEMMA HDMIChangeInv == BrowserInv /\ HDMIChange => BrowserInv'
<1> SUFFICES ASSUME BrowserInv, HDMIChange PROVE BrowserInv'
  OBVIOUS
<1>1. /\ UNCHANGED <<colls, todo, recents, stack, restore, ready, should_resume, launch,
                     closed, forgot>>
      /\ ui # "dead"
  BY DEF HDMIChange, fixed
<1>2. Top \in Frames /\ Fits(Top) /\ Top.dir \in Entry \cup {None} /\ Len(Top.list) \in Nat
  BY <1>1, TopFacts, FrameFacts
<1>3. CASE Entries(Top) = 0
  <2>1. ui' = "dead" /\ UNCHANGED <<last, from>>
    BY <1>3 DEF HDMIChange
  <2>2. TypeOK'
    BY <1>1, <2>1 DEF BrowserInv, TypeOK
  <2>3. RestoreOK' /\ LastOK' /\ LoadingOK' /\ ReadyOK'
    BY <1>1, <2>1 DEF BrowserInv, RestoreOK, Live, LastOK, LoadingOK, ReadyOK
  <2>4. WildOnlyThere'
    BY <1>1, <1>3 DEF WildOnlyThere, Top
  <2>5. ui' \notin Live
    BY <2>1 DEF Live
  <2> QED BY <1>1, <2>1, <2>2, <2>3, <2>4, <2>5 DEF BrowserInv
<1>4. CASE Entries(Top) # 0
  <2> DEFINE e == Under(Top)
  <2>1. e \in Entry
    BY <1>2, <1>4, UnderEntry
  <2>2. /\ saveLast(PathOf(e)) /\ ui' = "quit"
        /\ from' = [dir |-> Top.dir, entry |-> e, why |-> "cable"]
    BY <1>4 DEF HDMIChange
  <2> HIDE DEF e
  <2>3. last' \in Paths /\ LastOK'
    BY <1>2, <2>1, <2>2, PathFits, SavedLast
  <2>4. from' \in Places \cup {None}
    BY <1>2, <2>1, <2>2 DEF Places
  <2>5. TypeOK'
    BY <1>1, <2>2, <2>3, <2>4 DEF BrowserInv, TypeOK
  <2>6. Bare(recents')
    BY <1>1 DEF BrowserInv
  <2> QED BY <1>1, <2>2, <2>3, <2>5, <2>6, Quits
<1> QED BY <1>3, <1>4

LEMMA OpenPakInv == BrowserInv /\ OpenPak => BrowserInv'
<1> SUFFICES ASSUME BrowserInv, OpenPak PROVE BrowserInv'
  OBVIOUS
<1>1. /\ UNCHANGED <<colls, todo, stack, restore, should_resume, closed, forgot>>
      /\ ui = "browse" /\ Entries(Top) > 0
  BY DEF OpenPak, fixed, Pressable
<1>2. Top \in Frames /\ Fits(Top) /\ Top.dir \in Entry \cup {None}
  BY <1>1, TopFacts, FrameFacts
<1> DEFINE e == Under(Top)
<1>3. e \in Entry
  BY <1>1, <1>2, UnderEntry
<1>4. ready' \in [can : BOOLEAN, slot : Entry \cup {None}]
  <2>1. ready' \in Refreshed(Top.win)
    BY DEF OpenPak
  <2> QED BY <1>1, <2>1, RefreshedFacts
<1>5. /\ Info[e].type = "pak" /\ (addRecent(e) \/ UNCHANGED recents)
      /\ saveLast(PathOf(e)) /\ ui' = "quit" /\ launch' = NoLaunch
      /\ from' = [dir |-> Top.dir, entry |-> e, why |-> "tool"]
  BY DEF OpenPak, openPak
<1> HIDE DEF e
<1>6. e # Collections
  BY <1>5, NestingAssumption DEF NestingAssumption
<1>7. recents' \in Seq(Entry) /\ Bare(recents')
  <2>1. recents \in Seq(Entry) /\ Bare(recents)
    BY DEF BrowserInv, TypeOK
  <2> QED BY <1>3, <1>5, <1>6, <2>1, RecentsBare
<1>8. last' \in Paths /\ LastOK'
  BY <1>2, <1>3, <1>5, PathFits, SavedLast
<1>9. from' \in Places \cup {None}
  BY <1>2, <1>3, <1>5 DEF Places
<1>10. launch' \in [by : {"A", "RESUME"}, slot : {"default", "noted", "garbage"}]
  BY <1>5 DEF NoLaunch
<1>11. TypeOK'
  BY <1>1, <1>4, <1>5, <1>7, <1>8, <1>9, <1>10 DEF BrowserInv, TypeOK
<1> QED BY <1>1, <1>5, <1>7, <1>8, <1>11, Quits

LEMMA RomLastFits ==
    ASSUME Top.dir \in Entry \cup {None}, NEW e \in Entry, NEW sd \in Entry
    PROVE  LET p == RomLast(e, sd) IN
           /\ p \in Paths
           /\ \A i \in 1 .. Len(p.path) :
                 i < Len(p.path) \/ p.file # None => Info[p.path[i]].type = "dir"
           /\ p.file # None => Len(p.path) <= 2
<1>1. CASE RomLast(e, sd) \in {PathOf(e), PathOf(sd)}
  BY <1>1, PathFits
<1>2. CASE /\ InCollections(Top.dir)
           /\ RomLast(e, sd) = [path |-> Info[Top.dir].path, file |-> Info[e].file]
  <2>1. Top.dir \in Entry /\ Info[Top.dir].path # <<>> /\ Info[Top.dir].path[1] = Collections
    BY <1>2 DEF InCollections
  <2>2. Info[Top.dir].path \in Seq(Entry) /\ Info[e].file \in Entry
    BY <2>1, InfoFacts
  <2>3. /\ \A i \in 1 .. Len(Info[Top.dir].path) : Info[Info[Top.dir].path[i]].type = "dir"
        /\ Len(Info[Top.dir].path) <= 2
    BY <2>1, <2>2, TreeAssumption DEF TreeAssumption
  <2> QED BY <1>2, <2>2, <2>3 DEF Paths
<1> QED BY <1>1, <1>2 DEF RomLast

LEMMA OpenRomInv == BrowserInv /\ OpenRom => BrowserInv'
<1> SUFFICES ASSUME BrowserInv, OpenRom PROVE BrowserInv'
  OBVIOUS
<1>1. /\ UNCHANGED <<colls, todo, stack, restore, closed, forgot>>
      /\ ui = "browse" /\ Entries(Top) > 0
  BY DEF OpenRom, fixed, Pressable
<1>2. Top \in Frames /\ Fits(Top) /\ Top.dir \in Entry \cup {None}
  BY <1>1, TopFacts, FrameFacts
<1> DEFINE e == Under(Top)
<1>3. e \in Entry
  BY <1>1, <1>2, UnderEntry
<1>0. PICK r \in Refreshed(Top.win) : \E by \in Buttons(r) :
         (Info[e].type = "rom" \/ Info[e].auto = "run") /\ openRom(e, by, r)
  BY DEF OpenRom
<1>4. PICK by \in Buttons(r) :
         (Info[e].type = "rom" \/ Info[e].auto = "run") /\ openRom(e, by, r)
  BY <1>0
<1>5. r \in [can : BOOLEAN, slot : Entry \cup {None}] /\ by \in {"A", "RESUME"}
  BY <1>1, <1>4, RefreshedFacts DEF Buttons
<1>6. Info[e].auto \in {"none", "run", "dead"} /\ Info[e].game \in Entry
      /\ Info[e].disc \in Entry /\ Info[e].emu \in BOOLEAN
  BY <1>3, InfoFacts
<1>7. HasStates(e)
  BY <1>4, <1>6 DEF HasStates
<1>8. should_resume' = FALSE
  BY <1>4 DEF openRom, ConsumeFlag
<1>9. CASE ~Info[e].emu
  <2>1. /\ ready' = readyResume(e) \/ ready' = r
        /\ UNCHANGED <<recents, last, ui, launch, from>>
    BY <1>4, <1>9 DEF openRom
  <2>2. ready' \in [can : BOOLEAN, slot : Entry \cup {None}]
    BY <1>3, <1>5, <2>1, ReadyFacts
  <2>3. TypeOK'
    BY <1>1, <1>8, <2>1, <2>2 DEF BrowserInv, TypeOK
  <2>4. ReadyOK'
    <3>1. Top' = Top
      BY <1>1 DEF Top
    <3> QED BY <1>7, <3>1 DEF ReadyOK
  <2>5. RestoreOK' /\ LastOK' /\ LoadingOK' /\ WildOnlyThere'
    BY <1>1, <2>1 DEF BrowserInv, RestoreOK, LastOK, LoadingOK, WildOnlyThere
  <2> QED BY <1>1, <2>1, <2>3, <2>4, <2>5 DEF BrowserInv
<1>10. CASE Info[e].emu
  <2> DEFINE resume == by = "RESUME" \/ should_resume
  <2>1. PICK sd \in DiscsFor(e, resume) : saveLast(RomLast(e, sd))
    BY <1>4, <1>10 DEF openRom
  <2>2. /\ addRecent(Info[e].game) /\ launch' = [by |-> by, slot |-> SlotFor(r, resume)]
        /\ from' = [dir |-> Top.dir, entry |-> e, why |-> "game"] /\ ui' = "quit" /\ ready' = r
    BY <1>4, <1>10 DEF openRom
  <2> HIDE DEF resume, e
  <2>3. sd \in Entry
    BY <1>6, <2>1 DEF DiscsFor
  <2>4. last' \in Paths /\ LastOK'
    <3> DEFINE p == RomLast(e, sd)
    <3>1. /\ p \in Paths
          /\ \A i \in 1 .. Len(p.path) :
                i < Len(p.path) \/ p.file # None => Info[p.path[i]].type = "dir"
          /\ p.file # None => Len(p.path) <= 2
      BY <1>2, <1>3, <2>3, RomLastFits
    <3>2. saveLast(p)
      BY <2>1
    <3> HIDE DEF p
    <3> QED BY <1>2, <3>1, <3>2, SavedLast
  <2>5. Info[e].game # Collections
    BY <1>3, <1>7, NestingAssumption DEF NestingAssumption
  <2>6. recents' \in Seq(Entry) /\ Bare(recents')
    <3>1. recents \in Seq(Entry) /\ Bare(recents)
      BY DEF BrowserInv, TypeOK
    <3> QED BY <1>6, <2>2, <2>5, <3>1, RecentsBare
  <2>7. launch' \in [by : {"A", "RESUME"}, slot : {"default", "noted", "garbage"}]
    BY <1>5, <2>2 DEF SlotFor
  <2>8. from' \in Places \cup {None}
    BY <1>2, <1>3, <2>2 DEF Places
  <2>9. TypeOK'
    BY <1>1, <1>5, <1>8, <2>2, <2>4, <2>6, <2>7, <2>8 DEF BrowserInv, TypeOK
  <2> QED BY <1>1, <2>2, <2>4, <2>6, <2>9, Quits
<1> QED BY <1>9, <1>10

-----------------------------------------------------------------------------
(* Opening and closing directories. *)
LEMMA OpenedFacts ==
    ASSUME BrowserInv, NEW st, NEW d \in Entry
    PROVE  LET f == Opened(st, d) IN
           /\ f \in Frames /\ f.dir = d /\ f.list = Listed(d, colls, recents)
           /\ Bare(f.list)
           /\ f.win = restore.win \/ f.win = [restore.win EXCEPT !.end = Rows(Len(f.list))]
              \/ f.win = First(Len(f.list))
           /\ ~SamePlace(st) => f.win = First(Len(f.list))
           /\ SamePlace(st) /\ restore.win.end # 0 => f.win = restore.win
<1> DEFINE l == Listed(d, colls, recents)
<1>1. l \in Seq(Entry) /\ Bare(l)
  BY ListedFacts DEF BrowserInv, CollsOK, TypeOK
<1>2. Directory_new(d) = l
  BY Listing
<1>3. Rows(Len(l)) \in Int
  BY <1>1, RowsRange
<1>4. restore.win \in Windows /\ Window(0, 0, 0) \in Windows
  BY DEF BrowserInv, TypeOK, Window, Windows
<1> HIDE DEF l
<1> DEFINE w == IF SamePlace(st) THEN restore.win ELSE Window(0, 0, 0)
           v == IF w.end # 0 THEN w ELSE [w EXCEPT !.end = Rows(Len(l))]
<1>5. Opened(st, d) = [dir |-> d, list |-> l, win |-> v]
  BY <1>2 DEF Opened
<1>6. v \in Windows
  BY <1>3, <1>4 DEF Windows
<1>7. ~SamePlace(st) => v = First(Len(l))
  BY DEF First, Window
<1>8. v = restore.win \/ v = [restore.win EXCEPT !.end = Rows(Len(l))] \/ v = First(Len(l))
  BY <1>7
<1>9. SamePlace(st) /\ restore.win.end # 0 => v = restore.win
  OBVIOUS
<1> HIDE DEF v
<1> QED BY <1>1, <1>5, <1>6, <1>7, <1>8, <1>9 DEF Frames, l

LEMMA OpenedShown ==
    ASSUME BrowserInv, ui = "browse", ~forgot, Entries(Top) > 0
    PROVE  LET f == Opened(stack, Under(Top)) IN
           /\ Shown(f.win, Entries(f))
           /\ Under(Top) = closed \/ f.win = First(Entries(f))
<1> DEFINE e == Under(Top)
           f == Opened(stack, e)
<1>1. Top \in Frames /\ Fits(Top) /\ Top = stack[Len(stack)]
  BY TopFacts
<1>2. e \in Entry /\ Top.win.selected \in 0 .. Entries(Top) - 1
  BY <1>1, UnderEntry
<1>3. /\ f \in Frames /\ f.dir = e /\ f.list = Listed(e, colls, recents)
      /\ ~SamePlace(stack) => f.win = First(Len(f.list))
      /\ SamePlace(stack) /\ restore.win.end # 0 => f.win = restore.win
  BY <1>2, OpenedFacts
<1>4. Len(f.list) \in Nat
  BY <1>3, FrameFacts
<1>5. CASE ~SamePlace(stack)
  <2> DEFINE n == Len(f.list)
  <2>1. f.win = First(n) /\ n \in Nat
    BY <1>3, <1>4, <1>5
  <2> HIDE DEF f, n
  <2>2. Shown(f.win, n)
    BY <2>1, FirstShown
  <2> QED BY <2>1, <2>2 DEF f, n
<1>6. CASE SamePlace(stack)
  <2>1. restore.depth = Len(stack) /\ Top.win.selected = restore.relative
    BY <1>1, <1>6 DEF SamePlace
  <2>2. RestoreFor(stack, restore, closed, colls, recents)
    BY DEF BrowserInv, RestoreOK, Live
  <2>3. Top.list[restore.relative + 1] = closed /\ Shown(restore.win, Len(Listed(closed, colls, recents)))
    BY <1>1, <1>2, <2>1, <2>2 DEF RestoreFor
  <2>4. e = closed
    BY <2>1, <2>3 DEF Under
  <2> HIDE DEF e, f
  <2>5. Shown(restore.win, Len(f.list))
    BY <1>3, <2>3, <2>4
  <2>6. Shown(f.win, Len(f.list))
    <3>1. CASE Len(f.list) = 0
      BY <3>1 DEF Shown
    <3>2. CASE Len(f.list) # 0
      <4>1. restore.win \in Windows
        BY DEF BrowserInv, TypeOK
      <4>2. Len(f.list) > 0
        BY <1>4, <3>2
      <4>3. restore.win.end # 0
        BY <2>5, <4>1, <4>2 DEF Shown, Windows
      <4> QED BY <1>3, <1>6, <2>5, <4>3
    <3> QED BY <3>1, <3>2
  <2> QED BY <2>4, <2>6 DEF e, f
<1> QED BY <1>5, <1>6

LEMMA OpenDirectoryInv == BrowserInv /\ OpenDirectory => BrowserInv'
<1> SUFFICES ASSUME BrowserInv, OpenDirectory PROVE BrowserInv'
  OBVIOUS
<1> DEFINE e == Under(Top)
           f == Opened(stack, e)
<1>1. /\ UNCHANGED <<colls, todo, recents, last, launch, from, restore, closed, forgot>>
      /\ ui = "browse" /\ Entries(Top) > 0
  BY DEF OpenDirectory, fixed, unlaunched, Pressable
<1>0. PICK r \in Refreshed(Top.win) : \E by \in Buttons(r) :
         /\ stack' = Append(stack, f)
         /\ should_resume' = (should_resume \/ by = "RESUME")
         /\ ready' = IF by = "A" THEN AfterPress(f, r) ELSE r
         /\ ui' = IF Fits(f) THEN "browse" ELSE "dead"
  BY DEF OpenDirectory
<1>2. PICK by \in Buttons(r) :
         /\ stack' = Append(stack, f)
         /\ should_resume' = (should_resume \/ by = "RESUME")
         /\ ready' = IF by = "A" THEN AfterPress(f, r) ELSE r
         /\ ui' = IF Fits(f) THEN "browse" ELSE "dead"
  BY <1>0
<1>3. /\ stack \in Seq(Frames) /\ stack # <<>> /\ Len(stack) \in Nat /\ Len(stack) > 0
      /\ Top = stack[Len(stack)] /\ Top \in Frames /\ Fits(Top)
  BY <1>1, TopFacts
<1>4. e \in Entry /\ Top.win.selected \in 0 .. Entries(Top) - 1
  BY <1>1, <1>3, UnderEntry
<1>5. f \in Frames /\ f.dir = e /\ f.list = Listed(e, colls, recents) /\ Bare(f.list)
  BY <1>4, OpenedFacts
<1>6. ~forgot => Shown(f.win, Entries(f))
  BY <1>1, OpenedShown
<1>7. by \in {"A", "RESUME"} /\ r \in [can : BOOLEAN, slot : Entry \cup {None}]
  BY <1>1, <1>2, RefreshedFacts DEF Buttons
<1> HIDE DEF f
<1> DEFINE t == stack'
<1>8. /\ t \in Seq(Frames) /\ t # <<>> /\ Len(t) = Len(stack) + 1 /\ t[Len(t)] = f
      /\ Chained(t) /\ Nesting(t)
      /\ Current(stack, colls, recents) => Current(t, colls, recents)
      /\ Fits(f) => FitsAll(t)
      /\ ~forgot => ShownAll(t)
  <2>1. Chained(stack) /\ Nesting(stack) /\ FitsAll(stack) /\ (~forgot => ShownAll(stack))
    BY <1>1 DEF BrowserInv
  <2>2. Under(stack[Len(stack)]) = f.dir
        /\ stack[Len(stack)].win.selected \in 0 .. Entries(stack[Len(stack)]) - 1
    BY <1>3, <1>4, <1>5
  <2>3. Pushed(stack, f, t)
    BY <1>2, <1>3, <1>5, AppendPushes
  <2> HIDE DEF t
  <2>4. t \in Seq(Frames) /\ t # <<>> /\ Len(t) = Len(stack) + 1 /\ t[Len(t)] = f
    BY <2>3 DEF Pushed
  <2>5. Chained(t) /\ Nesting(t)
    BY <1>3, <1>4, <1>5, <2>1, <2>2, <2>3, PushTop
  <2>6. /\ Current(stack, colls, recents) => Current(t, colls, recents)
        /\ Fits(f) => FitsAll(t)
        /\ ~forgot => ShownAll(t)
    BY <1>3, <1>5, <1>6, <2>1, <2>3, PushTop
  <2> QED BY <2>4, <2>5, <2>6
<1>9. Top' = f
  BY <1>8 DEF Top
<1>10. ready' \in [can : BOOLEAN, slot : Entry \cup {None}]
       /\ (~should_resume' /\ Fits(f) /\ ready'.can /\ Entries(f) > 0 => HasStates(Under(f)))
  <2>1. CASE Entries(f) > 0 /\ Fits(f) /\ by = "A"
    <3>1. ready' = readyResume(Under(f)) /\ Under(f) \in Entry
      BY <1>2, <1>5, <2>1, UnderEntry DEF AfterPress
    <3> QED BY <3>1, ReadyFacts
  <2>2. CASE ~(Entries(f) > 0 /\ Fits(f)) \/ by # "A"
    <3>1. ready' = r
      BY <1>2, <2>2 DEF AfterPress
    <3>2. by # "A" => should_resume'
      BY <1>2, <1>7
    <3> QED BY <1>7, <2>2, <3>1, <3>2
  <2> QED BY <2>1, <2>2
<1>11. should_resume' \in BOOLEAN
  BY <1>2
<1>12. TypeOK'
  BY <1>1, <1>2, <1>8, <1>10, <1>11 DEF BrowserInv, TypeOK
<1>13. RestoreOK'
  <2>1. restore.depth <= Len(stack) /\ restore.depth \in Int
    BY DEF BrowserInv, RestoreOK, TypeOK
  <2>2. restore.depth <= Len(t) /\ restore.depth # Len(t)
    BY <1>3, <1>8, <2>1
  <2> QED BY <1>1, <2>2 DEF RestoreOK, RestoreFor
<1>14. LastOK' /\ LoadingOK'
  BY <1>1, <1>2 DEF BrowserInv, LastOK, LoadingOK
<1>15. ReadyOK'
  BY <1>2, <1>9, <1>10 DEF ReadyOK
<1>16. WildOnlyThere'
  BY <1>1, <1>2, <1>5, <1>6, ShownFits DEF WildOnlyThere
<1>17. ui \in Live /\ (ui' # "dead" => Fits(f))
  BY <1>1, <1>2 DEF Live
<1> QED BY <1>1, <1>8, <1>12, <1>13, <1>14, <1>15, <1>16, <1>17 DEF BrowserInv

LEMMA Closes ==
    ASSUME NEW st \in Seq(Frames), Len(st) > 1, Chained(st), closeDirectory(st),
           NEW c, NEW r,
           Shown(st[Len(st)].win, Len(Listed(st[Len(st)].dir, c, r)))
    PROVE  /\ Popped(st, stack') /\ restore'.depth = Len(stack')
           /\ Len(stack') = Len(st) - 1 /\ stack'[Len(stack')] = st[Len(st) - 1]
           /\ restore' \in [depth : Int, relative : Int, win : Windows]
           /\ closed' \in Entry \cup {None}
           /\ RestoreFor(stack', restore', closed', c, r)
<1>1. Len(st) \in Nat /\ Len(st) - 1 \in 1 .. Len(st) - 1 /\ (Len(st) - 1) + 1 = Len(st)
      /\ Len(st) - 1 \in 1 .. Len(st) /\ Len(st) \in 1 .. Len(st)
  OBVIOUS
<1>2. st[Len(st)] \in Frames /\ st[Len(st) - 1] \in Frames
  BY <1>1, ElementOfSeq
<1>3. Popped(st, stack')
  BY PopPops DEF closeDirectory
<1>4. Len(stack') = Len(st) - 1 /\ stack'[Len(stack')] = st[Len(st) - 1]
  BY <1>1, <1>3 DEF Popped
<1>5. restore' = [depth |-> Len(st) - 1, relative |-> st[Len(st) - 1].win.selected,
                  win |-> st[Len(st)].win]
      /\ closed' = st[Len(st)].dir
  BY DEF closeDirectory
<1>6. restore'.depth = Len(st) - 1 /\ restore'.relative = st[Len(st) - 1].win.selected
      /\ restore'.win = st[Len(st)].win
  BY <1>5
<1>7. restore' \in [depth : Int, relative : Int, win : Windows]
  BY <1>1, <1>2, <1>5, FrameFacts
<1>8. closed' \in Entry \cup {None}
  BY <1>2, <1>5, FrameFacts
<1>9. Under(st[Len(st) - 1]) = st[Len(st)].dir
  BY <1>1 DEF Chained
<1>10. RestoreFor(stack', restore', closed', c, r)
  BY <1>4, <1>5, <1>6, <1>9 DEF RestoreFor, Under
<1> QED BY <1>3, <1>4, <1>6, <1>7, <1>8, <1>10

LEMMA CloseDirectoryInv == BrowserInv /\ CloseDirectory => BrowserInv'
<1> SUFFICES ASSUME BrowserInv, CloseDirectory PROVE BrowserInv'
  OBVIOUS
<1>1. /\ UNCHANGED <<colls, todo, recents, last, launch, from, ui, should_resume, forgot>>
      /\ ui = "browse" /\ Len(stack) > 1 /\ closeDirectory(stack)
      /\ ready' = AfterPress(stack[Len(stack) - 1], ready)
  BY DEF CloseDirectory, fixed, unlaunched
<1>2. /\ stack \in Seq(Frames) /\ stack # <<>> /\ Len(stack) \in Nat
      /\ Top = stack[Len(stack)] /\ Top \in Frames /\ Fits(Top)
      /\ ~forgot => Shown(Top.win, Entries(Top))
  BY <1>1, TopFacts
<1>3. /\ Chained(stack) /\ Nesting(stack) /\ Current(stack, colls, recents)
      /\ FitsAll(stack) /\ (~forgot => ShownAll(stack))
  BY <1>1 DEF BrowserInv, Live
<1> DEFINE k == Len(stack) - 1
<1>4. k \in 1 .. Len(stack) - 1 /\ k \in 1 .. Len(stack) /\ Len(stack) \in 2 .. Len(stack)
  BY <1>1, <1>2
<1>5. Top.list = Listed(Top.dir, colls, recents)
  BY <1>2, <1>3, <1>4 DEF Current
<1>6. /\ Popped(stack, stack') /\ restore'.depth = Len(stack')
      /\ Len(stack') = k /\ stack'[Len(stack')] = stack[k]
      /\ restore' \in [depth : Int, relative : Int, win : Windows]
      /\ closed' \in Entry \cup {None}
      /\ ~forgot => RestoreFor(stack', restore', closed', colls, recents)
  <2>1. CASE forgot
    <3>1. Popped(stack, stack')
      BY <1>1, <1>2, PopPops DEF closeDirectory
    <3>2. Len(stack') = k /\ stack'[Len(stack')] = stack[k]
      BY <1>4, <3>1 DEF Popped
    <3>3. restore' = [depth |-> k, relative |-> stack[k].win.selected, win |-> Top.win]
          /\ closed' = Top.dir
      BY <1>1, <1>2 DEF closeDirectory
    <3>4. stack[k] \in Frames /\ k \in Int
      BY <1>2, <1>4, StackTop
    <3> HIDE DEF k
    <3> QED BY <1>2, <2>1, <3>1, <3>2, <3>3, <3>4, FrameFacts
  <2>2. CASE ~forgot
    BY <1>1, <1>2, <1>3, <1>5, <2>2, Closes
  <2> QED BY <2>1, <2>2
<1>7. /\ Chained(stack') /\ Nesting(stack') /\ Current(stack', colls, recents)
      /\ FitsAll(stack') /\ (~forgot => ShownAll(stack'))
  BY <1>1, <1>2, <1>3, <1>6, PopTop
<1>8. stack' \in Seq(Frames) /\ stack' # <<>>
  BY <1>6 DEF Popped
<1>9. Top' = stack[k]
  BY <1>6 DEF Top
<1>10. stack[k] \in Frames /\ Fits(stack[k])
       /\ stack[k].win.selected \in 0 .. Entries(stack[k]) - 1
  BY <1>2, <1>3, <1>4, StackTop DEF FitsAll, Chained
<1> HIDE DEF k
<1>11. Entries(stack[k]) > 0
  <2> DEFINE g == stack[k]
             n == Len(g.list)
             z == g.win.selected
  <2>1. n \in Nat /\ z \in 0 .. n - 1
    BY <1>10, FrameFacts
  <2> HIDE DEF n, z
  <2>2. n > 0
    BY <2>1
  <2> QED BY <2>2 DEF n
<1>12. Under(stack[k]) \in Entry
  BY <1>10, <1>11, UnderEntry
<1>13. ready' = readyResume(Under(stack[k]))
  BY <1>1, <1>10, <1>11 DEF AfterPress, k
<1>14. ready' \in [can : BOOLEAN, slot : Entry \cup {None}]
       /\ (ready'.can => HasStates(Under(stack[k])))
  BY <1>12, <1>13, ReadyFacts
<1>15. TypeOK'
  BY <1>1, <1>6, <1>8, <1>14 DEF BrowserInv, TypeOK
<1>16. ReadyOK'
  BY <1>9, <1>14 DEF ReadyOK
<1>17. RestoreOK'
  <2>1. Len(stack') \in Nat
    BY <1>8
  <2> QED BY <1>1, <1>6, <2>1 DEF RestoreOK
<1>18. LastOK' /\ LoadingOK' /\ WildOnlyThere'
  BY <1>1 DEF BrowserInv, LastOK, LoadingOK, WildOnlyThere
<1> QED BY <1>1, <1>7, <1>15, <1>16, <1>17, <1>18 DEF BrowserInv

LEMMA LoadDoneInv == BrowserInv /\ LoadDone => BrowserInv'
<1> SUFFICES ASSUME BrowserInv, LoadDone PROVE BrowserInv'
  OBVIOUS
<1>1. /\ UNCHANGED <<colls, todo, recents, last, launch, from, stack, restore,
                     should_resume, closed, forgot>>
      /\ ui = "loading" /\ ui' = "browse" /\ ready' = AfterPress(Top, ready)
  BY DEF LoadDone, fixed, unlaunched
<1>2. Top \in Frames /\ Fits(Top) /\ Top' = Top
  BY <1>1, TopFacts DEF Top
<1>3. ready' \in [can : BOOLEAN, slot : Entry \cup {None}]
      /\ (ready'.can /\ Entries(Top) > 0 => HasStates(Under(Top)))
  <2>1. CASE Entries(Top) > 0
    BY <1>1, <1>2, <2>1, UnderEntry, ReadyFacts DEF AfterPress
  <2>2. CASE ~(Entries(Top) > 0)
    BY <1>1, <2>2 DEF AfterPress, BrowserInv, TypeOK
  <2> QED BY <2>1, <2>2
<1>4. TypeOK'
  BY <1>1, <1>3 DEF BrowserInv, TypeOK
<1>5. ReadyOK'
  BY <1>2, <1>3 DEF ReadyOK
<1>6. RestoreOK' /\ LastOK' /\ LoadingOK' /\ WildOnlyThere'
  BY <1>1 DEF BrowserInv, RestoreOK, Live, LastOK, LoadingOK, WildOnlyThere
<1>7. ui \in Live
  BY <1>1 DEF Live
<1> QED BY <1>1, <1>4, <1>5, <1>6, <1>7 DEF BrowserInv

(* Collections is opened from the root only. *)
LEMMA CollectionsSecond ==
    ASSUME BrowserInv, Len(stack) > 1, Top.dir = Collections
    PROVE  Len(stack) = 2
<1>1. stack \in Seq(Frames) /\ Len(stack) \in Nat /\ Top = stack[Len(stack)]
  BY TopFacts
<1> DEFINE k == Len(stack) - 1
<1>2. k \in 1 .. Len(stack) - 1 /\ k \in 1 .. Len(stack) /\ k + 1 = Len(stack)
  BY <1>1
<1> SUFFICES ASSUME Len(stack) # 2 PROVE FALSE
  OBVIOUS
<1>3. k \in 2 .. Len(stack)
  <2>1. \A m \in Nat : m > 1 /\ m # 2 => m - 1 \in 2 .. m
    OBVIOUS
  <2> QED BY <1>1, <2>1
<1> HIDE DEF k
<1>4. Bare(stack[k].list) /\ Under(stack[k]) = Collections
      /\ stack[k].win.selected \in 0 .. Entries(stack[k]) - 1
  BY <1>1, <1>2, <1>3 DEF BrowserInv, Nesting, Chained
<1>5. stack[k] \in Frames
  BY <1>1, <1>2, StackTop
<1> DEFINE n == Len(stack[k].list)
           z == stack[k].win.selected
<1>6. n \in Nat /\ z \in 0 .. n - 1
  BY <1>4, <1>5, FrameFacts
<1>7. z + 1 \in 1 .. n
  <2> HIDE DEF n, z
  <2> QED BY <1>6
<1> QED BY <1>4, <1>7 DEF Bare, Under

LEMMA CollsWithout ==
    ASSUME CollsOK(colls), NEW i \in 1 .. Len(colls)
    PROVE  CollsOK(Without(colls, i)) /\ Len(Without(colls, i)) = Len(colls) - 1
<1>1. /\ Without(colls, i) \in Seq(Entry) /\ Len(Without(colls, i)) = Len(colls) - 1
      /\ \A k \in 1 .. Len(colls) - 1 :
            Without(colls, i)[k] = IF k < i THEN colls[k] ELSE colls[k + 1]
  BY WithoutFacts DEF CollsOK
<1>2. \A k \in 1 .. Len(colls) - 1 : k \in 1 .. Len(colls) /\ k + 1 \in 1 .. Len(colls)
  BY LenProperties DEF CollsOK
<1>3. \A k \in 1 .. Len(Without(colls, i)) :
         \E j \in 1 .. Len(colls) : Without(colls, i)[k] = colls[j]
  BY <1>1, <1>2
<1> HIDE DEF HasStates
<1> QED BY <1>1, <1>3 DEF CollsOK, Bare, Folders

LEMMA DeleteCollectionInv == BrowserInv /\ DeleteCollection => BrowserInv'
<1> SUFFICES ASSUME BrowserInv, DeleteCollection PROVE BrowserInv'
  OBVIOUS
<1> DEFINE i == Top.win.selected + 1
           l == Without(colls, i)
           g(w) == [dir |-> Collections, list |-> l, win |-> w]
           st(w) == [stack EXCEPT ![Len(stack)] = g(w)]
<1>1. /\ UNCHANGED <<todo, recents, last, ui, should_resume, launch>>
      /\ ui = "browse" /\ Len(stack) > 1 /\ Top.dir = Collections /\ Entries(Top) > 0
      /\ colls' = l /\ from' = None /\ ready' \in Refreshed(Top.win)
      /\ forgot' = (forgot \/ Misplaced(l))
  BY DEF DeleteCollection
<1>2. /\ stack \in Seq(Frames) /\ stack # <<>> /\ Len(stack) \in Nat
      /\ Top = stack[Len(stack)] /\ Top \in Frames /\ Fits(Top)
  BY <1>1, TopFacts
<1>3. Len(stack) = 2
  BY <1>1, CollectionsSecond
<1>4. /\ Chained(stack) /\ Nesting(stack) /\ Current(stack, colls, recents)
      /\ FitsAll(stack) /\ (~forgot => ShownAll(stack)) /\ CollsOK(colls) /\ Bare(recents)
      /\ colls \in Seq(Entry)
  BY <1>1 DEF BrowserInv, Live, TypeOK
<1>5. Top.list = colls
  <2>1. Recents # Collections
    BY CardAssumption DEF CardAssumption
  <2>2. 2 \in 2 .. Len(stack)
    BY <1>3
  <2> QED BY <1>1, <1>2, <1>3, <1>4, <2>1, <2>2 DEF Current, Listed
<1>6. Top.win.selected \in 0 .. Len(colls) - 1 /\ i \in 1 .. Len(colls) /\ Top.win \in Windows
  <2> DEFINE z == Top.win.selected
             n == Len(colls)
  <2>1. z \in 0 .. n - 1 /\ n \in Nat /\ Top.win \in Windows
    BY <1>1, <1>2, <1>4, <1>5, UnderEntry, FrameFacts
  <2>2. z + 1 \in 1 .. n
    <3> HIDE DEF z, n
    <3> QED BY <2>1
  <2> QED BY <2>1, <2>2
<1>7. CollsOK(l) /\ Len(l) = Len(colls) - 1 /\ l \in Seq(Entry)
  <2> HIDE DEF i
  <2>1. CollsOK(l) /\ Len(l) = Len(colls) - 1
    BY <1>4, <1>6, CollsWithout
  <2> QED BY <2>1 DEF CollsOK
<1>8. Under(Top) \in Entry /\ ~HasStates(Under(Top))
  <2>1. Under(Top) = colls[i] /\ Under(Top) \in Entry
    BY <1>1, <1>2, <1>5, UnderEntry DEF Under
  <2>2. ~HasStates(colls[i])
    BY <1>4, <1>6 DEF CollsOK
  <2> QED BY <2>1, <2>2
<1>9. ready' \in [can : BOOLEAN, slot : Entry \cup {None}] /\ (~should_resume => ~ready'.can)
  BY <1>1, <1>8, RefreshedFacts
<1>10. ReadyOK' /\ LastOK' /\ LoadingOK' /\ WildOnlyThere'
  BY <1>1, <1>9 DEF BrowserInv, ReadyOK, LastOK, LoadingOK, WildOnlyThere
<1>11. forgot' \in BOOLEAN /\ (~forgot' => ~forgot /\ ~Misplaced(l))
  BY <1>1 DEF BrowserInv, TypeOK, Misplaced
<1>12. Recents # Collections /\ Collections \in Entry
  BY CardAssumption DEF CardAssumption
<1>13. CASE l # <<>>
  <2> DEFINE w == Rebuilt(Top.win, l)
             f == g(w)
  <2>1. /\ stack' = st(w) /\ UNCHANGED <<restore, closed>>
    BY <1>13 DEF DeleteCollection
  <2> HIDE DEF l, i
  <2>2. w \in Windows /\ Shown(w, Len(l))
    BY <1>6, <1>7, <1>13, RebuiltShown
  <2> HIDE DEF w
  <2>3. f \in Frames /\ f.dir = Collections /\ f.list = l /\ f.win = w
    BY <1>7, <1>12, <2>2 DEF Frames
  <2> HIDE DEF f
  <2>4. f.dir = stack[Len(stack)].dir
    BY <1>1, <1>2, <2>3
  <2>5. Topped(stack, stack') /\ stack'[Len(stack)] = f
    <3>1. stack' = [stack EXCEPT ![Len(stack)] = f]
      BY <2>1 DEF f
    <3> QED BY <1>2, <2>3, <2>4, <3>1, PutTop
  <2>6. stack' \in Seq(Frames) /\ stack' # <<>> /\ Len(stack') = 2 /\ stack'[2] = f
        /\ stack'[1] = stack[1]
    BY <1>3, <2>5 DEF Topped
  <2>7. Fits(f)
    BY <2>2, <2>3, ShownFits
  <2>8. Chained(stack') /\ FitsAll(stack') /\ (~forgot => ShownAll(stack'))
    BY <1>2, <1>4, <2>2, <2>3, <2>5, <2>7, ToppedKeeps
  <2>9. Nesting(stack') /\ Current(stack', l, recents)
    <3>1. \A k \in 2 .. Len(stack') : k = 2
      BY <2>6
    <3>2. Nesting(stack')
      BY <1>4, <1>7, <1>12, <2>3, <2>6, <3>1 DEF Nesting, CollsOK
    <3>3. Current(stack', l, recents)
      BY <1>12, <2>3, <2>6, <3>1 DEF Current, Listed
    <3> QED BY <3>2, <3>3
  <2>10. TypeOK'
    BY <1>1, <1>7, <1>9, <1>11, <2>1, <2>6 DEF BrowserInv, TypeOK
  <2>11. RestoreOK'
    <3>1. restore.depth <= Len(stack')
      BY <1>3, <2>6 DEF BrowserInv, RestoreOK
    <3> SUFFICES ASSUME ~forgot', restore.depth = 2, restore.relative \in 0 .. Len(l) - 1
                 PROVE  /\ l[restore.relative + 1] = closed
                        /\ Shown(restore.win, Len(Listed(closed, l, recents)))
      BY <1>1, <2>1, <2>3, <2>6, <3>1 DEF RestoreOK, RestoreFor
    <3> DEFINE y == restore.relative
    <3>2. y \in 0 .. Len(colls) - 1 /\ y + 1 \in 1 .. Len(colls)
      <4> DEFINE m == Len(l)
                 n == Len(colls)
      <4>1. m \in Nat /\ n \in Nat /\ m = n - 1 /\ y \in 0 .. m - 1
        BY <1>4, <1>7
      <4> HIDE DEF m, n, y
      <4>2. y \in 0 .. n - 1 /\ y + 1 \in 1 .. n
        BY <4>1
      <4> QED BY <4>2 DEF n
    <3>3. RestoreFor(stack, restore, closed, colls, recents)
      BY <1>1, <1>11 DEF BrowserInv, RestoreOK, Live
    <3>4. colls[y + 1] = closed /\ Shown(restore.win, Len(Listed(closed, colls, recents)))
      BY <1>2, <1>3, <1>5, <3>2, <3>3 DEF RestoreFor
    <3>5. l[y + 1] = colls[y + 1]
      BY <1>3, <1>5, <1>11 DEF Misplaced
    <3>6. closed # Collections
      BY <1>4, <3>2, <3>4 DEF CollsOK, Bare
    <3>7. Listed(closed, l, recents) = Listed(closed, colls, recents)
      BY <3>6 DEF Listed
    <3> QED BY <3>4, <3>5, <3>7
  <2>12. CollsOK(colls') /\ Bare(recents')
    BY <1>1, <1>4, <1>7
  <2>13. ui' \in Live => Current(stack', colls', recents')
    BY <1>1, <2>9
  <2> QED BY <1>10, <1>11, <2>8, <2>9, <2>10, <2>11, <2>12, <2>13 DEF BrowserInv
<1>14. CASE l = <<>>
  <2>1. PICK b \in Garbage, z \in Garbage :
           closeDirectory(st(Window(Top.win.selected, b, z)))
    BY <1>13, <1>14 DEF DeleteCollection
  <2> DEFINE w == Window(Top.win.selected, b, z)
             f == g(w)
             t == st(w)
  <2>2. w \in Windows
    BY <1>6, CardAssumption DEF CardAssumption, Window, Windows
  <2> HIDE DEF l, i, w
  <2>3. f \in Frames /\ f.dir = Collections /\ f.list = l /\ f.win = w
    BY <1>7, <1>12, <2>2 DEF Frames
  <2> HIDE DEF f
  <2>4. f.dir = stack[Len(stack)].dir
    BY <1>1, <1>2, <2>3
  <2>5. Topped(stack, t) /\ t[Len(stack)] = f /\ closeDirectory(t)
    <3>1. t = [stack EXCEPT ![Len(stack)] = f]
      BY DEF f
    <3>2. closeDirectory(t)
      BY <2>1 DEF w
    <3> QED BY <1>2, <2>3, <2>4, <3>1, <3>2, PutTop
  <2> HIDE DEF t
  <2>6. t \in Seq(Frames) /\ t # <<>> /\ Len(t) = 2 /\ t[2] = f /\ t[1] = stack[1]
    BY <1>3, <2>5 DEF Topped
  <2>7. Fits(f) /\ Shown(f.win, Entries(f))
    BY <1>14, <2>3 DEF Fits, Shown
  <2>8. Chained(t) /\ FitsAll(t) /\ (~forgot => ShownAll(t))
    BY <1>2, <1>4, <2>5, <2>7, ToppedKeeps
  <2>9. Nesting(t)
    <3>1. \A k \in 2 .. Len(t) : k = 2
      BY <2>6
    <3> QED BY <1>4, <1>7, <1>12, <2>3, <2>6, <3>1 DEF Nesting, CollsOK
  <2>10. Shown(t[Len(t)].win, Len(Listed(t[Len(t)].dir, l, recents)))
    BY <1>12, <2>3, <2>6, <2>7 DEF Listed
  <2>11. /\ Popped(t, stack') /\ restore'.depth = Len(stack') /\ Len(stack') = Len(t) - 1
         /\ restore' \in [depth : Int, relative : Int, win : Windows]
         /\ closed' \in Entry \cup {None}
         /\ RestoreFor(stack', restore', closed', l, recents)
    <3>1. Len(t) > 1
      BY <2>6
    <3> QED BY <2>5, <2>6, <2>8, <2>10, <3>1, Closes
  <2>12. Chained(stack') /\ Nesting(stack') /\ FitsAll(stack') /\ (~forgot => ShownAll(stack'))
    <3>1. Len(t) > 1
      BY <2>6
    <3> QED BY <2>6, <2>8, <2>9, <2>11, <3>1, PopTop
  <2>13. Len(stack') = 1 /\ stack' \in Seq(Frames) /\ stack' # <<>>
    BY <2>6, <2>11 DEF Popped
  <2>14. Current(stack', l, recents)
    <3>1. 2 .. Len(stack') = {}
      BY <2>13
    <3> QED BY <3>1 DEF Current
  <2>15. TypeOK'
    BY <1>1, <1>7, <1>9, <1>11, <2>11, <2>13 DEF BrowserInv, TypeOK
  <2>16. RestoreOK'
    BY <1>1, <2>11, <2>13 DEF RestoreOK
  <2>17. CollsOK(colls') /\ Bare(recents')
    BY <1>1, <1>4, <1>7
  <2>18. ui' \in Live => Current(stack', colls', recents')
    BY <1>1, <2>14
  <2> QED BY <1>10, <1>11, <2>12, <2>15, <2>16, <2>17, <2>18 DEF BrowserInv
<1> QED BY <1>13, <1>14

-----------------------------------------------------------------------------
(* loadLast: one part of the path after the other. *)
LEMMA TodoFacts ==
    ASSUME BrowserInv, ui = "loading", todo # <<>>
    PROVE  /\ todo \in Seq(Entry \cup {None}) /\ Len(todo) \in Nat /\ Len(todo) > 0
           /\ Len(todo) > 1 => Head(todo) \in Entry /\ Info[Head(todo)].type = "dir"
           /\ last.file # None => Len(todo) <= 3 /\ todo[Len(todo)] = None
<1> DEFINE parts == Parts(last)
           n == Len(parts)
           q == Len(last.path)
           m == Len(todo)
<1>1. todo \in Seq(Entry \cup {None}) /\ last \in Paths
  BY DEF BrowserInv, TypeOK
<1>2. m \in Nat /\ m > 0 /\ Head(todo) = todo[1]
  BY <1>1, EmptySeq
<1>3. /\ last.path \in Seq(Entry) /\ q \in Nat
      /\ last.file = None => n = q
      /\ last.file # None => n = q + 1 /\ parts[q + 1] = None
      /\ \A i \in 1 .. q : parts[i] = last.path[i]
  BY <1>1, PartsFacts
<1>4. m <= n /\ \A i \in 1 .. m : todo[i] = parts[n - m + i]
  BY DEF BrowserInv, LoadingOK, TodoOK
<1>5. /\ \A i \in 1 .. q : i < q \/ last.file # None => Info[last.path[i]].type = "dir"
      /\ last.file # None => q <= 2
  BY DEF BrowserInv, LastOK
<1>6. n \in Nat
  BY <1>3
<1> HIDE DEF n, q, m, parts
<1>7. ASSUME m > 1 PROVE Head(todo) \in Entry /\ Info[Head(todo)].type = "dir"
  <2> DEFINE k == n - m + 1
  <2>1. 1 \in 1 .. m /\ k \in Nat /\ k >= 1 /\ k < n
    BY <1>2, <1>4, <1>6, <1>7
  <2>2. Head(todo) = parts[k]
    BY <1>2, <1>4, <2>1
  <2> HIDE DEF k
  <2>3. k \in 1 .. q /\ (k < q \/ last.file # None)
    <3>1. CASE last.file = None
      BY <1>3, <2>1, <3>1
    <3>2. CASE last.file # None
      BY <1>3, <2>1, <3>2
    <3> QED BY <3>1, <3>2
  <2>4. Head(todo) = last.path[k]
    BY <1>3, <2>2, <2>3
  <2>5. last.path[k] \in Entry
    BY <1>3, <2>3, ElementOfSeq DEF q
  <2> QED BY <1>5, <2>3, <2>4, <2>5
<1>8. ASSUME last.file # None PROVE m <= 3 /\ todo[m] = None
  <2>1. n = q + 1 /\ q <= 2 /\ parts[q + 1] = None
    BY <1>3, <1>5, <1>8
  <2>2. m <= 3 /\ m \in 1 .. m /\ n - m + m = q + 1
    BY <1>2, <1>3, <1>4, <1>6, <2>1
  <2> QED BY <1>4, <2>1, <2>2
<1> QED BY <1>1, <1>2, <1>7, <1>8 DEF m

LEMMA TodoTail ==
    ASSUME TodoOK, last \in Paths, todo \in Seq(Entry \cup {None}), todo # <<>>,
           todo' = Tail(todo), last' = last
    PROVE  /\ TodoOK' /\ todo' \in Seq(Entry \cup {None}) /\ Len(todo') = Len(todo) - 1
           /\ \A i \in 1 .. Len(todo) - 1 : todo'[i] = todo[i + 1]
<1> DEFINE parts == Parts(last)
           n == Len(parts)
           m == Len(todo)
<1>1. m \in Nat /\ m > 0
  BY EmptySeq
<1>2. todo' \in Seq(Entry \cup {None}) /\ Len(todo') = m - 1
      /\ \A i \in 1 .. m - 1 : todo'[i] = todo[i + 1]
  BY <1>1, HeadTailProperties
<1>3. n \in Nat
  BY PartsFacts
<1>4. m <= n /\ \A i \in 1 .. m : todo[i] = parts[n - m + i]
  BY DEF TodoOK
<1>5. Parts(last') = parts
  OBVIOUS
<1> HIDE DEF n, m, parts
<1>6. m - 1 <= n
  BY <1>1, <1>3, <1>4
<1>7. \A i \in 1 .. m - 1 : todo'[i] = parts[n - (m - 1) + i]
  <2> SUFFICES ASSUME NEW i \in 1 .. m - 1
               PROVE  todo'[i] = parts[n - (m - 1) + i]
    OBVIOUS
  <2>1. i + 1 \in 1 .. m /\ n - m + (i + 1) = n - (m - 1) + i
    BY <1>1, <1>3
  <2> QED BY <1>2, <1>4, <2>1
<1>8. TodoOK'
  <2>1. Len(Parts(last')) = n
    BY <1>5 DEF n
  <2> QED BY <1>2, <1>5, <1>6, <1>7, <2>1 DEF TodoOK
<1> QED BY <1>2, <1>8 DEF m

LEMMA SelectShown ==
    ASSUME NEW n \in Nat, NEW i \in 0 .. n - 1, NEW w \in Windows, Shown(w, n),
           w = First(n) \/ w.selected = i
    PROVE  /\ SelectRow(w, n, i) \in Windows /\ SelectRow(w, n, i).selected = i
           /\ Shown(SelectRow(w, n, i), n)
BY RowsAssumption DEF RowsAssumption, SelectRow, First, Rows, Window, Windows, Shown

LEMMA LoadLastInv == BrowserInv /\ LoadLast => BrowserInv'
<1> SUFFICES ASSUME BrowserInv, LoadLast PROVE BrowserInv'
  OBVIOUS
<1> DEFINE found == {i \in 0 .. Entries(Top) - 1 : SamePath(Top.list[i + 1], Head(todo))}
           st(i) == Scroll(SelectRow(Top.win, Entries(Top), i))
<1>1. /\ UNCHANGED <<colls, recents, last, launch, from, ui, restore, ready, should_resume,
                     closed, forgot>>
      /\ ui = "loading" /\ todo # <<>> /\ todo' = Tail(todo)
  BY DEF LoadLast, unlaunched
<1>2. \/ UNCHANGED stack
      \/ \E i \in found :
            /\ \A j \in found : i <= j
            /\ stack' = IF Enters(Top.list[i + 1])
                        THEN Append(st(i), Opened(st(i), Top.list[i + 1])) ELSE st(i)
  BY DEF LoadLast
<1>3. /\ stack \in Seq(Frames) /\ stack # <<>> /\ Len(stack) \in Nat /\ Len(stack) > 0
      /\ Top = stack[Len(stack)] /\ Top \in Frames /\ Fits(Top)
  BY <1>1, TopFacts
<1>4. /\ Chained(stack) /\ Nesting(stack) /\ Current(stack, colls, recents)
      /\ FitsAll(stack) /\ ShownAll(stack) /\ Shown(Top.win, Entries(Top))
      /\ ~forgot /\ restore.depth = -1 /\ TodoOK
      /\ Len(todo) >= 3 /\ last.file # None => Len(stack) = 1
      /\ \/ Top.win = First(Entries(Top))
         \/ /\ last.file # None /\ todo = <<None>>
            /\ Top.win.selected \in FileRows
            /\ \A j \in FileRows : Top.win.selected <= j
  BY <1>1, TopFacts DEF BrowserInv, LoadingOK, Live
<1>5. /\ todo \in Seq(Entry \cup {None}) /\ Len(todo) \in Nat /\ Len(todo) > 0
      /\ Len(todo) > 1 => Head(todo) \in Entry /\ Info[Head(todo)].type = "dir"
      /\ last.file # None => Len(todo) <= 3 /\ todo[Len(todo)] = None
  BY <1>1, TodoFacts
<1>6. /\ TodoOK' /\ todo' \in Seq(Entry \cup {None}) /\ Len(todo') = Len(todo) - 1
      /\ \A i \in 1 .. Len(todo) - 1 : todo'[i] = todo[i + 1]
  BY <1>1, <1>4, <1>5, TodoTail DEF BrowserInv, TypeOK
<1>7. last'.file # None => ~(Len(todo') >= 3)
  <2>1. \A m \in Nat : m <= 3 => ~(m - 1 >= 3)
    OBVIOUS
  <2> QED BY <1>1, <1>5, <1>6, <2>1
<1>8. ASSUME stack' \in Seq(Frames), stack' # <<>>, Chained(stack'), Nesting(stack'),
             Current(stack', colls, recents), FitsAll(stack'), ShownAll(stack'),
             todo' # <<>> =>
                \/ Top'.win = First(Len(Top'.list))
                \/ /\ last.file # None /\ todo' = <<None>>
                   /\ Top'.win.selected \in FileRows'
                   /\ \A j \in FileRows' : Top'.win.selected <= j
      PROVE  BrowserInv'
  <2>1. TypeOK'
    BY <1>1, <1>6, <1>8 DEF BrowserInv, TypeOK
  <2>2. RestoreOK'
    <3>1. Len(stack') \in Nat
      BY <1>8
    <3>2. -1 <= Len(stack') /\ Len(stack') # -1
      BY <3>1
    <3> QED BY <1>1, <1>4, <3>2 DEF RestoreOK, RestoreFor
  <2>3. LoadingOK'
    BY <1>1, <1>4, <1>6, <1>7, <1>8 DEF LoadingOK
  <2>4. LastOK' /\ ReadyOK' /\ WildOnlyThere'
    BY <1>1 DEF BrowserInv, LastOK, ReadyOK, WildOnlyThere
  <2>5. CollsOK(colls') /\ Bare(recents')
    BY <1>1 DEF BrowserInv
  <2> QED BY <1>1, <1>8, <2>1, <2>2, <2>3, <2>4, <2>5 DEF BrowserInv
<1>9. CASE UNCHANGED stack
  <2>1. Top' = Top
    BY <1>9 DEF Top
  <2>2. todo' # <<>> => todo # <<None>>
    <3>1. todo = <<None>> => Len(todo) = 1
      OBVIOUS
    <3>2. Len(todo) = 1 => Len(todo') = 0
      BY <1>6
    <3> QED BY <1>6, <3>1, <3>2, EmptySeq
  <2> QED BY <1>3, <1>4, <1>8, <1>9, <2>1, <2>2
<1>10. CASE \E i \in found :
            /\ \A j \in found : i <= j
            /\ stack' = IF Enters(Top.list[i + 1])
                        THEN Append(st(i), Opened(st(i), Top.list[i + 1])) ELSE st(i)
  <2>1. PICK i \in found :
            /\ \A j \in found : i <= j
            /\ stack' = IF Enters(Top.list[i + 1])
                        THEN Append(st(i), Opened(st(i), Top.list[i + 1])) ELSE st(i)
    BY <1>10
  <2> DEFINE n == Entries(Top)
             e == Top.list[i + 1]
             w == SelectRow(Top.win, n, i)
             f == [Top EXCEPT !.win = w]
             t == Scroll(w)
  <2>2. n \in Nat /\ i \in 0 .. n - 1 /\ SamePath(e, Head(todo)) /\ Top.list \in Seq(Entry)
        /\ Top.win \in Windows
    BY <1>3, <2>1, FrameFacts
  <2>3. e \in Entry
    <3>1. i + 1 \in 1 .. n
      <4> HIDE DEF n
      <4> QED BY <2>2
    <3> QED BY <2>2, <3>1, ElementOfSeq
  <2>4. stack' = IF Enters(e) THEN Append(t, Opened(t, e)) ELSE t
    BY <2>1
  <2>5. last.file # None => FileRows \subseteq found
    BY DEF FileRows, SamePath
  <2>6. Top.win = First(n) \/ Top.win.selected = i
    <3> SUFFICES ASSUME last.file # None, todo = <<None>>, Top.win.selected \in FileRows,
                        \A j \in FileRows : Top.win.selected <= j
                 PROVE  Top.win.selected = i
      BY <1>4
    <3>1. Head(todo) = None
      OBVIOUS
    <3>2. i \in FileRows
      BY <2>2, <2>3, <3>1, NoneAssumption DEF NoneAssumption, SamePath, FileRows
    <3>3. i <= Top.win.selected /\ Top.win.selected <= i
      BY <2>1, <2>5, <3>2
    <3> DEFINE z == Top.win.selected
    <3>4. z \in Int /\ i \in Int /\ i <= z /\ z <= i
      BY <1>3, <2>2, <3>3, FrameFacts
    <3> HIDE DEF z, found
    <3>5. z = i
      BY <3>4
    <3> QED BY <3>5 DEF z
  <2> HIDE DEF found
  <2>7. w \in Windows /\ w.selected = i /\ Shown(w, n)
    <3> HIDE DEF n
    <3> QED BY <1>4, <2>2, <2>6, SelectShown DEF n
  <2> HIDE DEF w
  <2>8. Topped(stack, t) /\ t[Len(stack)] = f /\ f.dir = Top.dir /\ f.list = Top.list
        /\ f.win = w
    BY <2>7, Scrolls
  <2> HIDE DEF t, f
  <2>9. t \in Seq(Frames) /\ t # <<>> /\ Len(t) = Len(stack) /\ f \in Frames
    BY <1>3, <2>8, StackTop DEF Topped
  <2>10. Fits(f) /\ Shown(f.win, Entries(f))
    BY <2>7, <2>8, <2>9, ShownFits
  <2>11. Chained(t) /\ FitsAll(t) /\ ShownAll(t)
    BY <1>3, <1>4, <2>8, <2>10, ToppedKeeps
  <2>12. Nesting(t) /\ Current(t, colls, recents)
    BY <1>3, <1>4, <2>8, ListKeeps
  <2>13. CASE Enters(e)
    <3> DEFINE d == Opened(t, e)
    <3>1. ~SamePlace(t)
      BY <1>3, <1>4, <2>9 DEF SamePlace
    <3>2. /\ d \in Frames /\ d.dir = e /\ d.list = Listed(e, colls, recents)
          /\ Bare(d.list) /\ d.win = First(Len(d.list))
      BY <2>3, <3>1, OpenedFacts
    <3> HIDE DEF d
    <3>3. Shown(d.win, Len(d.list)) /\ Fits(d)
      <4> DEFINE k == Len(d.list)
      <4>1. k \in Nat /\ d.win = First(k)
        BY <3>2, FrameFacts
      <4> HIDE DEF k
      <4>2. Shown(d.win, k)
        BY <4>1, FirstShown
      <4> QED BY <3>2, <4>2, ShownFits DEF k
    <3>4. Pushed(t, d, stack')
      BY <2>4, <2>9, <2>13, <3>2, AppendPushes DEF d
    <3>5. Under(t[Len(t)]) = e /\ t[Len(t)].win.selected \in 0 .. Entries(t[Len(t)]) - 1
      BY <2>2, <2>7, <2>8, <2>9 DEF Under
    <3>6. Chained(stack') /\ Nesting(stack')
      BY <2>3, <2>9, <2>11, <2>12, <3>2, <3>4, <3>5, PushTop
    <3>7. Current(stack', colls, recents) /\ FitsAll(stack') /\ ShownAll(stack')
      BY <2>9, <2>11, <2>12, <3>2, <3>3, <3>4, PushTop
    <3>8. stack' \in Seq(Frames) /\ stack' # <<>> /\ Top' = d
      BY <3>4 DEF Pushed, Top
    <3> QED BY <1>8, <3>2, <3>6, <3>7, <3>8
  <2>14. CASE ~Enters(e)
    <3>1. stack' = t
      BY <2>4, <2>14
    <3>2. Top' = f
      BY <2>8, <2>9, <3>1 DEF Top
    <3>3. ASSUME todo' # <<>>
          PROVE  /\ last.file # None /\ todo' = <<None>>
                 /\ Top'.win.selected \in FileRows'
                 /\ \A j \in FileRows' : Top'.win.selected <= j
      <4>1. Len(todo) > 1
        <5>1. Len(todo') # 0
          BY <1>6, <3>3, EmptySeq
        <5>2. \A m \in Nat : m > 0 /\ m - 1 # 0 => m > 1
          OBVIOUS
        <5> QED BY <1>5, <1>6, <5>1, <5>2
      <4>2. Info[e].type # "dir"
        BY <2>14, <4>1 DEF Enters
      <4>3. Head(todo) \in Entry /\ Info[Head(todo)].type = "dir"
        BY <1>5, <4>1
      <4>4. last.file # None /\ Info[e].file = last.file
        <5>1. Info[e].system = None
          BY <2>3, <4>2, TreeAssumption DEF TreeAssumption
        <5> QED BY <2>2, <4>2, <4>3, <5>1 DEF SamePath
      <4>5. Len(todo) = 2
        <5>1. Len(todo) # 3
          <6> SUFFICES ASSUME Len(todo) = 3 PROVE FALSE
            OBVIOUS
          <6>1. Len(stack) = 1
            <7>1. Len(todo) >= 3
              OBVIOUS
            <7> QED BY <1>4, <4>4, <7>1
          <6>2. Folders(Top.list)
            BY <1>3, <1>4, <6>1 DEF Nesting
          <6>3. i + 1 \in 1 .. n
            <7> HIDE DEF n
            <7> QED BY <2>2
          <6> QED BY <4>2, <6>2, <6>3 DEF Folders
        <5>2. \A m \in Nat : m > 1 /\ m <= 3 /\ m # 3 => m = 2
          OBVIOUS
        <5> QED BY <1>5, <4>1, <4>4, <5>1, <5>2
      <4>6. todo' = <<None>>
        <5>1. Len(todo') = 1 /\ todo'[1] = todo[2] /\ todo[2] = None
          BY <1>5, <1>6, <4>4, <4>5
        <5>2. <<None>> \in Seq(Entry \cup {None}) /\ Len(<<None>>) = 1 /\ <<None>>[1] = None
          OBVIOUS
        <5>3. \A j \in 1 .. Len(todo') : todo'[j] = <<None>>[j]
          BY <5>1
        <5> QED BY <1>6, <5>1, <5>2, <5>3, SeqEqual
      <4>7. FileRows' = FileRows
        BY <1>1, <2>8, <3>2 DEF FileRows
      <4>8. i \in FileRows
        BY <2>2, <4>4 DEF FileRows
      <4>9. \A j \in FileRows : i <= j
        BY <2>1, <2>5, <4>4
      <4>10. Top'.win.selected = i
        BY <2>7, <2>8, <3>2
      <4> QED BY <4>4, <4>6, <4>7, <4>8, <4>9, <4>10
    <3> QED BY <1>8, <2>9, <2>11, <2>12, <3>1, <3>3
  <2> QED BY <2>13, <2>14
<1> QED BY <1>2, <1>9, <1>10

-----------------------------------------------------------------------------
(* The theorems. *)
LEMMA NextInv == BrowserInv /\ [Next]_vars => BrowserInv'
<1> SUFFICES ASSUME BrowserInv, [Next]_vars PROVE BrowserInv'
  OBVIOUS
<1>1. CASE UNCHANGED vars
  <2>1. UNCHANGED <<colls, recents, last, ui, todo, stack, restore, ready,
                    should_resume, launch, closed, forgot, from>>
    BY <1>1 DEF vars
  <2>2. TypeOK'
    BY <2>1 DEF BrowserInv, TypeOK
  <2>3. Top' = Top
    BY <2>1 DEF Top
  <2>4. RestoreOK' /\ LastOK' /\ WildOnlyThere' /\ ReadyOK'
    BY <2>1, <2>3 DEF BrowserInv, RestoreOK, LastOK, WildOnlyThere, ReadyOK
  <2>5. LoadingOK'
    BY <2>1, <2>3 DEF BrowserInv, LoadingOK, TodoOK, FileRows
  <2> QED BY <2>1, <2>2, <2>4, <2>5 DEF BrowserInv
<1>2. CASE Next
  BY <1>2, MoveInv, ShoulderInv, OpenRomInv, OpenPakInv, OpenDirectoryInv,
     CloseDirectoryInv, DeleteCollectionInv, ToggleVersionInv, HDMIChangeInv,
     RelaunchInv, RebootInv, LoadLastInv, LoadDoneInv DEF Next
<1> QED BY <1>1, <1>2

(* BrowserInv holds in every state that minui's browser can reach. *)
THEOREM BrowserCorrect == Spec => []BrowserInv
BY InitInv, NextInv, PTL DEF Spec

(* Whatever is scrolled, opened, closed, restored, deleted or found again  *)
(* after a game, the window of every open directory shows as many rows as  *)
(* fit and the cursor is on one of them, and no entry is read that is not  *)
(* there but in an empty list or after a deletion under a restore.         *)
THEOREM BrowsingIsSound == Spec => []Browses
<1>1. BrowserInv => Browses
  <2> SUFFICES ASSUME BrowserInv PROVE Browses
    OBVIOUS
  <2>1. stack \in Seq(Frames) /\ TypeOK /\ WildOnlyThere /\ (~forgot => ShownAll(stack))
    BY DEF BrowserInv, TypeOK
  <2>2. DOMAIN stack = 1 .. Len(stack)
    BY <2>1, LenProperties
  <2>3. WindowsShown
    BY <2>1, <2>2 DEF WindowsShown, ShownAll
  <2> QED BY <2>1, <2>3 DEF Browses
<1> QED BY <1>1, BrowserCorrect, PTL

(* A step of the browser opens a directory only by OpenDirectory. *)
LEMMA OpensOnly ==
    ASSUME BrowserInv, Next, ui = "browse", Len(stack') > Len(stack)
    PROVE  OpenDirectory
<1>1. stack \in Seq(Frames) /\ stack # <<>> /\ Len(stack) \in Nat /\ Len(stack) > 0
      /\ Top \in Frames
  BY TopFacts
<1>2. stack' # stack
  BY <1>1
<1>3. CASE Move
  <2>1. PICK w \in Scrolled(Top) : stack' = Scroll(w)
    BY <1>3 DEF Move
  <2>2. w \in Windows
    BY <1>1, ScrolledShown
  <2>3. Len(stack') = Len(stack)
    BY <2>1, <2>2, Scrolls DEF Topped
  <2> QED BY <1>1, <2>3
<1>4. CASE CloseDirectory
  <2>1. Popped(stack, stack')
    BY <1>1, <1>4, PopPops DEF CloseDirectory, closeDirectory
  <2> QED BY <1>1, <2>1 DEF Popped
<1>5. CASE DeleteCollection
  <2> DEFINE l == Without(colls, Top.win.selected + 1)
             st(w) == [stack EXCEPT ![Len(stack)] =
                          [dir |-> Collections, list |-> l, win |-> w]]
  <2>1. \E w : stack' = st(w) \/ stack' = Pop(st(w))
    BY <1>5 DEF DeleteCollection, closeDirectory
  <2>2. PICK w : stack' = st(w) \/ stack' = Pop(st(w))
    BY <2>1
  <2>3. Len(st(w)) = Len(stack) /\ Len(stack) \in Nat
    BY <1>1
  <2>4. Len(Pop(st(w))) <= Len(stack)
    <3> HIDE DEF st
    <3> QED BY <2>3, <1>1 DEF Pop
  <2> HIDE DEF st
  <2> QED BY <1>1, <2>2, <2>3, <2>4
<1>6. CASE Reboot
  <2>1. Len(stack') = 1
    BY <1>6 DEF Reboot, Boot
  <2> QED BY <1>1, <2>1
<1>7. ~Relaunch /\ ~LoadLast /\ ~LoadDone
  BY DEF Relaunch, LoadLast, LoadDone
<1>8. ~ShoulderOnEmpty /\ ~OpenRom /\ ~OpenPak /\ ~ToggleVersion /\ ~HDMIChange
  BY <1>2 DEF ShoulderOnEmpty, OpenRom, OpenPak, ToggleVersion, HDMIChange
<1> QED BY <1>3, <1>4, <1>5, <1>6, <1>7, <1>8 DEF Next

(* openDirectory restores a position only to the directory it was saved    *)
(* for, and should_resume outlives a frame only where an m3u names a disc  *)
(* that is missing.                                                        *)
THEOREM NothingIsStale == Spec => NothingStale
<1>1. ASSUME BrowserInv, [Next]_vars, Len(stack') > Len(stack), ui = "browse", ~forgot
      PROVE  LET f == stack'[Len(stack')]
             IN  f.dir = closed \/ f.win = First(Entries(f))
  <2>1. Len(stack) \in Nat
    BY <1>1, TopFacts
  <2>2. Next
    <3>1. stack' # stack
      BY <1>1, <2>1
    <3> QED BY <1>1, <3>1 DEF vars
  <2>3. OpenDirectory
    BY <1>1, <2>2, OpensOnly
  <2> DEFINE e == Under(Top)
             f == Opened(stack, e)
  <2>4. stack' = Append(stack, f) /\ Entries(Top) > 0
    BY <2>3 DEF OpenDirectory, Pressable
  <2>5. e = closed \/ f.win = First(Entries(f))
    BY <1>1, <2>4, OpenedShown
  <2>6. stack \in Seq(Frames) /\ stack # <<>> /\ Top \in Frames /\ Fits(Top)
    BY <1>1, TopFacts
  <2>7. e \in Entry
    BY <2>4, <2>6, UnderEntry
  <2>8. f \in Frames /\ f.dir = e
    BY <1>1, <2>7, OpenedFacts
  <2> HIDE DEF f
  <2>9. stack'[Len(stack')] = f
    BY <2>4, <2>6, <2>8, AppendPushes DEF Pushed
  <2> QED BY <2>5, <2>8, <2>9
<1>2. ASSUME BrowserInv, [Next]_vars, ~should_resume, should_resume'
      PROVE  /\ Len(stack') > Len(stack)
             /\ Info[stack'[Len(stack')].dir].auto = "dead"
  <2>1. OpenDirectory
    <3>1. Next
      BY <1>2 DEF vars
    <3>2. ~OpenRom
      BY <1>2 DEF OpenRom, openRom, ConsumeFlag
    <3>3. ~Relaunch /\ ~Reboot
      BY <1>2 DEF Relaunch, Reboot, Boot
    <3>4. /\ ~Move /\ ~ShoulderOnEmpty /\ ~OpenPak /\ ~CloseDirectory /\ ~DeleteCollection
          /\ ~ToggleVersion /\ ~HDMIChange /\ ~LoadLast /\ ~LoadDone
      BY <1>2 DEF Move, ShoulderOnEmpty, OpenPak, CloseDirectory, DeleteCollection,
         ToggleVersion, HDMIChange, LoadLast, LoadDone
    <3> QED BY <3>1, <3>2, <3>3, <3>4 DEF Next
  <2> DEFINE e == Under(Top)
             f == Opened(stack, e)
  <2>2. ui = "browse" /\ Entries(Top) > 0 /\ stack' = Append(stack, f)
        /\ Info[e].type = "dir" /\ Info[e].auto # "run"
    BY <2>1 DEF OpenDirectory, Pressable
  <2>3. PICK r \in Refreshed(Top.win) : \E by \in Buttons(r) :
           should_resume' = (should_resume \/ by = "RESUME")
    BY <2>1 DEF OpenDirectory
  <2>4. r.can
    BY <1>2, <2>3 DEF Buttons
  <2>5. HasStates(e)
    BY <1>2, <2>2, <2>3, <2>4, RefreshedFacts
  <2>6. stack \in Seq(Frames) /\ stack # <<>> /\ Len(stack) \in Nat /\ Top \in Frames
        /\ Fits(Top)
    BY <1>2, <2>2, TopFacts
  <2>7. e \in Entry
    BY <2>2, <2>6, UnderEntry
  <2>8. f \in Frames /\ f.dir = e
    BY <1>2, <2>7, OpenedFacts
  <2> HIDE DEF f
  <2>9. stack'[Len(stack')] = f /\ Len(stack') > Len(stack)
    BY <2>2, <2>6, <2>8, AppendPushes DEF Pushed
  <2>10. Info[e].auto = "dead"
    BY <2>2, <2>5, <2>7, InfoFacts DEF HasStates
  <2> QED BY <2>8, <2>9, <2>10
<1>3. BrowserInv /\ [Next]_vars =>
        [Len(stack') > Len(stack) /\ ui = "browse" /\ ~forgot =>
           LET f == stack'[Len(stack')]
           IN  f.dir = closed \/ f.win = First(Entries(f))]_vars
  BY <1>1
<1>4. BrowserInv /\ [Next]_vars =>
        [~should_resume /\ should_resume' =>
           /\ Len(stack') > Len(stack)
           /\ Info[stack'[Len(stack')].dir].auto = "dead"]_vars
  BY <1>2
<1> QED BY <1>3, <1>4, BrowserCorrect, PTL
        DEF Spec, NothingStale, RestoresItsOwn, FlagLingersInDead
=============================================================================
