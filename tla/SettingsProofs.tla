--------------------------- MODULE SettingsProofs ---------------------------
(***************************************************************************)
(* Proofs about the settings that keymon's two threads and the running     *)
(* program share without a lock, for any range of the levels and any       *)
(* number of key presses, cable moves, naps, starts, failures and cuts:    *)
(* the file settles on what is shared, the mixer plays the level set, and  *)
(* no cable move or key is missed.                                         *)
(***************************************************************************)
EXTENDS Settings, SequenceTheorems, TLAPS

-----------------------------------------------------------------------------
(* The inductive invariant: types, control and shared memory.              *)

Acting == {"next", "first", "second", "open", "write", "rename"}
Alive == {"idle"} \cup Acting
Hosting == {"truncate", "read", "version"}
Pcs == {"off", "dead", "open_shm", "poll"} \cup Hosting \cup Alive
Keys == {"plus", "minus", "menu"}

Moves == {Volume(d) : d \in {-1, 0, 1}} \cup {Brightness(d) : d \in {-1, 0, 1}}
Jacks == {Jack(0), Jack(1)}
Hdmis == {Hdmi(0), Hdmi(1)}
Naps == {Simple("sleep"), Simple("stop"), Simple("cont"), Simple("wake")}
Calls == Moves \cup Jacks \cup Hdmis \cup Naps
Elems(q) == {q[i] : i \in DOMAIN q}
Contents == {<<>>} \cup {<<s>> : s \in Settings}

ShmOK(m) ==
  /\ m = [key |-> m.key, mem |-> m.mem, sized |-> m.sized]
  /\ m.key \in Objects \cup {None} /\ m.mem \in [Objects -> Settings] /\ m.sized \subseteq Objects
FsOK(f) ==
  /\ f = [tmp |-> f.tmp, path |-> f.path, data |-> f.data]
  /\ f.tmp \in Inodes \cup {None} /\ f.path \in Inodes \cup {None} /\ f.data \in [Inodes -> Contents]
Typed ==
  /\ device \in Devices
  /\ ShmOK(shm) /\ mapped \in [Processes -> Objects \cup {None}] /\ isHost \in [Processes -> BOOLEAN]
  /\ pc \in [Threads -> Pcs] /\ todo \in [Threads -> Seq(Calls)] /\ reg \in [Threads -> Nat]
  /\ FsOK(fs) /\ fd \in [Threads -> Inodes \cup {None}] /\ wrote \in [Threads -> BOOLEAN]
  /\ port \in {0, 1} /\ had \in {0, 1} /\ mixer \in 0 .. VOLUME_MAX
  /\ mon = [had |-> mon.had, busy |-> mon.busy]

\* A thread has calls queued exactly while it acts, and is where its call takes it.
AtCall(t, c) ==
  /\ pc[t] = "first" => c \in Moves /\ reg[t] \in 0 .. Highest(c.call)
  /\ pc[t] = "second" => c = Hdmi(1) \/ (c.call = "volume" /\ reg[t] \in 0 .. VOLUME_MAX)
  /\ pc[t] \in {"open", "write", "rename"} => c \in Moves
Own(t) ==
  /\ pc[t] \in Acting <=> todo[t] # <<>>
  /\ pc[t] \in Acting => AtCall(t, Call(t))
  /\ fd[t] # None <=> pc[t] \in {"write", "rename"}
  /\ wrote[t] => pc[t] = "rename"
  /\ Elems(todo[t]) \cap Hdmis # {} => device = "rg35xxplus"
  /\ t # "app" => Elems(todo[t]) \cap Naps = {}
Control ==
  /\ \A t \in Threads : Own(t)
  /\ pc["watch"] \in {"off"} \cup Alive /\ pc["app"] # "dead"
  /\ pc["watch"] # "off" => pc["keys"] \in Alive

\* Who has which object mapped.  Only keymon can be left with an object that has
\* lost its name, and only a client that came early finds the host still reading.
Objected(p, t) ==
  /\ mapped[p] = None <=> pc[t] \in {"off", "open_shm", "dead"}
  /\ isHost[p] => mapped[p] = shm.key /\ shm.key # None
  /\ pc[t] \in Hosting => isHost[p]
  /\ pc[t] = "poll" => ~ isHost[p]
  /\ pc[t] = "truncate" => mapped[p] \notin shm.sized
  /\ pc[t] \in {"read", "version"} \cup Alive => mapped[p] \in shm.sized
NotEarly(p, t, q, u) ==
  pc[t] \in {"read", "version"} /\ pc[u] \in Alive /\ mapped[q] = shm.key => "early" \in past
Shared ==
  /\ Objected("keymon", "keys") /\ Objected("app", "app") /\ ~ (isHost["keymon"] /\ isHost["app"])
  /\ pc["app"] \in Alive => mapped["app"] = shm.key
  /\ pc["app"] = "poll" => mapped["app"] = shm.key \/ mapped["app"] \notin shm.sized
  /\ NotEarly("keymon", "keys", "app", "app") /\ NotEarly("app", "app", "keymon", "keys")

BaseInv == Typed /\ Control /\ Shared

\* keymon, once initialised, has the named object; false for good when it is not.
Agree == pc["keys"] \in Alive => mapped["keymon"] = shm.key
Named == Agree /\ shm.key # None
S == shm.mem[shm.key]
HostInit == pc["keys"] \in Hosting \/ pc["app"] \in Hosting

-----------------------------------------------------------------------------
(* The file.                                                               *)

\* Without an early client no object with a size and no file is without a version,
\* once its host has read the file.
Current(s) == s.version = SETTINGS_VERSION
Reading(o) == \E p \in Processes : pc[MainThread[p]] = "read" /\ mapped[p] = o
Versions ==
  Never("early") =>
    /\ \A i \in Inodes : fs.data[i] # <<>> => Current(Head(fs.data[i]))
    /\ \A o \in shm.sized : Current(shm.mem[o]) \/ Reading(o)

\* An empty file has a writer that will fill it.
Writing(i) == \E t \in Threads : pc[t] = "write" /\ fd[t] = i
Torn(i) == i # None /\ fs.data[i] = <<>> /\ ~ Writing(i)
NoneTorn == Never("fault") /\ Never("cut") => ~ Torn(fs.tmp) /\ ~ Torn(fs.path)

\* A level that is not yet in the file has its save to come: a thread that has
\* stored it and not opened the file, or a temporary file that will be renamed and
\* has it or will be written, or the file itself.
Storing(t) == pc[t] = "open" \/ (pc[t] = "second" /\ Call(t).call = "volume")
Pending == \E t \in Threads : pc[t] \in {"write", "rename"}
Same(s) == Levels(s) = Levels(S)
Good(i) == Writing(i) \/ (fs.data[i] # <<>> /\ Same(Head(fs.data[i])))
GoodPath == (fs.path # None /\ Writing(fs.path)) \/ Same(FileSays)
Filled == pc["keys"] \notin {"truncate", "read"} /\ pc["app"] \notin {"truncate", "read"}
WillBeSaved ==
  Never("fault") /\ Never("early") /\ Named /\ Filled =>
    \/ \E t \in Threads : Storing(t)
    \/ IF Pending /\ fs.tmp # None THEN Good(fs.tmp) ELSE GoodPath
Whole == Never("fault") => \A t \in Threads : pc[t] = "rename" => wrote[t]

FileInv == Versions /\ NoneTorn /\ WillBeSaved /\ Whole

-----------------------------------------------------------------------------
(* The mixer.                                                              *)

InSetter(t) == pc[t] \in {"first", "second"}
OneSetter == \A t, u \in Threads : InSetter(t) /\ InSetter(u) => t = u

\* A thread still has one of these calls to make.
Left(t) == IF pc[t] = "next" THEN Elems(todo[t]) ELSE Elems(Tail(todo[t]))
Due(t, calls) == pc[t] \in Acting /\ Left(t) \cap calls # {}
\* A call to come that sets the mixer to what is shared, whatever it finds.
Redo(t) == Due(t, Hdmis) \/ (device # "rg35xxplus" /\ Due(t, {Volume(0)}))
Redone == HostInit \/ \E t \in Threads : Redo(t)
\* One that does so unless the output has changed to HDMI.
Fixes == Hdmis \cup Jacks \cup {Volume(0), Simple("wake")}
Fix(t) == Due(t, Fixes) \/ (pc[t] = "first" /\ Call(t) = Volume(0)) \/ pc[t] = "second"

MixerInv ==
  Never("overlap") /\ Named =>
    /\ OneSetter
    /\ \A t \in Threads : pc[t] = "second" =>
         Redone \/ IF Call(t) = Hdmi(1) THEN Hdmied(S) ELSE ~ Hdmied(S) /\ reg[t] = GetVolume(S)
    /\ Hdmied(S) => mixer = VOLUME_MAX \/ Redone \/ \E t \in Threads : pc[t] = "second" /\ Call(t) = Hdmi(1)
    /\ ~ Hdmied(S) => mixer = GetVolume(S) \/ HostInit \/ asleep \/ \E t \in Threads : Fix(t)
NapInv ==
  /\ Simple("sleep") \in Elems(todo["app"]) => asleep
  /\ asleep => pc["app"] \in Alive /\ Elems(todo["app"]) \subseteq {Simple("sleep"), Simple("stop")}

-----------------------------------------------------------------------------
(* The cable, the picture and the keys.                                    *)

Flag(s) == IF device = "rg35xxplus" THEN s.hdmi ELSE s.jack
PortCalls == IF device = "rg35xxplus" THEN Hdmis ELSE Jacks
PortInv ==
  /\ pc["watch"] # "off" => Elems(todo["keys"]) \cap PortCalls = {}
  /\ Elems(todo["watch"]) \cap PortCalls \subseteq {PortCall(had)}
  /\ device # "rg35xxplus" => Elems(todo["app"]) \cap Jacks = {}
  /\ Never("midInit") => Elems(todo["app"]) \cap Hdmis \subseteq {Hdmi(port)}
  /\ (/\ Never("midInit") /\ Never("early") /\ Never("blip") /\ Agree
      /\ pc["watch"] # "off" /\ had = port)
       => Flag(S) = port \/ (pc["watch"] = "next" /\ Call("watch") = PortCall(port))

Waking == asleep \/ Simple("wake") \in Elems(todo["app"])
Dark == ~ lit /\ ~ mon.busy /\ mon.had = port
DarkInv ==
  /\ Waking => pc["app"] \in Alive /\ Elems(todo["app"]) \cap Hdmis = {}
  /\ Never("unseen") =>
       /\ \A t \in Threads : Elems(todo[t]) \cap Hdmis \subseteq {Hdmi(port)}
       /\ Never("early") /\ Agree /\ Dark =>
            /\ ~ HostInit
            /\ Waking \/ pc["keys"] \in Alive
            /\ Hdmied(S) => port = 1 /\ pc["keys"] \in Alive
            /\ ~ Waking => Hdmied(S)

\* The last event of a key says whether it is held; without one keymon is right.
KeysInv ==
  /\ held \subseteq Keys /\ keys.down \subseteq Keys
  /\ events \in Seq([key : Keys, val : {0, 1}])
  /\ keys = [down |-> keys.down, just |-> keys.just]
  /\ \A k \in Keys :
       /\ k \notin Touched => (k \in keys.down => k \in held)
       /\ k \in Touched => \E i \in LastOf(k) : events[i].val = 1 <=> k \in held

SettingsInv == BaseInv /\ FileInv /\ MixerInv /\ NapInv /\ PortInv /\ DarkInv /\ KeysInv

-----------------------------------------------------------------------------
(* Queues of calls.                                                        *)

LEMMA ElemsOfNone == Elems(<<>>) = {}
BY DEF Elems

\* A queue with calls is its first and the rest.
LEMMA ElemsOfTail ==
  ASSUME NEW q \in Seq(Calls), q # <<>>
  PROVE  /\ Tail(q) \in Seq(Calls) /\ Head(q) \in Calls
         /\ Elems(q) = {Head(q)} \cup Elems(Tail(q))
<1>1. Tail(q) \in Seq(Calls) /\ Len(Tail(q)) = Len(q) - 1 /\ \A i \in 1 .. Len(Tail(q)) : Tail(q)[i] = q[i + 1]
  BY HeadTailProperties
<1>2. Head(q) = q[1] /\ Len(q) \in Nat \ {0} /\ Head(q) \in Calls
  BY HeadTailProperties
<1>3. DOMAIN q = 1 .. Len(q) /\ DOMAIN Tail(q) = 1 .. Len(Tail(q))
  BY <1>1
<1>4. ASSUME NEW x \in Elems(q) PROVE x \in {Head(q)} \cup Elems(Tail(q))
  <2> PICK i \in 1 .. Len(q) : x = q[i]
    BY <1>3, <1>4 DEF Elems
  <2>1. CASE i = 1
    BY <1>2, <2>1
  <2>2. CASE i # 1
    <3>1. i - 1 \in 1 .. Len(Tail(q)) /\ Tail(q)[i - 1] = q[(i - 1) + 1] /\ (i - 1) + 1 = i
      BY <1>1, <1>2, <2>2
    <3> QED
      BY <1>3, <3>1 DEF Elems
  <2> QED
    BY <2>1, <2>2
<1>5. ASSUME NEW x \in {Head(q)} \cup Elems(Tail(q)) PROVE x \in Elems(q)
  <2>1. CASE x = Head(q)
    <3>1. 1 \in 1 .. Len(q)
      BY <1>2
    <3> QED
      BY <1>2, <1>3, <2>1, <3>1 DEF Elems
  <2>2. CASE x \in Elems(Tail(q))
    <3> PICK i \in 1 .. Len(Tail(q)) : x = Tail(q)[i]
      BY <1>3, <2>2 DEF Elems
    <3>1. i + 1 \in 1 .. Len(q) /\ x = q[i + 1]
      BY <1>1, <1>2
    <3> QED
      BY <1>3, <3>1 DEF Elems
  <2> QED
    BY <1>5, <2>1, <2>2
<1> QED
  BY <1>1, <1>2, <1>4, <1>5

\* A call put before a queue.
LEMMA ElemsOfFirst ==
  ASSUME NEW q \in Seq(Calls), NEW c \in Calls
  PROVE  /\ <<c>> \o q \in Seq(Calls) /\ <<c>> \o q # <<>>
         /\ Head(<<c>> \o q) = c /\ Tail(<<c>> \o q) = q
         /\ Elems(<<c>> \o q) = {c} \cup Elems(q)
<1> DEFINE r == <<c>> \o q
<1>1. <<c>> \in Seq(Calls) /\ Len(<<c>>) = 1 /\ <<c>>[1] = c
  OBVIOUS
<1>2. /\ r \in Seq(Calls) /\ Len(r) = 1 + Len(q)
      /\ \A i \in 1 .. Len(r) : r[i] = IF i <= 1 THEN <<c>>[i] ELSE q[i - 1]
  BY <1>1, ConcatProperties
<1>3. Len(q) \in Nat
  OBVIOUS
<1> HIDE DEF r
<1>4. r # <<>> /\ Head(r) = c
  <2>1. 1 \in 1 .. Len(r)
    BY <1>2, <1>3
  <2>2. r[1] = c
    BY <1>1, <1>2, <2>1
  <2>3. r # <<>>
    BY <1>2, <1>3
  <2> QED
    BY <1>2, <2>2, <2>3, HeadTailProperties
<1>5. Tail(r) = q
  <2>1. Tail(r) \in Seq(Calls) /\ Len(Tail(r)) = Len(r) - 1 /\ \A i \in 1 .. Len(Tail(r)) : Tail(r)[i] = r[i + 1]
    BY <1>2, <1>4, HeadTailProperties
  <2>2. Len(Tail(r)) = Len(q)
    BY <1>2, <1>3, <2>1
  <2>3. ASSUME NEW i \in 1 .. Len(q) PROVE Tail(r)[i] = q[i]
    <3>1. i + 1 \in 1 .. Len(r) /\ ~ (i + 1 <= 1) /\ (i + 1) - 1 = i
      BY <1>2, <1>3
    <3>2. r[i + 1] = q[(i + 1) - 1]
      BY <1>2, <3>1
    <3> QED
      BY <2>1, <2>2, <3>1, <3>2
  <2> QED
    BY <2>1, <2>2, <2>3, SeqEqual
<1>6. Elems(r) = {c} \cup Elems(q)
  BY <1>2, <1>4, <1>5, ElemsOfTail
<1> QED
  BY <1>2, <1>4, <1>5, <1>6 DEF r

\* The kinds of calls.
LEMMA CallKinds ==
  ASSUME NEW c \in Calls
  PROVE  /\ c.call \in {"volume", "brightness"} <=> c \in Moves
         /\ c.call = "jack" <=> c \in Jacks
         /\ c.call = "hdmi" <=> c \in Hdmis
         /\ c.call = "sleep" <=> c = Simple("sleep")
         /\ c.call = "stop" <=> c = Simple("stop")
         /\ c.call = "cont" <=> c = Simple("cont")
         /\ c.call = "wake" <=> c = Simple("wake")
         /\ c \in Jacks => c = Jack(c.arg) /\ c.arg \in {0, 1}
         /\ c \in Hdmis => c = Hdmi(c.arg) /\ c.arg \in {0, 1}
         /\ c.call = "volume" => c = Volume(c.arg)
         /\ c \in Moves => c.arg \in {-1, 0, 1}
BY DEF Calls, Moves, Jacks, Hdmis, Naps, Volume, Brightness, Jack, Hdmi, Simple

LEMMA CallsDiffer ==
  /\ Moves \cap Jacks = {} /\ Moves \cap Hdmis = {} /\ Moves \cap Naps = {}
  /\ Jacks \cap Hdmis = {} /\ Jacks \cap Naps = {} /\ Hdmis \cap Naps = {}
  /\ Volume(0) \in Moves /\ Brightness(0) \in Moves /\ Volume(0) # Brightness(0)
  /\ Hdmi(0) # Hdmi(1) /\ Jack(0) # Jack(1)
  /\ Volume(0).call = "volume" /\ Volume(0).arg = 0 /\ Brightness(0).call = "brightness" /\ Hdmi(1).call = "hdmi"
BY DEF Moves, Jacks, Hdmis, Naps, Volume, Brightness, Jack, Hdmi, Simple
LEMMA NapsDiffer ==
  /\ Simple("sleep") # Simple("wake") /\ Simple("stop") # Simple("wake") /\ Simple("cont") # Simple("wake")
  /\ Simple("sleep") # Simple("stop") /\ Simple("sleep") # Simple("cont") /\ Simple("stop") # Simple("cont")
BY DEF Simple

-----------------------------------------------------------------------------
(* What a step of a thread's calls does, case by case.                     *)

Shaped(t) ==
  /\ pc' \in [Threads -> Pcs] /\ todo' \in [Threads -> Seq(Calls)]
  /\ \A u \in Threads : u # t => pc'[u] = pc[u] /\ todo'[u] = todo[u]
Goes(t, s) == Shaped(t) /\ pc'[t] = s /\ todo' = todo
Consumes(t) ==
  /\ Shaped(t) /\ todo'[t] = Tail(todo[t]) /\ Elems(todo[t]) = {Call(t)} \cup Elems(todo'[t])
  /\ pc'[t] \in {"idle", "next"} /\ (pc'[t] = "next" <=> todo'[t] # <<>>)
Replaces(t, new) ==
  /\ Shaped(t) /\ pc'[t] = "next" /\ todo'[t] # <<>>
  /\ Elems(todo'[t]) = new \cup Elems(Tail(todo[t])) /\ Elems(todo[t]) = {Call(t)} \cup Elems(Tail(todo[t]))

LEMMA StepGoes ==
  ASSUME Typed, NEW t \in Threads, NEW s \in Pcs, Step(t, s), UNCHANGED todo
  PROVE  Goes(t, s)
BY DEF Typed, Step, Goes, Shaped

LEMMA FinishConsumes ==
  ASSUME Typed, NEW t \in Threads, todo[t] # <<>>, Finish(t)
  PROVE  Consumes(t)
<1>1. todo[t] \in Seq(Calls) /\ Tail(todo[t]) \in Seq(Calls) /\ Elems(todo[t]) = {Call(t)} \cup Elems(Tail(todo[t]))
  BY ElemsOfTail DEF Typed, Call
<1>2. todo' = [todo EXCEPT ![t] = Tail(todo[t])] /\ pc' = [pc EXCEPT ![t] = Ready(Tail(todo[t]))]
  BY DEF Finish, Step
<1>3. Ready(Tail(todo[t])) \in {"idle", "next"} /\ (Ready(Tail(todo[t])) = "next" <=> Tail(todo[t]) # <<>>)
  BY DEF Ready
<1> QED
  BY <1>1, <1>2, <1>3 DEF Typed, Consumes, Shaped, Pcs, Alive, Acting

LEMMA InsteadReplaces ==
  ASSUME Typed, NEW t \in Threads, todo[t] # <<>>, NEW c \in Calls, NEW d \in Calls
  PROVE  /\ Instead(t, <<c>>) => Replaces(t, {c})
         /\ Instead(t, <<c, d>>) => Replaces(t, {c, d})
<1> DEFINE q == Tail(todo[t])
<1>1. todo[t] \in Seq(Calls) /\ q \in Seq(Calls) /\ Elems(todo[t]) = {Call(t)} \cup Elems(q)
  BY ElemsOfTail DEF Typed, Call
<1>2. <<c, d>> \o q = <<c>> \o (<<d>> \o q)
  <2>1. <<c>> \in Seq(Calls) /\ <<d>> \in Seq(Calls) /\ <<c, d>> \in Seq(Calls)
    OBVIOUS
  <2>2. Len(<<c>>) = 1 /\ Len(<<d>>) = 1 /\ Len(<<c, d>>) = 2 /\ <<c>>[1] = c /\ <<d>>[1] = d /\ <<c, d>>[1] = c /\ <<c, d>>[2] = d
    OBVIOUS
  <2> DEFINE r == <<c>> \o <<d>>
             cd == <<c, d>>
  <2>3. /\ r \in Seq(Calls) /\ Len(r) = 2
        /\ \A i \in 1 .. Len(r) : r[i] = IF i <= 1 THEN <<c>>[i] ELSE <<d>>[i - 1]
    BY <2>1, <2>2, ConcatProperties
  <2>4. r[1] = c /\ r[2] = d
    BY <2>2, <2>3
  <2>5. cd \in Seq(Calls) /\ Len(cd) = 2 /\ cd[1] = c /\ cd[2] = d
    BY <2>1, <2>2
  <2> HIDE DEF r, cd
  <2>6. cd = r
    <3>1. \A i \in 1 .. Len(r) : cd[i] = r[i]
      BY <2>3, <2>4, <2>5
    <3> QED
      BY <2>3, <2>5, <3>1, SeqEqual
  <2> QED
    BY <1>1, <2>1, <2>6, ConcatAssociative DEF r, cd
<1> HIDE DEF q
<1>3. ASSUME Instead(t, <<c>>) PROVE Replaces(t, {c})
  <2>1. todo' = [todo EXCEPT ![t] = <<c>> \o q] /\ pc' = [pc EXCEPT ![t] = "next"]
    BY <1>3 DEF Instead, Step, q
  <2>2. <<c>> \o q \in Seq(Calls) /\ <<c>> \o q # <<>> /\ Elems(<<c>> \o q) = {c} \cup Elems(q)
    BY <1>1, ElemsOfFirst
  <2> QED
    BY <1>1, <2>1, <2>2 DEF Typed, Replaces, Shaped, Pcs, Alive, Acting, q
<1>4. ASSUME Instead(t, <<c, d>>) PROVE Replaces(t, {c, d})
  <2>1. todo' = [todo EXCEPT ![t] = <<c, d>> \o q] /\ pc' = [pc EXCEPT ![t] = "next"]
    BY <1>4 DEF Instead, Step, q
  <2>2. <<d>> \o q \in Seq(Calls) /\ Elems(<<d>> \o q) = {d} \cup Elems(q)
    BY <1>1, ElemsOfFirst
  <2>3. /\ <<c>> \o (<<d>> \o q) \in Seq(Calls) /\ <<c>> \o (<<d>> \o q) # <<>>
        /\ Elems(<<c>> \o (<<d>> \o q)) = {c} \cup Elems(<<d>> \o q)
    BY <2>2, ElemsOfFirst
  <2> QED
    BY <1>1, <1>2, <2>1, <2>2, <2>3 DEF Typed, Replaces, Shaped, Pcs, Alive, Acting, q
<1> QED
  BY <1>3, <1>4

\* The object a thread's process has mapped, and a store into it.
Mine(t) == mapped[ProcessOf[t]]
Stores(t, s) ==
  /\ ShmOK(shm') /\ shm'.key = shm.key /\ shm'.sized = shm.sized /\ shm'.mem[Mine(t)] = s
  /\ \A o \in Objects : o # Mine(t) => shm'.mem[o] = shm.mem[o]

LEMMA HasObject ==
  ASSUME BaseInv, NEW t \in Threads, pc[t] \in Alive
  PROVE  Mine(t) \in Objects /\ Mine(t) \in shm.sized /\ Now(t) = shm.mem[Mine(t)] /\ Now(t) \in Settings
<1>1. Mine(t) \in Objects /\ Mine(t) \in shm.sized
  BY DEF BaseInv, Typed, ShmOK, Control, Shared, Objected, Mine, ProcessOf, Threads, Processes, Alive, Acting, None
<1> QED
  BY <1>1 DEF BaseInv, Typed, ShmOK, Now, Mine

LEMMA PutStores ==
  ASSUME Typed, NEW t \in Threads, Mine(t) \in Objects, NEW s \in Settings, Put(t, s)
  PROVE  Stores(t, s)
<1> DEFINE o == Mine(t)
<1>1. shm' = [shm EXCEPT !.mem[o] = s]
  BY DEF Put, Mine
<1>2. ShmOK(shm) /\ o \in Objects
  BY DEF Typed
<1> HIDE DEF o
<1> QED
  BY <1>1, <1>2 DEF Stores, ShmOK, o

\* The values the setters store.
LEMMA StoredIsSettings ==
  ASSUME NEW s \in Settings
  PROVE  /\ \A v \in 0 .. VOLUME_MAX : WithVolume(s, v) \in Settings /\ GetVolume(WithVolume(s, v)) = v
                 /\ WithVolume(s, v).hdmi = s.hdmi /\ WithVolume(s, v).jack = s.jack
                 /\ WithVolume(s, v).version = s.version
         /\ \A v \in 0 .. BRIGHTNESS_MAX : LET r == [s EXCEPT !.brightness = v] IN
                 /\ r \in Settings /\ GetVolume(r) = GetVolume(s)
                 /\ r.hdmi = s.hdmi /\ r.jack = s.jack /\ r.version = s.version
         /\ \A v \in {0, 1} : LET r == [s EXCEPT !.jack = v] IN
                 r \in Settings /\ r.jack = v /\ r.hdmi = s.hdmi /\ Levels(r) = Levels(s)
         /\ \A v \in {0, 1} : LET r == [s EXCEPT !.hdmi = v] IN
                 /\ r \in Settings /\ r.hdmi = v /\ r.jack = s.jack
                 /\ Levels(r) = Levels(s) /\ GetVolume(r) = GetVolume(s)
         /\ GetVolume(s) \in 0 .. VOLUME_MAX /\ GetBrightness(s) \in 0 .. BRIGHTNESS_MAX
BY DEF Settings, WithVolume, GetVolume, GetBrightness, Levels

-----------------------------------------------------------------------------
(* The kinds of steps a thread makes in its calls.                         *)

\* What they all leave alone, and what is noted.
Acts(t) ==
  /\ pc[t] \in Acting /\ todo[t] # <<>> /\ Shaped(t)
  /\ UNCHANGED <<device, mapped, isHost, keys, held, events, port, had, mon, asleep>>
  /\ shm'.key = shm.key /\ shm'.sized = shm.sized /\ ShmOK(shm')
  /\ past \subseteq past' /\ past' \subseteq past \cup {"overlap", "fault"}
\* A call that begins beside another's setter is noted.
Begins(t) == pc[t] = "next" /\ ("overlap" \notin past' => \A u \in Threads : u # t => ~ InSetter(u))
Files == fs' = fs /\ fd' = fd /\ wrote' = wrote
Outs == mixer' = mixer /\ lit' = lit

DoGet(t) ==
  /\ Acts(t) /\ Begins(t) /\ Files /\ Outs /\ shm' = shm
  /\ Goes(t, "first") /\ Call(t) \in Moves /\ reg' \in [Threads -> Nat] /\ reg'[t] \in 0 .. Highest(Call(t).call)
  /\ \A u \in Threads : u # t => reg'[u] = reg[u]
DoSkip(t) ==
  /\ Acts(t) /\ Files /\ Outs /\ shm' = shm /\ reg' = reg /\ Consumes(t)
  /\ \/ pc[t] = "next" /\ Call(t) \in (Moves \ {Volume(0)}) \cup {Simple("stop"), Simple("cont")}
     \/ pc[t] = "next" /\ Call(t) = Simple("wake") /\ Hdmied(Now(t))
     \/ pc[t] = "first" /\ Hdmied(Now(t))
DoStore(t) ==
  /\ Acts(t) /\ Files /\ Outs /\ reg' = reg /\ pc[t] = "first" /\ ~ Hdmied(Now(t)) /\ Call(t) \in Moves
  /\ \/ Call(t).call = "volume" /\ Goes(t, "second") /\ Stores(t, WithVolume(Now(t), reg[t]))
     \/ Call(t).call # "volume" /\ Goes(t, "open") /\ Stores(t, [Now(t) EXCEPT !.brightness = reg[t]])
DoMix(t) ==
  /\ Acts(t) /\ Files /\ shm' = shm /\ reg' = reg /\ lit' = lit
  /\ pc[t] = "second" /\ Call(t).call = "volume" /\ mixer' = reg[t] /\ Goes(t, "open")
DoJack(t) ==
  /\ Acts(t) /\ Begins(t) /\ Files /\ Outs /\ reg' = reg /\ Call(t) \in Jacks
  /\ Stores(t, [Now(t) EXCEPT !.jack = Call(t).arg]) /\ Replaces(t, {Volume(0)})
DoHdmi(t) ==
  /\ Acts(t) /\ Begins(t) /\ Files /\ Outs /\ reg' = reg /\ Call(t) \in Hdmis
  /\ Stores(t, [Now(t) EXCEPT !.hdmi = Call(t).arg])
  /\ IF Call(t) = Hdmi(1) THEN Goes(t, "second") ELSE Replaces(t, {Volume(0)})
DoHdmiMix(t) ==
  /\ Acts(t) /\ Files /\ shm' = shm /\ reg' = reg /\ lit' = lit
  /\ pc[t] = "second" /\ Call(t) = Hdmi(1) /\ mixer' = VOLUME_MAX /\ Consumes(t)
DoSleep(t) ==
  /\ Acts(t) /\ Begins(t) /\ Files /\ shm' = shm /\ reg' = reg /\ Call(t) = Simple("sleep")
  /\ Replaces(t, {Simple("stop")}) /\ IF Hdmied(Now(t)) THEN Outs ELSE mixer' = 0 /\ lit' = FALSE
DoWake(t) ==
  /\ Acts(t) /\ Begins(t) /\ Files /\ shm' = shm /\ reg' = reg /\ Call(t) = Simple("wake")
  /\ ~ Hdmied(Now(t)) /\ Replaces(t, {Brightness(0), Volume(0)}) /\ mixer' = mixer /\ lit' = TRUE
\* What the open, the write and the rename do to the names and the files.
Sets(f, g, t, x) == g \in [Threads -> Inodes \cup {None}] /\ g[t] = x /\ \A u \in Threads : u # t => g[u] = f[u]
Wrote(t, x) == wrote' \in [Threads -> BOOLEAN] /\ (wrote'[t] <=> x) /\ \A u \in Threads : u # t => wrote'[u] = wrote[u]
Opens(t) ==
  /\ FsOK(fs') /\ fs'.tmp \in Inodes /\ fs'.path = fs.path /\ fs'.data[fs'.tmp] = <<>>
  /\ \A i \in Inodes : i # fs'.tmp => fs'.data[i] = fs.data[i]
  /\ fs.tmp # None => fs'.tmp = fs.tmp
  /\ fs.tmp = None => fs'.tmp # fs.path /\ \A u \in Threads : fd[u] # fs'.tmp
  /\ Sets(fd, fd', t, fs'.tmp)
Writes(t) ==
  /\ FsOK(fs') /\ fs'.tmp = fs.tmp /\ fs'.path = fs.path /\ fs'.data[fd[t]] = <<Now(t)>>
  /\ \A i \in Inodes : i # fd[t] => fs'.data[i] = fs.data[i]
  /\ Wrote(t, TRUE) /\ past' = past
Renames(t) ==
  /\ FsOK(fs') /\ Sets(fd, fd', t, None) /\ Wrote(t, FALSE)
  /\ IF wrote[t] /\ fs.tmp # None THEN fs'.path = fs.tmp /\ fs'.tmp = None ELSE fs'.path = fs.path /\ fs'.tmp = fs.tmp
  /\ \A i \in Inodes : fs'.data[i] = fs.data[i] \/ (fs'.data[i] = <<>> /\ i \notin {fs'.tmp, fs'.path} /\ \A u \in Threads : fd'[u] # i)
DoOpen(t) ==
  /\ Acts(t) /\ Outs /\ shm' = shm /\ reg' = reg /\ past' = past /\ wrote' = wrote
  /\ pc[t] = "open" /\ Opens(t) /\ Goes(t, "write")
DoWrite(t) ==
  /\ Acts(t) /\ Outs /\ shm' = shm /\ reg' = reg /\ fd' = fd /\ pc[t] = "write" /\ Goes(t, "rename")
  /\ Writes(t) \/ (fs' = fs /\ Wrote(t, FALSE) /\ "fault" \in past')
DoRename(t) ==
  /\ Acts(t) /\ Outs /\ shm' = shm /\ past' = past /\ pc[t] = "rename" /\ Renames(t) /\ Consumes(t)
  /\ reg' \in [Threads -> Nat] /\ \A u \in Threads : u # t => reg'[u] = reg[u]
Does(t) ==
  \/ DoGet(t) \/ DoSkip(t) \/ DoStore(t) \/ DoMix(t) \/ DoJack(t) \/ DoHdmi(t) \/ DoHdmiMix(t)
  \/ DoSleep(t) \/ DoWake(t) \/ DoOpen(t) \/ DoWrite(t) \/ DoRename(t)

\* What every step of a thread has in common.
LEMMA ActsCommon ==
  ASSUME BaseInv, NEW t \in Threads, pc[t] \in Acting
  PROVE  /\ todo[t] # <<>> /\ Call(t) \in Calls /\ AtCall(t, Call(t)) /\ Own(t)
         /\ Mine(t) \in Objects /\ Now(t) = shm.mem[Mine(t)] /\ Now(t) \in Settings
         /\ Elems(todo[t]) = {Call(t)} \cup Elems(Tail(todo[t])) /\ Tail(todo[t]) \in Seq(Calls)
         /\ ShmOK(shm) /\ Typed
<1>1. Own(t) /\ todo[t] # <<>> /\ AtCall(t, Call(t)) /\ todo[t] \in Seq(Calls) /\ ShmOK(shm) /\ Typed
  BY DEF BaseInv, Typed, Control, Own
<1>2. Call(t) \in Calls /\ Elems(todo[t]) = {Call(t)} \cup Elems(Tail(todo[t])) /\ Tail(todo[t]) \in Seq(Calls)
  BY <1>1, ElemsOfTail DEF Call
<1>3. Mine(t) \in Objects /\ Now(t) = shm.mem[Mine(t)] /\ Now(t) \in Settings
  BY HasObject DEF Alive
<1> QED
  BY <1>1, <1>2, <1>3

\* Reading the old level.
LEMMA GetDoes ==
  ASSUME BaseInv, NEW t \in Threads, Get(t)
  PROVE  DoGet(t) \/ DoSkip(t)
<1> USE DEF Acting, Pcs, Alive
<1> DEFINE c == Call(t)
           v == Level(t) + c.arg
           h == Highest(c.call)
<1>1. pc[t] = "next" /\ c.call \in {"volume", "brightness"} /\ Racing(t)
      /\ UNCHANGED <<shmVars, fileVars, outVars, envVars, acts>>
  BY DEF Get
<1>2. /\ todo[t] # <<>> /\ c \in Calls /\ c \in Moves /\ Now(t) \in Settings /\ ShmOK(shm) /\ Typed
      /\ c.arg \in {-1, 0, 1}
  BY <1>1, ActsCommon, CallKinds
<1>3. past \subseteq past' /\ past' \subseteq past \cup {"overlap"} /\ Begins(t)
  BY <1>1 DEF Racing, NoteIf, Begins, InSetter
<1>4. ASSUME Shaped(t) PROVE Acts(t)
  BY <1>1, <1>2, <1>3, <1>4 DEF Acts, shmVars, outVars, envVars, keyVars, portVars, sleepVars
<1>5. Level(t) \in 0 .. h /\ h \in Nat
  BY <1>1, <1>2, StoredIsSettings, SettingsAssumption DEF Level, Highest
<1>6. CASE v \in 0 .. h
  <2>1. reg' = [reg EXCEPT ![t] = v] /\ Step(t, "first") /\ UNCHANGED todo
    BY <1>6 DEF Get
  <2>2. Goes(t, "first") /\ v \in Nat
    BY <1>2, <1>5, <1>6, <2>1, StepGoes
  <2>3. reg \in [Threads -> Nat]
    BY <1>2 DEF Typed
  <2> HIDE DEF v, h
  <2> QED
    BY <1>1, <1>2, <1>3, <1>4, <1>6, <2>1, <2>2, <2>3 DEF DoGet, Goes, Files, Outs, shmVars, fileVars, outVars, h
<1>7. CASE v \notin 0 .. h
  <2>1. Finish(t) /\ UNCHANGED reg
    BY <1>7 DEF Get
  <2>2. Consumes(t)
    BY <1>2, <2>1, FinishConsumes
  <2>3. c # Volume(0)
    BY <1>5, <1>7 DEF Volume
  <2> HIDE DEF v, h
  <2> QED
    BY <1>1, <1>2, <1>3, <1>4, <2>1, <2>2, <2>3 DEF DoSkip, Consumes, Files, Outs, shmVars, fileVars, outVars
<1> QED
  BY <1>6, <1>7

\* A step of a setter or of a nap.
LEMMA SetterDoes ==
  ASSUME BaseInv, NEW t \in Threads, Setter(t)
  PROVE  Does(t)
<1> USE DEF Acting, Pcs, Alive
<1> DEFINE c == Call(t)
           s == Now(t)
<1>1. /\ pc[t] \in {"next", "first", "second"} /\ (IF pc[t] = "next" THEN Racing(t) ELSE UNCHANGED past)
      /\ UNCHANGED <<device, mapped, isHost, reg, fileVars, keyVars, portVars, acts>>
  BY DEF Setter
<1>2. /\ todo[t] # <<>> /\ c \in Calls /\ AtCall(t, c) /\ s \in Settings /\ ShmOK(shm) /\ Typed /\ Mine(t) \in Objects
      /\ c \in Jacks => c = Jack(c.arg) /\ c.arg \in {0, 1}
      /\ c \in Hdmis => c = Hdmi(c.arg) /\ c.arg \in {0, 1}
  BY <1>1, ActsCommon, CallKinds
<1>3. past \subseteq past' /\ past' \subseteq past \cup {"overlap"} /\ (pc[t] = "next" => Begins(t))
  BY <1>1 DEF Racing, NoteIf, Begins, InSetter
<1>4. ASSUME Shaped(t), mon' = mon, asleep' = asleep, shm' = shm \/ (\E x \in Settings : Stores(t, x)) PROVE Acts(t)
  BY <1>1, <1>2, <1>3, <1>4 DEF Acts, keyVars, portVars, Stores
<1>5. Files /\ reg' = reg
  BY <1>1 DEF fileVars, Files
<1>6. CASE SetVolume(t)
  <2>1. c.call = "volume" /\ c \in Moves /\ mon' = mon /\ lit' = lit /\ asleep' = asleep
    BY <1>2, <1>6, CallKinds DEF SetVolume, sleepVars
  <2>2. CASE pc[t] = "first" /\ Hdmied(s) /\ Finish(t) /\ UNCHANGED <<shm, mixer>>
    BY <1>2, <1>4, <1>5, <2>1, <2>2, FinishConsumes DEF Does, DoSkip, Consumes, Outs
  <2>3. CASE pc[t] = "first" /\ ~ Hdmied(s) /\ Put(t, WithVolume(s, reg[t])) /\ Step(t, "second") /\ UNCHANGED <<todo, mixer>>
    <3>1. reg[t] \in 0 .. VOLUME_MAX
      BY <1>2, <2>1, <2>3 DEF AtCall, Highest
    <3>2. WithVolume(s, reg[t]) \in Settings
      BY <1>2, <3>1, StoredIsSettings
    <3>3. Stores(t, WithVolume(s, reg[t])) /\ Goes(t, "second")
      BY <1>2, <2>3, <3>2, PutStores, StepGoes
    <3> QED
      BY <1>4, <1>5, <2>1, <2>3, <3>2, <3>3 DEF Does, DoStore, Goes, Outs
  <2>4. CASE pc[t] = "second" /\ mixer' = reg[t] /\ Step(t, "open") /\ UNCHANGED <<todo, shm>>
    <3>1. Goes(t, "open")
      BY <1>2, <2>4, StepGoes
    <3> QED
      BY <1>4, <1>5, <2>1, <2>4, <3>1 DEF Does, DoMix, Goes
  <2> QED
    BY <1>6, <2>2, <2>3, <2>4 DEF SetVolume
<1>7. CASE SetBrightness(t)
  <2>1. c.call = "brightness" /\ c.call # "volume" /\ c \in Moves /\ pc[t] = "first" /\ mon' = mon /\ lit' = lit /\ mixer' = mixer /\ asleep' = asleep
    BY <1>2, <1>7, CallKinds DEF SetBrightness, sleepVars, outVars
  <2>2. CASE Hdmied(s)
    <3>1. Finish(t) /\ UNCHANGED shm
      BY <1>7, <2>2 DEF SetBrightness
    <3> QED
      BY <1>2, <1>4, <1>5, <2>1, <2>2, <3>1, FinishConsumes DEF Does, DoSkip, Consumes, Outs
  <2>3. CASE ~ Hdmied(s)
    <3> DEFINE r == [s EXCEPT !.brightness = reg[t]]
    <3>1. Put(t, r) /\ Step(t, "open") /\ UNCHANGED todo
      BY <1>7, <2>3 DEF SetBrightness
    <3>2. reg[t] \in 0 .. BRIGHTNESS_MAX
      BY <1>2, <2>1 DEF AtCall, Highest
    <3>3. r \in Settings
      BY <1>2, <3>2, StoredIsSettings
    <3> HIDE DEF r
    <3>4. Stores(t, r) /\ Goes(t, "open")
      BY <1>2, <3>1, <3>3, PutStores, StepGoes
    <3> QED
      BY <1>4, <1>5, <2>1, <2>3, <3>3, <3>4 DEF Does, DoStore, Goes, Outs, r
  <2> QED
    BY <2>2, <2>3
<1>8. CASE SetJack(t)
  <2> DEFINE r == [s EXCEPT !.jack = c.arg]
  <2>1. /\ c \in Jacks /\ pc[t] = "next" /\ mon' = mon /\ lit' = lit /\ mixer' = mixer /\ asleep' = asleep
        /\ Put(t, r) /\ Instead(t, <<Volume(0)>>)
    BY <1>2, <1>8, CallKinds DEF SetJack, sleepVars, outVars
  <2>2. r \in Settings
    BY <1>2, <2>1, StoredIsSettings
  <2>3. Volume(0) \in Calls
    BY CallsDiffer DEF Calls
  <2> HIDE DEF r
  <2>4. Stores(t, r) /\ Replaces(t, {Volume(0)})
    BY <1>2, <2>1, <2>2, <2>3, PutStores, InsteadReplaces
  <2> QED
    BY <1>3, <1>4, <1>5, <2>1, <2>2, <2>4 DEF Does, DoJack, Replaces, Outs, r
<1>9. CASE SetHDMI(t)
  <2>1. c \in Hdmis /\ mon' = mon /\ lit' = lit /\ asleep' = asleep
    BY <1>2, <1>9, CallKinds DEF SetHDMI, sleepVars
  <2>2. c = Hdmi(1) <=> c.arg = 1
    BY <1>2, <2>1, CallsDiffer DEF Hdmi
  <2>3. CASE pc[t] = "next"
    <3> DEFINE r == [s EXCEPT !.hdmi = c.arg]
    <3>1. /\ Put(t, r) /\ mixer' = mixer
          /\ IF c.arg = 1 THEN Step(t, "second") /\ UNCHANGED todo ELSE Instead(t, <<Volume(0)>>)
      BY <1>9, <2>3 DEF SetHDMI
    <3>2. r \in Settings
      BY <1>2, <2>1, StoredIsSettings
    <3>3. Volume(0) \in Calls
      BY CallsDiffer DEF Calls
    <3> HIDE DEF r
    <3>4. Stores(t, r) /\ IF c = Hdmi(1) THEN Goes(t, "second") ELSE Replaces(t, {Volume(0)})
      BY <1>2, <2>2, <3>1, <3>2, <3>3, PutStores, InsteadReplaces, StepGoes
    <3> QED
      BY <1>3, <1>4, <1>5, <2>1, <2>3, <3>1, <3>2, <3>4 DEF Does, DoHdmi, Goes, Replaces, Outs, r
  <2>4. CASE pc[t] # "next"
    <3>1. pc[t] = "second" /\ mixer' = VOLUME_MAX /\ Finish(t) /\ UNCHANGED shm
      BY <1>9, <2>4 DEF SetHDMI
    <3>2. c = Hdmi(1)
      BY <1>2, <2>1, <3>1, CallKinds DEF AtCall
    <3> QED
      BY <1>2, <1>4, <1>5, <2>1, <3>1, <3>2, FinishConsumes DEF Does, DoHdmiMix, Consumes
  <2> QED
    BY <2>3, <2>4
<1>10. CASE SleepCalls(t)
  <2>1. pc[t] = "next" /\ mon' = mon /\ shm' = shm
    BY <1>10 DEF SleepCalls
  <2>2. Begins(t) /\ \A x \in Naps : x \in Calls
    BY <1>3, <2>1 DEF Calls
  <2>3. CASE c.call = "sleep"
    <3>1. /\ IF Hdmied(s) THEN UNCHANGED <<mixer, lit>> ELSE mixer' = 0 /\ lit' = FALSE
          /\ Instead(t, <<Simple("stop")>>) /\ asleep' = asleep
      BY <1>10, <2>3 DEF SleepCalls, sleepVars
    <3>2. c = Simple("sleep") /\ Replaces(t, {Simple("stop")})
      BY <1>2, <2>2, <2>3, <3>1, CallKinds, InsteadReplaces DEF Naps
    <3> QED
      BY <1>4, <1>5, <2>1, <2>2, <3>1, <3>2 DEF Does, DoSleep, Replaces, Outs
  <2>4. CASE c.call \in {"stop", "cont"}
    <3>1. Finish(t) /\ UNCHANGED <<mixer, lit, asleep>>
      BY <1>10, <2>4 DEF SleepCalls
    <3>2. c \in {Simple("stop"), Simple("cont")} /\ Consumes(t)
      BY <1>2, <2>4, <3>1, CallKinds, FinishConsumes
    <3> QED
      BY <1>4, <1>5, <2>1, <3>1, <3>2 DEF Does, DoSkip, Consumes, Outs
  <2>5. CASE c.call = "wake"
    <3>1. /\ IF Hdmied(s) THEN Finish(t) /\ UNCHANGED lit ELSE lit' = TRUE /\ Instead(t, <<Brightness(0), Volume(0)>>)
          /\ mixer' = mixer /\ asleep' = asleep
      BY <1>10, <2>5 DEF SleepCalls, sleepVars
    <3>2. c = Simple("wake") /\ Volume(0) \in Calls /\ Brightness(0) \in Calls
      BY <1>2, <2>5, CallKinds, CallsDiffer DEF Calls
    <3>3. CASE Hdmied(s)
      BY <1>2, <1>4, <1>5, <2>1, <3>1, <3>2, <3>3, FinishConsumes DEF Does, DoSkip, Consumes, Outs
    <3>4. CASE ~ Hdmied(s)
      <4>1. Replaces(t, {Brightness(0), Volume(0)})
        BY <1>2, <3>1, <3>2, <3>4, InsteadReplaces
      <4> QED
        BY <1>4, <1>5, <2>1, <2>2, <3>1, <3>2, <3>4, <4>1 DEF Does, DoWake, Replaces
    <3> QED
      BY <3>3, <3>4
  <2> QED
    BY <1>10, <2>3, <2>4, <2>5 DEF SleepCalls
<1> QED
  BY <1>6, <1>7, <1>8, <1>9, <1>10 DEF Setter

\* There is always an inode left for a new file.
LEMMA OpenOpens ==
  ASSUME BaseInv, NEW t \in Threads, OpenTmp(t)
  PROVE  Opens(t)
<1>1. /\ pc[t] = "open" /\ fs' = [fs EXCEPT !.tmp = Target, !.data[Target] = <<>>] /\ fd' = [fd EXCEPT ![t] = Target]
      /\ FsOK(fs) /\ fd \in [Threads -> Inodes \cup {None}]
  BY DEF OpenTmp, BaseInv, Typed
<1>2. fd[t] = None
  BY <1>1 DEF BaseInv, Control, Own
<1>3. fs.tmp = None => FreeInode \in Inodes /\ FreeInode # fs.path /\ \A u \in Threads : fd[u] # FreeInode
  <2> SUFFICES ASSUME fs.tmp = None PROVE \E i \in Inodes : i \notin {fs.tmp, fs.path} /\ \A u \in Threads : fd[u] # i
    BY DEF FreeInode
  <2>2. PICK u \in Threads, v \in Threads : \A w \in Threads : w \in {t, u, v}
    BY DEF Threads
  <2> DEFINE a == fs.path
             b == fd[u]
             d == fd[v]
  <2>5. a \in Inodes \cup {None} /\ b \in Inodes \cup {None} /\ d \in Inodes \cup {None}
    BY <1>1, <2>2 DEF FsOK
  <2> HIDE DEF a, b, d
  <2>6. \E i \in Inodes : i # a /\ i # b /\ i # d
    <3>1. CASE 1 \notin {a, b, d}
      BY <3>1 DEF Inodes
    <3>2. CASE 2 \notin {a, b, d}
      BY <3>2 DEF Inodes
    <3>3. CASE 3 \notin {a, b, d}
      BY <3>3 DEF Inodes
    <3>4. CASE 4 \notin {a, b, d}
      BY <3>4 DEF Inodes
    <3> QED
      BY <3>1, <3>2, <3>3, <3>4
  <2>3. PICK i \in Inodes : i # a /\ i # b /\ i # d
    BY <2>6
  <2>4. i # None
    BY <2>3 DEF Inodes, None
  <2> QED
    BY <1>2, <2>2, <2>3, <2>4 DEF a, b, d
<1>4. Target \in Inodes /\ (fs.tmp # None => Target = fs.tmp)
      /\ (fs.tmp = None => Target # fs.path /\ \A u \in Threads : fd[u] # Target)
  BY <1>1, <1>3 DEF Target, FsOK
<1> DEFINE i == Target
<1> HIDE DEF i
<1>5. fs' = [fs EXCEPT !.tmp = i, !.data[i] = <<>>] /\ i \in Inodes
  BY <1>1, <1>4 DEF i
<1>6. FsOK(fs') /\ fs'.tmp = i /\ fs'.path = fs.path /\ fs'.data[i] = <<>> /\ \A j \in Inodes : j # i => fs'.data[j] = fs.data[j]
  <2>1. <<>> \in Contents
    BY DEF Contents
  <2> DEFINE e == <<>>
  <2>2. e \in Contents /\ fs' = [fs EXCEPT !.tmp = i, !.data[i] = e]
    BY <1>5, <2>1
  <2> HIDE DEF e
  <2>4. fs' = [tmp |-> i, path |-> fs.path, data |-> [fs.data EXCEPT ![i] = e]]
    BY <1>1, <2>2 DEF FsOK
  <2> DEFINE d == [fs.data EXCEPT ![i] = e]
  <2>5. fs.data \in [Inodes -> Contents] /\ fs.path \in Inodes \cup {None}
    BY <1>1 DEF FsOK
  <2>6. d \in [Inodes -> Contents] /\ d[i] = e /\ \A j \in Inodes : j # i => d[j] = fs.data[j]
    BY <1>5, <2>2, <2>5
  <2>7. fs' = [tmp |-> i, path |-> fs.path, data |-> d]
    BY <2>4
  <2> HIDE DEF d
  <2>8. fs'.tmp = i /\ fs'.path = fs.path /\ fs'.data = d
    BY <2>7
  <2>9. fs' = [tmp |-> fs'.tmp, path |-> fs'.path, data |-> fs'.data]
    BY <2>7, <2>8
  <2>3. FsOK(fs') /\ fs'.tmp = i /\ fs'.path = fs.path /\ fs'.data[i] = e /\ \A j \in Inodes : j # i => fs'.data[j] = fs.data[j]
    BY <1>5, <2>5, <2>6, <2>8, <2>9 DEF FsOK
  <2> QED
    BY <2>3 DEF e
<1> QED
  BY <1>1, <1>4, <1>5, <1>6 DEF Opens, Sets, i

LEMMA RenameRenames ==
  ASSUME BaseInv, NEW t \in Threads, RenameTmp(t)
  PROVE  Renames(t)
<1> DEFINE f == IF wrote[t] /\ fs.tmp # None THEN [fs EXCEPT !.path = fs.tmp, !.tmp = None] ELSE fs
<1>1. /\ fs' = Reachable(f, fd') /\ fd' = [fd EXCEPT ![t] = None] /\ wrote' = [wrote EXCEPT ![t] = FALSE]
      /\ FsOK(fs) /\ fd \in [Threads -> Inodes \cup {None}] /\ wrote \in [Threads -> BOOLEAN]
  BY DEF RenameTmp, BaseInv, Typed
<1>2. /\ FsOK(f) /\ f.data = fs.data
      /\ IF wrote[t] /\ fs.tmp # None THEN f.path = fs.tmp /\ f.tmp = None ELSE f.path = fs.path /\ f.tmp = fs.tmp
  BY <1>1 DEF FsOK
<1> HIDE DEF f
<1>3. /\ FsOK(fs') /\ fs'.tmp = f.tmp /\ fs'.path = f.path
      /\ \A i \in Inodes : fs'.data[i] = f.data[i] \/ (fs'.data[i] = <<>> /\ i \notin {f.tmp, f.path} /\ \A u \in Threads : fd'[u] # i)
  BY <1>1, <1>2 DEF Reachable, FsOK, Contents
<1>4. Sets(fd, fd', t, None) /\ Wrote(t, FALSE)
  BY <1>1 DEF Sets, Wrote
<1> QED
  BY <1>2, <1>3, <1>4 DEF Renames

LEMMA WriteWrites ==
  ASSUME BaseInv, NEW t \in Threads, WriteTmp(t)
  PROVE  Writes(t) \/ (fs' = fs /\ Wrote(t, FALSE) /\ "fault" \in past')
<1>1. pc[t] = "write" /\ FsOK(fs) /\ fd \in [Threads -> Inodes \cup {None}] /\ wrote \in [Threads -> BOOLEAN]
  BY DEF WriteTmp, BaseInv, Typed
<1>2. fd[t] \in Inodes
  BY <1>1 DEF BaseInv, Control, Own
<1>3. Now(t) \in Settings
  BY <1>1, ActsCommon DEF Acting
<1>4. CASE fs' = [fs EXCEPT !.data[fd[t]] = <<Now(t)>>] /\ wrote' = [wrote EXCEPT ![t] = TRUE] /\ past' = past
  <2> DEFINE i == fd[t]
             n == <<Now(t)>>
  <2>1. i \in Inodes /\ n \in Contents /\ fs' = [fs EXCEPT !.data[i] = n]
    BY <1>2, <1>3, <1>4 DEF Contents
  <2> HIDE DEF i, n
  <2>2. FsOK(fs') /\ fs'.tmp = fs.tmp /\ fs'.path = fs.path /\ fs'.data[i] = n /\ \A j \in Inodes : j # i => fs'.data[j] = fs.data[j]
    BY <1>1, <2>1 DEF FsOK
  <2>3. Wrote(t, TRUE)
    BY <1>1, <1>4 DEF Wrote
  <2> QED
    BY <1>4, <2>2, <2>3 DEF Writes, i, n
<1>5. CASE Note("fault") /\ wrote' = [wrote EXCEPT ![t] = FALSE] /\ fs' = fs
  BY <1>1, <1>5 DEF Note, Wrote
<1> QED
  BY <1>4, <1>5 DEF WriteTmp

\* A step of a save.
LEMMA SaveDoes ==
  ASSUME BaseInv, NEW t \in Threads, SaveSettings(t)
  PROVE  Does(t)
<1> USE DEF Acting, Pcs, Alive
<1>1. CASE OpenTmp(t)
  <2>1. Typed /\ todo[t] # <<>> /\ ShmOK(shm) /\ pc[t] = "open"
    BY <1>1, ActsCommon DEF OpenTmp
  <2>2. Goes(t, "write")
    BY <1>1, <2>1, StepGoes DEF OpenTmp
  <2> QED
    BY <1>1, <2>1, <2>2, OpenOpens DEF OpenTmp, Does, DoOpen, Acts, Goes, Outs, shmVars, outVars, envVars, keyVars, portVars, sleepVars
<1>2. CASE WriteTmp(t)
  <2>1. Typed /\ todo[t] # <<>> /\ ShmOK(shm) /\ pc[t] = "write"
    BY <1>2, ActsCommon DEF WriteTmp
  <2>2. Goes(t, "rename")
    BY <1>2, <2>1, StepGoes DEF WriteTmp
  <2>3. past \subseteq past' /\ past' \subseteq past \cup {"fault"}
    BY <1>2 DEF WriteTmp, Note
  <2>4. UNCHANGED <<shmVars, todo, reg, fd, outVars, envVars>>
    BY <1>2 DEF WriteTmp
  <2> QED
    BY <1>2, <2>1, <2>2, <2>3, <2>4, WriteWrites DEF Does, DoWrite, Acts, Goes, Outs, shmVars, outVars, envVars, keyVars, portVars, sleepVars
<1>3. CASE RenameTmp(t)
  <2>1. Typed /\ todo[t] # <<>> /\ ShmOK(shm) /\ pc[t] = "rename"
    BY <1>3, ActsCommon DEF RenameTmp
  <2>2. Consumes(t)
    BY <1>3, <2>1, FinishConsumes DEF RenameTmp
  <2>3. reg' \in [Threads -> Nat] /\ \A u \in Threads : u # t => reg'[u] = reg[u]
    BY <1>3, <2>1 DEF RenameTmp, Typed
  <2>4. UNCHANGED <<shmVars, outVars, envVars, past, acts>>
    BY <1>3 DEF RenameTmp
  <2> QED
    BY <1>3, <2>1, <2>2, <2>3, <2>4, RenameRenames DEF Does, DoRename, Acts, Consumes, Outs, shmVars, outVars, envVars, keyVars, portVars, sleepVars
<1> QED
  BY <1>1, <1>2, <1>3 DEF SaveSettings

-----------------------------------------------------------------------------
(* Types, control and shared memory: a thread's calls.                     *)

\* The steps leave the other threads' registers and files alone.
LEMMA OthersKept ==
  ASSUME BaseInv, NEW t \in Threads, Does(t)
  PROVE  /\ Acts(t) /\ pc'[t] \in Alive
         /\ \A u \in Threads : u # t => reg'[u] = reg[u] /\ fd'[u] = fd[u] /\ wrote'[u] = wrote[u]
<1> USE DEF Acting, Alive
<1>1. CASE DoGet(t) \/ DoSkip(t) \/ DoStore(t) \/ DoMix(t)
  BY <1>1 DEF DoGet, DoSkip, DoStore, DoMix, Goes, Consumes, Files
<1>2. CASE DoJack(t) \/ DoHdmi(t) \/ DoHdmiMix(t) \/ DoSleep(t) \/ DoWake(t)
  BY <1>2 DEF DoJack, DoHdmi, DoHdmiMix, DoSleep, DoWake, Goes, Consumes, Replaces, Files
<1>3. CASE DoOpen(t) \/ DoWrite(t) \/ DoRename(t)
  BY <1>3 DEF DoOpen, DoWrite, DoRename, Goes, Consumes, Opens, Writes, Renames, Sets, Wrote
<1> QED
  BY <1>1, <1>2, <1>3 DEF Does

LEMMA CallsKeepTyped ==
  ASSUME BaseInv, NEW t \in Threads, Does(t)
  PROVE  Typed'
<1> USE DEF Acting
<1>1. Typed /\ Acts(t) /\ AtCall(t, Call(t)) /\ Call(t) \in Calls
  BY OthersKept, ActsCommon DEF BaseInv, Acts
<1>2. reg' \in [Threads -> Nat]
  BY <1>1 DEF Typed, Does, DoGet, DoSkip, DoStore, DoMix, DoJack, DoHdmi, DoHdmiMix, DoSleep, DoWake, DoOpen, DoWrite, DoRename
<1>3. FsOK(fs') /\ fd' \in [Threads -> Inodes \cup {None}] /\ wrote' \in [Threads -> BOOLEAN]
  <2>1. CASE DoOpen(t) \/ DoWrite(t) \/ DoRename(t)
    BY <1>1, <2>1 DEF Typed, DoOpen, DoWrite, DoRename, Opens, Writes, Renames, Sets, Wrote
  <2>2. CASE Files
    BY <1>1, <2>2 DEF Typed, Files
  <2> QED
    BY <2>1, <2>2 DEF Does, DoGet, DoSkip, DoStore, DoMix, DoJack, DoHdmi, DoHdmiMix, DoSleep, DoWake
<1>4. mixer' \in 0 .. VOLUME_MAX
  <2>1. VOLUME_MAX \in Nat
    BY SettingsAssumption
  <2>2. CASE mixer' = mixer
    BY <1>1, <2>2 DEF Typed
  <2>3. CASE DoMix(t)
    BY <1>1, <2>1, <2>3, CallKinds, CallsDiffer DEF DoMix, AtCall
  <2>4. CASE mixer' \in {0, VOLUME_MAX}
    BY <2>1, <2>4
  <2> QED
    BY <2>2, <2>3, <2>4 DEF Does, Outs, DoGet, DoSkip, DoStore, DoJack, DoHdmi, DoHdmiMix, DoSleep, DoWake, DoOpen, DoWrite, DoRename
<1> QED
  BY <1>1, <1>2, <1>3, <1>4 DEF Typed, Acts, Shaped

\* After each kind of move the thread is where its call takes it.
LEMMA CallsKeepOwn ==
  ASSUME BaseInv, NEW t \in Threads, Does(t)
  PROVE  Own(t)'
<1> USE DEF Acting
<1> DEFINE q == todo[t]
           r == todo'[t]
           c == Call(t)
<1>1. /\ Acts(t) /\ AtCall(t, c) /\ c \in Calls /\ q # <<>> /\ Own(t) /\ device' = device
      /\ Elems(q) = {c} \cup Elems(Tail(q)) /\ fd \in [Threads -> Inodes \cup {None}] /\ pc[t] \in Acting
  BY OthersKept, ActsCommon DEF Acts, Typed
<1>2. ASSUME Consumes(t), fd'[t] = None, ~ wrote'[t]
      PROVE  Own(t)'
  <2>1. Elems(r) \subseteq Elems(q) /\ pc'[t] \in {"idle", "next"} /\ (pc'[t] = "next" <=> r # <<>>)
    BY <1>2 DEF Consumes
  <2> QED
    BY <1>1, <1>2, <2>1 DEF Own, AtCall
<1>3. ASSUME NEW new \in SUBSET Calls, Replaces(t, new), new \cap Hdmis = {}, new \cap Naps # {} => c \in Naps,
             fd'[t] = None, ~ wrote'[t]
      PROVE  Own(t)'
  <2>1. Elems(r) = new \cup Elems(Tail(q)) /\ pc'[t] = "next" /\ r # <<>>
    BY <1>3 DEF Replaces
  <2>2. Elems(r) \cap Hdmis # {} => Elems(q) \cap Hdmis # {}
    BY <1>1, <1>3, <2>1
  <2>3. Elems(r) \cap Naps # {} => Elems(q) \cap Naps # {}
    BY <1>1, <1>3, <2>1
  <2> QED
    BY <1>1, <1>3, <2>1, <2>2, <2>3 DEF Own, AtCall
<1>4. ASSUME NEW s \in Acting, Goes(t, s), AtCall(t, c)', fd'[t] # None <=> s \in {"write", "rename"}, wrote'[t] => s = "rename"
      PROVE  Own(t)'
  BY <1>1, <1>4 DEF Own, Goes, Call
<1>5. pc[t] \notin {"write", "rename"} => fd[t] = None /\ ~ wrote[t]
  BY <1>1 DEF Own
<1>6. CASE DoGet(t)
  <2>1. AtCall(t, c)'
    BY <1>6 DEF DoGet, AtCall, Goes, Call
  <2> QED
    BY <1>4, <1>5, <1>6, <2>1 DEF DoGet, Begins, Files
<1>7. CASE DoSkip(t)
  BY <1>2, <1>5, <1>7 DEF DoSkip, Files
<1>8. CASE DoStore(t)
  <2>1. reg'[t] = reg[t] /\ c \in Moves /\ pc[t] = "first" /\ fd' = fd /\ wrote' = wrote
    BY <1>8 DEF DoStore, Files
  <2>2. CASE c.call = "volume" /\ Goes(t, "second")
    <3>1. AtCall(t, c)'
      BY <1>1, <2>1, <2>2 DEF AtCall, Goes, Call, Highest
    <3> QED
      BY <1>4, <1>5, <2>1, <2>2, <3>1
  <2>3. CASE Goes(t, "open")
    <3>1. AtCall(t, c)'
      BY <2>1, <2>3 DEF AtCall, Goes, Call
    <3> QED
      BY <1>4, <1>5, <2>1, <2>3, <3>1
  <2> QED
    BY <1>8, <2>2, <2>3 DEF DoStore
<1>9. CASE DoMix(t)
  <2>1. c \in Moves
    BY <1>1, <1>9, CallKinds DEF DoMix
  <2>2. AtCall(t, c)'
    BY <1>9, <2>1 DEF DoMix, AtCall, Goes, Call
  <2> QED
    BY <1>4, <1>5, <1>9, <2>2 DEF DoMix, Files
<1>10. CASE DoJack(t)
  BY <1>3, <1>5, <1>10, CallsDiffer DEF DoJack, Begins, Files, Calls
<1>11. CASE DoHdmi(t)
  <2>1. CASE c = Hdmi(1)
    <3>1. AtCall(t, c)'
      BY <1>11, <2>1 DEF DoHdmi, AtCall, Goes, Call
    <3> QED
      BY <1>4, <1>5, <1>11, <2>1, <3>1 DEF DoHdmi, Begins, Files
  <2>2. CASE c # Hdmi(1)
    BY <1>3, <1>5, <1>11, <2>2, CallsDiffer DEF DoHdmi, Begins, Files, Calls
  <2> QED
    BY <2>1, <2>2
<1>12. CASE DoHdmiMix(t)
  BY <1>2, <1>5, <1>12 DEF DoHdmiMix, Files
<1>13. CASE DoSleep(t)
  <2>1. c \in Naps /\ {Simple("stop")} \in SUBSET Calls /\ {Simple("stop")} \cap Hdmis = {}
    BY <1>13, CallsDiffer DEF DoSleep, Naps, Calls
  <2> QED
    BY <1>3, <1>5, <1>13, <2>1 DEF DoSleep, Begins, Files
<1>14. CASE DoWake(t)
  <2>1. {Brightness(0), Volume(0)} \in SUBSET Calls /\ {Brightness(0), Volume(0)} \cap Hdmis = {} /\ {Brightness(0), Volume(0)} \cap Naps = {}
    BY CallsDiffer DEF Calls
  <2> QED
    BY <1>3, <1>5, <1>14, <2>1 DEF DoWake, Begins, Files
<1>15. CASE DoOpen(t)
  <2>1. AtCall(t, c)' /\ fd'[t] # None /\ ~ wrote'[t]
    BY <1>1, <1>5, <1>15 DEF DoOpen, Opens, Sets, AtCall, Goes, Call, Inodes, None
  <2> QED
    BY <1>4, <1>15, <2>1 DEF DoOpen
<1>16. CASE DoWrite(t)
  <2>1. AtCall(t, c)' /\ fd'[t] # None
    BY <1>1, <1>16 DEF DoWrite, AtCall, Goes, Call, Own
  <2> QED
    BY <1>4, <1>16, <2>1 DEF DoWrite
<1>17. CASE DoRename(t)
  BY <1>2, <1>17 DEF DoRename, Renames, Sets, Wrote
<1> QED
  BY <1>6, <1>7, <1>8, <1>9, <1>10, <1>11, <1>12, <1>13, <1>14, <1>15, <1>16, <1>17 DEF Does

\* Nothing of the shared memory's set-up is a call's business.
LEMMA CallsKeepShared ==
  ASSUME BaseInv, NEW t \in Threads, Does(t)
  PROVE  Shared'
<1>1. Acts(t) /\ pc'[t] \in Alive /\ Shared
  BY OthersKept DEF BaseInv
<1>2. /\ pc[t] \in Alive /\ pc'[t] \in Alive /\ mapped' = mapped /\ isHost' = isHost
      /\ shm'.key = shm.key /\ shm'.sized = shm.sized /\ past \subseteq past'
      /\ \A u \in Threads : u # t => pc'[u] = pc[u]
  BY <1>1 DEF Acts, Shaped, Alive
<1>3. \A s \in Alive : s \notin Hosting /\ s \notin {"off", "open_shm", "dead", "poll"}
  BY DEF Alive, Acting, Hosting
<1>4. Objected("keymon", "keys")' /\ Objected("app", "app")'
  BY <1>1, <1>2, <1>3 DEF Shared, Objected, Threads, Hosting
<1>5. NotEarly("keymon", "keys", "app", "app")' /\ NotEarly("app", "app", "keymon", "keys")'
  BY <1>1, <1>2, <1>3 DEF Shared, NotEarly, Threads, Hosting
<1> QED
  BY <1>1, <1>2, <1>3, <1>4, <1>5 DEF Shared, Threads

LEMMA CallsKeepBase ==
  ASSUME BaseInv, NEW t \in Threads, Does(t)
  PROVE  BaseInv'
<1>1. Acts(t) /\ pc'[t] \in Alive /\ Control /\ pc[t] \in Alive
  BY OthersKept DEF BaseInv, Acts, Alive
<1>2. ASSUME NEW u \in Threads, u # t PROVE Own(u)'
  <2>1. /\ reg'[u] = reg[u] /\ fd'[u] = fd[u] /\ wrote'[u] = wrote[u] /\ pc'[u] = pc[u] /\ todo'[u] = todo[u]
        /\ device' = device /\ Own(u)
    BY <1>1, <1>2, OthersKept DEF Acts, Shaped, Control
  <2> QED
    BY <2>1 DEF Own, AtCall, Call
<1>3. Own(t)'
  BY CallsKeepOwn
<1>4. Control'
  <2>1. \A s \in Alive : s # "dead" /\ s # "off"
    BY DEF Alive, Acting
  <2> QED
    BY <1>1, <1>2, <1>3, <2>1 DEF Control, Acts, Shaped, Threads
<1> QED
  BY <1>4, CallsKeepTyped, CallsKeepShared DEF BaseInv

-----------------------------------------------------------------------------
(* The kinds of steps a process makes to reach the shared memory.          *)

Main(p) == MainThread[p]
Begun(p) ==
  /\ UNCHANGED <<device, reg, fs, fd, wrote, keys, held, events, port, had, asleep, mixer, lit, mon>>
  /\ Shaped(Main(p)) /\ ShmOK(shm')
  /\ mapped' \in [Processes -> Objects \cup {None}] /\ isHost' \in [Processes -> BOOLEAN]
  /\ \A q \in Processes : q # p => mapped'[q] = mapped[q] /\ (isHost'[q] <=> isHost[q])
  /\ past \subseteq past' /\ past' \subseteq past \cup {"fault", "early"}
Given(p, s) == pc'[Main(p)] = s /\ todo' = todo
Kept(p) == mapped' = mapped /\ isHost' = isHost /\ past' = past
Initialises(p) == pc'[Main(p)] = "next" /\ todo'[Main(p)] = InitCalls
DoCreate(p) ==
  /\ Begun(p) /\ pc[Main(p)] = "open_shm" /\ shm.key = None /\ past' = past
  /\ shm'.key \in Objects /\ mapped'[p] = shm'.key /\ isHost'[p] /\ Given(p, "truncate")
  /\ \A q \in Processes : mapped[q] # shm'.key
  /\ \A o \in Objects : o # shm'.key => shm'.mem[o] = shm.mem[o]
  /\ shm'.sized = shm.sized \ {shm'.key}
DoAttach(p) ==
  /\ Begun(p) /\ pc[Main(p)] = "open_shm" /\ shm.key # None /\ past' = past
  /\ shm' = shm /\ mapped'[p] = shm.key /\ ~ isHost'[p] /\ Given(p, "poll")
DoSize(p) ==
  /\ Begun(p) /\ pc[Main(p)] = "truncate" /\ Kept(p) /\ Given(p, "read")
  /\ shm'.key = shm.key /\ shm'.mem = shm.mem /\ shm'.sized = shm.sized \cup {mapped[p]}
DoAbort(p) ==
  /\ Begun(p) /\ pc[Main(p)] \in {"truncate", "poll"} /\ "fault" \in past'
  /\ mapped'[p] = None /\ ~ isHost'[p] /\ Given(p, IF p = "app" THEN "off" ELSE "dead")
  /\ shm'.key = (IF pc[Main(p)] = "truncate" THEN None ELSE shm.key) /\ shm'.mem = shm.mem /\ shm'.sized = shm.sized
DoMap(p) ==
  /\ Begun(p) /\ pc[Main(p)] = "poll" /\ mapped' = mapped /\ isHost' = isHost /\ shm' = shm /\ Initialises(p)
  /\ mapped[p] \in shm.sized
  /\ \A q \in Processes : q # p /\ pc[Main(q)] \in {"read", "version"} => "early" \in past'
DoRead(p) ==
  /\ Begun(p) /\ pc[Main(p)] = "read" /\ Kept(p) /\ Given(p, "version") /\ Stores(Main(p), FileSays)
DoVersion(p) ==
  /\ Begun(p) /\ pc[Main(p)] = "version" /\ Kept(p) /\ Initialises(p)
  /\ Stores(Main(p), IF Current(Now(Main(p))) THEN Now(Main(p)) ELSE DefaultSettings)
Starts(p) == DoCreate(p) \/ DoAttach(p) \/ DoSize(p) \/ DoAbort(p) \/ DoMap(p) \/ DoRead(p) \/ DoVersion(p)

\* The calls of InitSettings.
LEMMA InitCallsKnown ==
  ASSUME Typed
  PROVE  /\ InitCalls \in Seq(Calls) /\ InitCalls # <<>>
         /\ Elems(InitCalls) = IF device = "rg35xxplus" THEN {Jack(0), Hdmi(port), Brightness(0)} ELSE {Volume(0), Brightness(0)}
<1> DEFINE j == Jack(0)
           h == Hdmi(port)
           b == Brightness(0)
           v == Volume(0)
<1>1. j \in Calls /\ h \in Calls /\ b \in Calls /\ v \in Calls
  BY CallsDiffer DEF Calls, Jacks, Hdmis, Typed
<1>2. InitCalls = IF device = "rg35xxplus" THEN <<j, h, b>> ELSE <<v, b>>
  BY DEF InitCalls
<1> HIDE DEF j, h, b, v
<1>3. <<j, h, b>> \in Seq(Calls) /\ <<j, h, b>> # <<>> /\ Elems(<<j, h, b>>) = {j, h, b}
  BY <1>1 DEF Elems
<1>4. <<v, b>> \in Seq(Calls) /\ <<v, b>> # <<>> /\ Elems(<<v, b>>) = {v, b}
  BY <1>1 DEF Elems
<1>5. CASE device = "rg35xxplus"
  BY <1>2, <1>3, <1>5 DEF j, h, b
<1>6. CASE device # "rg35xxplus"
  BY <1>2, <1>4, <1>6 DEF v, b
<1> QED
  BY <1>5, <1>6

\* Zeroes, the defaults and what the file says are settings.
LEMMA KnownSettings ==
  ASSUME Typed
  PROVE  Zeroed \in Settings /\ DefaultSettings \in Settings /\ FileSays \in Settings
<1>1. Zeroed \in Settings /\ DefaultSettings \in Settings
  BY SettingsAssumption DEF Zeroed, DefaultSettings, Settings, SETTINGS_VERSION
<1>2. ASSUME fs.path # None, fs.data[fs.path] # <<>> PROVE Head(fs.data[fs.path]) \in Settings
  <2>1. fs.path \in Inodes /\ fs.data[fs.path] \in Contents
    BY <1>2 DEF Typed, FsOK
  <2>2. PICK x \in Settings : fs.data[fs.path] = <<x>>
    BY <1>2, <2>1 DEF Contents
  <2> QED
    BY <2>2
<1> QED
  BY <1>1, <1>2 DEF FileSays

LEMMA StartDoes ==
  ASSUME BaseInv, NEW p \in Processes, Open(p) \/ Truncate(p) \/ Poll(p) \/ Read(p) \/ Version(p)
  PROVE  Starts(p)
<1> DEFINE t == Main(p)
<1> USE DEF Pcs, Hosting, Alive, Acting
<1>1. /\ Typed /\ t \in Threads /\ t = MainThread[p] /\ ProcessOf[t] = p /\ Mine(t) = mapped[p] /\ ShmOK(shm)
      /\ mapped \in [Processes -> Objects \cup {None}] /\ isHost \in [Processes -> BOOLEAN]
      /\ \A q \in Processes : q # p => Main(q) # t
  BY DEF BaseInv, Typed, Main, MainThread, ProcessOf, Threads, Processes, Mine
<1>2. ASSUME NEW s \in Pcs, Step(t, s), todo' = todo PROVE Shaped(t) /\ Given(p, s)
  BY <1>1, <1>2, StepGoes DEF Goes, Given
<1>3. ASSUME Step(t, "next"), todo' = [todo EXCEPT ![t] = InitCalls] PROVE Shaped(t) /\ Initialises(p)
  BY <1>1, <1>3, InitCallsKnown DEF Step, Typed, Shaped, Initialises
<1>4. pc[t] \in Hosting \cup {"poll"} => mapped[p] \in Objects
  <2>1. CASE p = "app"
    BY <1>1, <2>1 DEF BaseInv, Shared, Objected, Main, MainThread, Processes, Objects, None
  <2>2. CASE p = "keymon"
    BY <1>1, <2>2 DEF BaseInv, Shared, Objected, Main, MainThread, Processes, Objects, None
  <2> QED
    BY <2>1, <2>2 DEF Processes
<1>5. CASE Open(p)
  <2>1. pc[t] = "open_shm" /\ UNCHANGED <<todo, reg, fileVars, outVars, envVars, past, acts>>
    BY <1>1, <1>5 DEF Open
  <2>2. CASE shm.key = None
    <3> DEFINE o == FreeObject
    <3>1. /\ shm' = [key |-> o, mem |-> [shm.mem EXCEPT ![o] = Zeroed], sized |-> shm.sized \ {o}]
          /\ mapped' = [mapped EXCEPT ![p] = o] /\ isHost' = [isHost EXCEPT ![p] = TRUE] /\ Step(t, "truncate")
      BY <1>1, <1>5, <2>2 DEF Open
    <3>2. o \in Objects /\ \A q \in Processes : mapped[q] # o
      <4>1. mapped[p] = None
        <5>1. CASE p = "app"
          BY <1>1, <2>1, <5>1 DEF BaseInv, Shared, Objected, Main, MainThread, Processes
        <5>2. CASE p = "keymon"
          BY <1>1, <2>1, <5>2 DEF BaseInv, Shared, Objected, Main, MainThread, Processes
        <5> QED
          BY <5>1, <5>2 DEF Processes
      <4>2. PICK q \in Processes : \A x \in Processes : x \in {p, q}
        BY DEF Processes
      <4>3. \E x \in Objects : x # mapped[q]
        BY DEF Objects
      <4>4. \E x \in Objects : x # shm.key /\ \A y \in Processes : mapped[y] # x
        BY <2>2, <4>1, <4>2, <4>3 DEF Objects, None
      <4> QED
        BY <4>4 DEF FreeObject
    <3>3. Zeroed \in Settings
      BY <1>1, KnownSettings
    <3> HIDE DEF o
    <3>4. /\ ShmOK(shm') /\ shm'.key = o /\ shm'.sized = shm.sized \ {o}
          /\ \A x \in Objects : x # o => shm'.mem[x] = shm.mem[x]
      BY <1>1, <3>1, <3>2, <3>3 DEF ShmOK
    <3> QED
      BY <1>1, <1>2, <2>1, <2>2, <3>1, <3>2, <3>4 DEF Starts, DoCreate, Begun, fileVars, outVars, envVars, keyVars, portVars, sleepVars
  <2>3. CASE shm.key # None
    <3>1. /\ mapped' = [mapped EXCEPT ![p] = shm.key] /\ isHost' = [isHost EXCEPT ![p] = FALSE] /\ Step(t, "poll") /\ shm' = shm
      BY <1>1, <1>5, <2>3 DEF Open
    <3>2. shm.key \in Objects
      BY <1>1, <2>3 DEF ShmOK
    <3> QED
      BY <1>1, <1>2, <2>1, <2>3, <3>1, <3>2 DEF Starts, DoAttach, Begun, fileVars, outVars, envVars, keyVars, portVars, sleepVars
  <2> QED
    BY <2>2, <2>3
<1>6. ASSUME shm'.key = (IF pc[t] = "truncate" THEN None ELSE shm.key), shm'.mem = shm.mem, shm'.sized = shm.sized, ShmOK(shm'),
             mapped' = [mapped EXCEPT ![p] = None], isHost' \in [Processes -> BOOLEAN], ~ isHost'[p],
             \A q \in Processes : q # p => (isHost'[q] <=> isHost[q]),
             pc[t] \in {"truncate", "poll"}, Abort(p), Note("fault"), UNCHANGED <<todo, reg, fileVars, outVars, envVars>>
      PROVE  DoAbort(p)
  <2>1. Step(t, IF p = "app" THEN "off" ELSE "dead")
    BY <1>1, <1>6 DEF Abort
  <2>2. Shaped(t) /\ Given(p, IF p = "app" THEN "off" ELSE "dead")
    BY <1>2, <1>6, <2>1
  <2> QED
    BY <1>1, <1>6, <2>2 DEF DoAbort, Begun, Note, fileVars, outVars, envVars, keyVars, portVars, sleepVars
<1>7. CASE Truncate(p)
  <2>1. pc[t] = "truncate" /\ UNCHANGED <<todo, reg, fileVars, outVars, envVars>>
    BY <1>1, <1>7 DEF Truncate
  <2>2. CASE shm' = [shm EXCEPT !.sized = @ \cup {mapped[p]}] /\ Step(t, "read") /\ UNCHANGED <<mapped, isHost, past, acts>>
    <3>1. ShmOK(shm') /\ shm'.key = shm.key /\ shm'.mem = shm.mem /\ shm'.sized = shm.sized \cup {mapped[p]}
      BY <1>1, <1>4, <2>1, <2>2 DEF ShmOK
    <3> QED
      BY <1>1, <1>2, <2>1, <2>2, <3>1 DEF Starts, DoSize, Kept, Begun, fileVars, outVars, envVars, keyVars, portVars, sleepVars
  <2>3. CASE /\ Note("fault") /\ shm' = [shm EXCEPT !.key = None] /\ mapped' = [mapped EXCEPT ![p] = None]
             /\ isHost' = [isHost EXCEPT ![p] = FALSE] /\ Abort(p)
    <3>1. ShmOK(shm') /\ shm'.key = None /\ shm'.mem = shm.mem /\ shm'.sized = shm.sized
      BY <1>1, <2>3 DEF ShmOK
    <3>2. isHost' \in [Processes -> BOOLEAN] /\ ~ isHost'[p] /\ \A q \in Processes : q # p => (isHost'[q] <=> isHost[q])
      BY <1>1, <2>3
    <3> QED
      BY <1>6, <2>1, <2>3, <3>1, <3>2 DEF Starts
  <2> QED
    BY <1>1, <1>7, <2>2, <2>3 DEF Truncate
<1>8. CASE Poll(p)
  <2>1. pc[t] = "poll" /\ UNCHANGED <<shm, isHost, reg, fileVars, outVars, envVars>>
    BY <1>1, <1>8 DEF Poll
  <2>2. CASE /\ mapped[p] \in shm.sized /\ Step(t, "next") /\ todo' = [todo EXCEPT ![t] = InitCalls]
             /\ NoteIf(\E q \in Processes \ {p} : pc[MainThread[q]] \in {"read", "version"}, "early") /\ UNCHANGED <<mapped, acts>>
    <3>1. /\ past \subseteq past' /\ past' \subseteq past \cup {"early"}
          /\ \A q \in Processes : q # p /\ pc[Main(q)] \in {"read", "version"} => "early" \in past'
      BY <2>2 DEF NoteIf, Main
    <3> QED
      BY <1>1, <1>3, <2>1, <2>2, <3>1 DEF Starts, DoMap, Begun, fileVars, outVars, envVars, keyVars, portVars, sleepVars
  <2>3. CASE /\ mapped[p] \notin shm.sized /\ Note("fault") /\ mapped' = [mapped EXCEPT ![p] = None] /\ Abort(p) /\ UNCHANGED <<todo, acts>>
    <3>1. ~ isHost[p]
      <4>1. CASE p = "app"
        BY <1>1, <2>1, <4>1 DEF BaseInv, Shared, Objected, Main, MainThread, Processes
      <4>2. CASE p = "keymon"
        BY <1>1, <2>1, <4>2 DEF BaseInv, Shared, Objected, Main, MainThread, Processes
      <4> QED
        BY <4>1, <4>2 DEF Processes
    <3> QED
      BY <1>1, <1>6, <2>1, <2>3, <3>1 DEF Starts
  <2> QED
    BY <1>1, <1>8, <2>2, <2>3 DEF Poll
<1>9. CASE Read(p)
  <2>1. /\ pc[t] = "read" /\ Put(t, FileSays) /\ Step(t, "version")
        /\ UNCHANGED <<mapped, isHost, todo, reg, fileVars, outVars, envVars, past, acts>>
    BY <1>1, <1>9 DEF Read, FileSays
  <2>2. Stores(t, FileSays)
    BY <1>1, <1>4, <2>1, KnownSettings, PutStores
  <2> QED
    BY <1>1, <1>2, <2>1, <2>2 DEF Starts, DoRead, Kept, Begun, Stores, fileVars, outVars, envVars, keyVars, portVars, sleepVars
<1>10. CASE Version(p)
  <2> DEFINE s == IF Current(Now(t)) THEN Now(t) ELSE DefaultSettings
  <2>1. /\ pc[t] = "version" /\ Put(t, s) /\ Step(t, "next") /\ todo' = [todo EXCEPT ![t] = InitCalls]
        /\ UNCHANGED <<mapped, isHost, reg, fileVars, outVars, envVars, past, acts>>
    BY <1>1, <1>10 DEF Version, Current
  <2>2. Now(t) \in Settings
    BY <1>1, <1>4, <2>1 DEF Now, Mine, ShmOK
  <2>3. s \in Settings
    BY <1>1, <2>2, KnownSettings
  <2>4. Stores(t, s)
    BY <1>1, <1>4, <2>1, <2>3, PutStores
  <2> QED
    BY <1>1, <1>3, <2>1, <2>4 DEF Starts, DoVersion, Kept, Begun, Stores, fileVars, outVars, envVars, keyVars, portVars, sleepVars
<1> QED
  BY <1>5, <1>7, <1>8, <1>9, <1>10

LEMMA StartsKeepTyped ==
  ASSUME BaseInv, NEW p \in Processes, Starts(p)
  PROVE  Typed'
<1>1. Begun(p)
  BY DEF Starts, DoCreate, DoAttach, DoSize, DoAbort, DoMap, DoRead, DoVersion
<1> QED
  BY <1>1 DEF BaseInv, Typed, Begun, Shaped

\* A process that is not yet initialised has no calls and no file.
LEMMA StartsKeepControl ==
  ASSUME BaseInv, NEW p \in Processes, Starts(p)
  PROVE  Control'
<1> USE DEF Hosting, Alive, Acting
<1> DEFINE t == Main(p)
<1>1. /\ Begun(p) /\ pc[t] \in {"open_shm", "poll"} \cup Hosting /\ t \in Threads /\ t # "watch"
      /\ t = "app" <=> p = "app"
  BY DEF Starts, DoCreate, DoAttach, DoSize, DoAbort, DoMap, DoRead, DoVersion, Main, MainThread, Processes, Threads
<1>2. ASSUME NEW u \in Threads, u # t PROVE Own(u)'
  <2>1. Own(u) /\ UNCHANGED <<device, reg, fd, wrote>> /\ pc'[u] = pc[u] /\ todo'[u] = todo[u]
    BY <1>1, <1>2 DEF BaseInv, Control, Begun, Shaped
  <2> QED
    BY <2>1 DEF Own, AtCall, Call
<1>3. Own(t) /\ fd[t] = None /\ ~ wrote[t] /\ todo[t] = <<>> /\ fd' = fd /\ wrote' = wrote /\ device' = device /\ Typed
  BY <1>1 DEF BaseInv, Control, Own, Begun
<1>4. \/ pc'[t] \in {"poll", "off", "dead"} \cup Hosting /\ todo'[t] = <<>> /\ (pc'[t] = "dead" => t # "app")
      \/ pc'[t] = "next" /\ todo'[t] = InitCalls
  BY <1>1, <1>3 DEF Starts, DoCreate, DoAttach, DoSize, DoAbort, DoMap, DoRead, DoVersion, Given, Initialises
<1>5. Own(t)'
  <2>1. CASE pc'[t] \in {"poll", "off", "dead"} \cup Hosting /\ todo'[t] = <<>>
    BY <1>3, <2>1, ElemsOfNone DEF Own
  <2>2. CASE pc'[t] = "next" /\ todo'[t] = InitCalls
    <3>1. /\ InitCalls # <<>> /\ Elems(InitCalls) \cap Naps = {} /\ (Elems(InitCalls) \cap Hdmis # {} => device = "rg35xxplus")
      BY <1>3, InitCallsKnown, CallsDiffer DEF Jacks, Hdmis, Typed
    <3> QED
      BY <1>3, <2>2, <3>1 DEF Own, AtCall
  <2> QED
    BY <1>4, <2>1, <2>2
<1>6. \A u \in Threads : u # t => pc'[u] = pc[u]
  BY <1>1 DEF Begun, Shaped
<1> QED
  BY <1>1, <1>2, <1>4, <1>5, <1>6 DEF BaseInv, Control, Threads

\* Which object each process has, whoever comes first.
LEMMA StartsKeepShared ==
  ASSUME BaseInv, NEW p \in Processes, Starts(p)
  PROVE  Shared'
<1> USE DEF Hosting, Alive, Acting
<1>1. /\ Begun(p) /\ Shared /\ Typed /\ Main("app") = "app" /\ Main("keymon") = "keys" /\ Mine("app") = mapped["app"] /\ Mine("keys") = mapped["keymon"]
      /\ ShmOK(shm) /\ past \subseteq past' /\ mapped \in [Processes -> Objects \cup {None}] /\ pc["app"] # "dead"
  BY DEF BaseInv, Control, Typed, Starts, DoCreate, DoAttach, DoSize, DoAbort, DoMap, DoRead, DoVersion, Begun, Main, MainThread, Mine, ProcessOf, Processes, Threads
<1> DEFINE sized == shm.sized
           sizedp == shm'.sized
           key == shm.key
           keyp == shm'.key
<1>2. sized \subseteq Objects /\ key \in Objects \cup {None} /\ None \notin Objects
  BY <1>1 DEF ShmOK, Objects, None
<1> HIDE DEF sized, key, sizedp, keyp
<1>3. CASE p = "app"
  <2>1. pc'["keys"] = pc["keys"] /\ mapped'["keymon"] = mapped["keymon"] /\ (isHost'["keymon"] <=> isHost["keymon"])
    BY <1>1, <1>3 DEF Begun, Shaped, Threads, Processes
  <2>2. CASE DoCreate(p)
    <3>1. /\ pc["app"] = "open_shm" /\ key = None /\ keyp \in Objects /\ mapped'["app"] = keyp /\ isHost'["app"] /\ pc'["app"] = "truncate"
          /\ mapped["keymon"] # keyp /\ sizedp = sized \ {keyp}
      BY <1>1, <1>3, <2>2 DEF DoCreate, Given, Processes, key, keyp, sized, sizedp
    <3> QED
      BY <1>1, <1>2, <2>1, <3>1 DEF Shared, Objected, NotEarly, key, keyp, sized, sizedp
  <2>3. CASE DoAttach(p)
    <3>1. pc["app"] = "open_shm" /\ key # None /\ keyp = key /\ sizedp = sized /\ mapped'["app"] = key /\ ~ isHost'["app"] /\ pc'["app"] = "poll"
      BY <1>1, <1>3, <2>3 DEF DoAttach, Given, key, keyp, sized, sizedp
    <3> QED
      BY <1>1, <1>2, <2>1, <3>1 DEF Shared, Objected, NotEarly, key, keyp, sized, sizedp
  <2>4. CASE DoSize(p)
    <3>1. /\ pc["app"] = "truncate" /\ keyp = key /\ sizedp = sized \cup {mapped["app"]} /\ mapped' = mapped /\ isHost' = isHost /\ pc'["app"] = "read"
      BY <1>1, <1>3, <2>4 DEF DoSize, Kept, Given, key, keyp, sized, sizedp
    <3> QED
      BY <1>1, <1>2, <2>1, <3>1 DEF Shared, Objected, NotEarly, key, keyp, sized, sizedp
  <2>5. CASE DoAbort(p)
    <3>1. /\ pc["app"] \in {"truncate", "poll"} /\ keyp = (IF pc["app"] = "truncate" THEN None ELSE key) /\ sizedp = sized
          /\ mapped'["app"] = None /\ ~ isHost'["app"] /\ pc'["app"] = "off"
      BY <1>1, <1>3, <2>5 DEF DoAbort, Given, key, keyp, sized, sizedp
    <3> QED
      BY <1>1, <1>2, <2>1, <3>1 DEF Shared, Objected, NotEarly, key, keyp, sized, sizedp
  <2>6. CASE DoMap(p)
    <3>1. /\ pc["app"] = "poll" /\ keyp = key /\ sizedp = sized /\ mapped' = mapped /\ isHost' = isHost /\ pc'["app"] = "next"
          /\ mapped["app"] \in sized /\ (pc["keys"] \in {"read", "version"} => "early" \in past')
      BY <1>1, <1>3, <2>6 DEF DoMap, Initialises, key, keyp, sized, sizedp, Processes
    <3> QED
      BY <1>1, <1>2, <2>1, <3>1 DEF Shared, Objected, NotEarly, key, keyp, sized, sizedp
  <2>7. CASE DoRead(p) \/ DoVersion(p)
    <3>1. /\ keyp = key /\ sizedp = sized /\ mapped' = mapped /\ isHost' = isHost
          /\ (pc["app"] = "read" /\ pc'["app"] = "version") \/ (pc["app"] = "version" /\ pc'["app"] = "next")
      BY <1>1, <1>3, <2>7 DEF DoRead, DoVersion, Initialises, Given, Kept, Stores, key, keyp, sized, sizedp
    <3> QED
      BY <1>1, <1>2, <2>1, <3>1 DEF Shared, Objected, NotEarly, key, keyp, sized, sizedp
  <2> QED
    BY <2>2, <2>3, <2>4, <2>5, <2>6, <2>7 DEF Starts
<1>4. CASE p = "keymon"
  <2>1. pc'["app"] = pc["app"] /\ mapped'["app"] = mapped["app"] /\ (isHost'["app"] <=> isHost["app"])
    BY <1>1, <1>4 DEF Begun, Shaped, Threads, Processes
  <2>2. CASE DoCreate(p)
    <3>1. /\ pc["keys"] = "open_shm" /\ key = None /\ keyp \in Objects /\ mapped'["keymon"] = keyp /\ isHost'["keymon"] /\ pc'["keys"] = "truncate"
          /\ mapped["app"] # keyp /\ sizedp = sized \ {keyp}
      BY <1>1, <1>4, <2>2 DEF DoCreate, Given, Processes, key, keyp, sized, sizedp
    <3> QED
      BY <1>1, <1>2, <2>1, <3>1 DEF Shared, Objected, NotEarly, key, keyp, sized, sizedp
  <2>3. CASE DoAttach(p)
    <3>1. pc["keys"] = "open_shm" /\ key # None /\ keyp = key /\ sizedp = sized /\ mapped'["keymon"] = key /\ ~ isHost'["keymon"] /\ pc'["keys"] = "poll"
      BY <1>1, <1>4, <2>3 DEF DoAttach, Given, key, keyp, sized, sizedp
    <3> QED
      BY <1>1, <1>2, <2>1, <3>1 DEF Shared, Objected, NotEarly, key, keyp, sized, sizedp
  <2>4. CASE DoSize(p)
    <3>1. /\ pc["keys"] = "truncate" /\ keyp = key /\ sizedp = sized \cup {mapped["keymon"]} /\ mapped' = mapped /\ isHost' = isHost /\ pc'["keys"] = "read"
      BY <1>1, <1>4, <2>4 DEF DoSize, Kept, Given, key, keyp, sized, sizedp
    <3> QED
      BY <1>1, <1>2, <2>1, <3>1 DEF Shared, Objected, NotEarly, key, keyp, sized, sizedp
  <2>5. CASE DoAbort(p)
    <3>1. /\ pc["keys"] \in {"truncate", "poll"} /\ keyp = (IF pc["keys"] = "truncate" THEN None ELSE key) /\ sizedp = sized
          /\ mapped'["keymon"] = None /\ ~ isHost'["keymon"] /\ pc'["keys"] = "dead"
      BY <1>1, <1>4, <2>5 DEF DoAbort, Given, key, keyp, sized, sizedp
    <3> QED
      BY <1>1, <1>2, <2>1, <3>1 DEF Shared, Objected, NotEarly, key, keyp, sized, sizedp
  <2>6. CASE DoMap(p)
    <3>1. /\ pc["keys"] = "poll" /\ keyp = key /\ sizedp = sized /\ mapped' = mapped /\ isHost' = isHost /\ pc'["keys"] = "next"
          /\ mapped["keymon"] \in sized /\ (pc["app"] \in {"read", "version"} => "early" \in past')
      BY <1>1, <1>4, <2>6 DEF DoMap, Initialises, key, keyp, sized, sizedp, Processes
    <3> QED
      BY <1>1, <1>2, <2>1, <3>1 DEF Shared, Objected, NotEarly, key, keyp, sized, sizedp
  <2>7. CASE DoRead(p) \/ DoVersion(p)
    <3>1. /\ keyp = key /\ sizedp = sized /\ mapped' = mapped /\ isHost' = isHost
          /\ (pc["keys"] = "read" /\ pc'["keys"] = "version") \/ (pc["keys"] = "version" /\ pc'["keys"] = "next")
      BY <1>1, <1>4, <2>7 DEF DoRead, DoVersion, Initialises, Given, Kept, Stores, key, keyp, sized, sizedp
    <3> QED
      BY <1>1, <1>2, <2>1, <3>1 DEF Shared, Objected, NotEarly, key, keyp, sized, sizedp
  <2> QED
    BY <2>2, <2>3, <2>4, <2>5, <2>6, <2>7 DEF Starts
<1> QED
  BY <1>3, <1>4 DEF Processes

LEMMA StartsKeepBase ==
  ASSUME BaseInv, NEW p \in Processes, Starts(p)
  PROVE  BaseInv'
BY StartsKeepTyped, StartsKeepControl, StartsKeepShared DEF BaseInv

-----------------------------------------------------------------------------
(* The other steps: keymon's loop and watcher, the program, the user.      *)

Calm == UNCHANGED <<device, mapped, isHost, reg, fs, fd, wrote, mixer>>
NoKeys == UNCHANGED <<keys, held, events>>
NoCable == UNCHANGED <<port, had, lit, mon>>
DoLaunch(t) ==
  /\ Calm /\ NoKeys /\ NoCable /\ shm' = shm /\ asleep' = asleep /\ t \in {"keys", "app"}
  /\ pc[t] = "off" /\ Goes(t, "open_shm") /\ past \subseteq past' /\ past' \subseteq past \cup {"app"}
Queues(t, new) ==
  /\ Calm /\ shm' = shm /\ past' = past /\ UNCHANGED <<port, lit, mon>> /\ pc[t] \in {"off", "idle"}
  /\ Shaped(t) /\ Elems(todo'[t]) = new /\ pc'[t] \in {"idle", "next"} /\ (pc'[t] = "next" <=> todo'[t] # <<>>)
DoWatch ==
  /\ Queues("watch", {PortCall(port)}) /\ NoKeys /\ asleep' = asleep /\ had' = port
  /\ pc["keys"] \in Alive /\ (pc["watch"] = "off" => pc["keys"] = "idle")
  /\ pc'["watch"] = "next" /\ Head(todo'["watch"]) = PortCall(port)
DoLoop ==
  /\ \E new \in SUBSET (Moves \ {Volume(0)}) : Queues("keys", new)
  /\ pc["keys"] = "idle" /\ had' = had /\ asleep' = asleep
DoNap == Queues("app", {Simple("sleep")}) /\ pc["app"] = "idle" /\ NoKeys /\ had' = had /\ asleep'
DoRise == Queues("app", {Simple("cont"), Simple("wake")}) /\ pc["app"] = "idle" /\ NoKeys /\ had' = had /\ ~ asleep'
DoSync ==
  Queues("app", {Volume(0), Brightness(0)}) /\ pc["app"] = "idle" /\ NoKeys /\ had' = had /\ ~ asleep /\ asleep' = asleep
DoQuit ==
  /\ UNCHANGED <<device, reg, fs, fd, wrote, mixer, past>> /\ NoKeys /\ NoCable /\ ~ asleep /\ asleep' = asleep
  /\ pc["app"] = "idle" /\ Goes("app", "off")
  /\ mapped' = [mapped EXCEPT !["app"] = None] /\ isHost' = [isHost EXCEPT !["app"] = FALSE]
  /\ ShmOK(shm') /\ shm'.mem = shm.mem /\ shm'.sized = shm.sized /\ (shm'.key = shm.key \/ (shm'.key = None /\ isHost["app"]))
Stays == pc' = pc /\ todo' = todo
DoMon ==
  /\ Calm /\ NoKeys /\ shm' = shm /\ Stays /\ past' = past /\ UNCHANGED <<port, had, asleep>>
  /\ \/ mon' = [had |-> port, busy |-> TRUE]
     \/ mon' = [had |-> mon.had, busy |-> FALSE] /\ lit'
DoPlug ==
  /\ Calm /\ NoKeys /\ shm' = shm /\ Stays /\ UNCHANGED <<had, asleep, lit, mon>>
  /\ port' = 1 - port /\ past \subseteq past' /\ past' \subseteq past \cup {"midInit", "blip", "unseen"}
  /\ Busy("app") => "midInit" \in past'
  /\ had # port => "blip" \in past'
  /\ mon.had # port \/ Applying => "unseen" \in past'
DoQuiet == Calm /\ NoCable /\ shm' = shm /\ Stays /\ past' = past /\ asleep' = asleep
Other ==
  \/ DoLaunch("keys") \/ DoLaunch("app") \/ DoWatch \/ DoLoop \/ DoNap \/ DoRise \/ DoSync
  \/ DoQuit \/ DoMon \/ DoPlug \/ DoQuiet

\* The keys' calls change a level by one.
LEMMA HotKeysMove ==
  ASSUME NEW k, NEW due
  PROVE  HotKeys(k, due) \in Seq(Calls) /\ Elems(HotKeys(k, due)) \subseteq Moves \ {Volume(0)}
<1> DEFINE x == HotKey("menu" \in k.down, 1)
           y == HotKey("menu" \in k.down, -1)
           act == k.just \cup (due \cap k.down)
           a == IF "plus" \in act THEN <<x>> ELSE <<>>
           b == IF "minus" \in act THEN <<y>> ELSE <<>>
<1>1. x \in Moves \ {Volume(0)} /\ y \in Moves \ {Volume(0)}
  BY DEF HotKey, Moves, Volume, Brightness
<1>2. HotKeys(k, due) = a \o b
  BY DEF HotKeys
<1>3. Moves \subseteq Calls
  BY DEF Calls
<1> HIDE DEF x, y, act
<1>4. b \in Seq(Calls) /\ Elems(b) \subseteq Moves \ {Volume(0)}
  <2>1. <<y>> \in Seq(Calls) /\ Elems(<<y>>) = {y}
    BY <1>1, <1>3 DEF Elems
  <2> QED
    BY <1>1, <2>1, ElemsOfNone
<1> HIDE DEF b
<1>5. CASE "plus" \in act
  <2>1. a = <<x>> /\ x \in Calls
    BY <1>1, <1>3, <1>5
  <2>2. <<x>> \o b \in Seq(Calls) /\ Elems(<<x>> \o b) = {x} \cup Elems(b)
    BY <1>4, <2>1, ElemsOfFirst
  <2> QED
    BY <1>1, <1>2, <1>4, <2>1, <2>2
<1>6. CASE "plus" \notin act
  <2>1. <<>> \o b = b
    BY <1>4, ConcatEmptySeq
  <2> QED
    BY <1>2, <1>4, <1>6, <2>1
<1> QED
  BY <1>5, <1>6

LEMMA OtherDoes ==
  ASSUME BaseInv, NEW due, NEW clean, NEW k,
         \/ StartKeymon \/ StartWatch \/ WatchPort \/ KeymonLoop(due)
         \/ StartApp \/ AppSleep \/ AppWake \/ AppSync \/ AppQuit(clean)
         \/ HdmiMon \/ Plug \/ LongNap \/ KeyDown(k) \/ KeyUp(k)
  PROVE  Other
<1> USE DEF Pcs, Alive, Acting, Hosting, envVars, keyVars, portVars, sleepVars, outVars, fileVars, shmVars
<1>1. Typed /\ ShmOK(shm) /\ "keys" \in Threads /\ "app" \in Threads /\ "watch" \in Threads /\ Control
  BY DEF BaseInv, Typed, Threads
<1>2. ASSUME NEW t \in Threads, NEW q \in Seq(Calls), pc[t] \in {"off", "idle"},
             todo' = [todo EXCEPT ![t] = q], pc' = [pc EXCEPT ![t] = Ready(q)],
             Calm, shm' = shm, past' = past, UNCHANGED <<port, lit, mon>>
      PROVE  Queues(t, Elems(q)) /\ todo'[t] = q
  BY <1>1, <1>2 DEF Queues, Shaped, Ready, Typed
<1>3. ASSUME NEW c \in Calls PROVE <<c>> \in Seq(Calls) /\ Elems(<<c>>) = {c} /\ Ready(<<c>>) = "next" /\ Head(<<c>>) = c
  BY DEF Elems, Ready
<1>4. ASSUME NEW c \in Calls, NEW d \in Calls PROVE <<c, d>> \in Seq(Calls) /\ Elems(<<c, d>>) = {c, d} /\ Ready(<<c, d>>) = "next"
  BY DEF Elems, Ready
<1>5. Naps \subseteq Calls /\ Volume(0) \in Calls /\ Brightness(0) \in Calls /\ PortCall(port) \in Calls
  BY <1>1, CallsDiffer DEF Calls, PortCall, Jacks, Hdmis, Typed
<1>6. CASE StartKeymon
  <2>1. Goes("keys", "open_shm")
    BY <1>1, <1>6, StepGoes DEF StartKeymon
  <2> QED
    BY <1>6, <2>1 DEF StartKeymon, Other, DoLaunch, Calm, NoKeys, NoCable
<1>7. CASE StartApp
  <2>1. Goes("app", "open_shm")
    BY <1>1, <1>7, StepGoes DEF StartApp
  <2> QED
    BY <1>7, <2>1 DEF StartApp, Other, DoLaunch, Calm, NoKeys, NoCable, Note
<1>8. CASE StartWatch \/ WatchPort
  <2> DEFINE c == PortCall(port)
  <2>1. /\ pc["watch"] \in {"off", "idle"} /\ had' = port /\ todo' = [todo EXCEPT !["watch"] = <<c>>] /\ pc' = [pc EXCEPT !["watch"] = "next"]
        /\ UNCHANGED <<device, shmVars, reg, fileVars, keyVars, port, sleepVars, outVars, past, acts>>
    BY <1>8 DEF StartWatch, WatchPort, Step
  <2>2. pc["keys"] \in Alive /\ (pc["watch"] = "off" => pc["keys"] = "idle")
    BY <1>1, <1>8 DEF StartWatch, WatchPort, Control
  <2>3. c \in Calls
    BY <1>5
  <2> HIDE DEF c
  <2>4. <<c>> \in Seq(Calls) /\ Elems(<<c>>) = {c} /\ Ready(<<c>>) = "next" /\ Head(<<c>>) = c
    BY <1>3, <2>3
  <2>5. Queues("watch", {c}) /\ todo'["watch"] = <<c>>
    BY <1>1, <1>2, <2>1, <2>4 DEF Calm
  <2>6. pc'["watch"] = "next"
    BY <1>1, <2>1 DEF Typed
  <2> QED
    BY <2>1, <2>2, <2>4, <2>5, <2>6 DEF Other, DoWatch, NoKeys, c
<1>9. CASE KeymonLoop(due)
  <2> DEFINE q == HotKeys(KeysRead, due)
  <2>1. /\ pc["keys"] = "idle" /\ todo' = [todo EXCEPT !["keys"] = q] /\ pc' = [pc EXCEPT !["keys"] = Ready(q)]
        /\ UNCHANGED <<device, shmVars, reg, fileVars, held, portVars, asleep, stopped, outVars, past>>
    BY <1>9 DEF KeymonLoop, Step
  <2>2. q \in Seq(Calls) /\ Elems(q) \in SUBSET (Moves \ {Volume(0)})
    BY HotKeysMove
  <2> HIDE DEF q
  <2>3. Queues("keys", Elems(q))
    BY <1>1, <1>2, <2>1, <2>2 DEF Calm
  <2> QED
    BY <2>1, <2>2, <2>3 DEF Other, DoLoop
<1>10. CASE AppSleep
  <2> DEFINE c == Simple("sleep")
  <2>1. /\ pc["app"] = "idle" /\ asleep' /\ todo' = [todo EXCEPT !["app"] = <<c>>] /\ pc' = [pc EXCEPT !["app"] = "next"]
        /\ UNCHANGED <<device, shmVars, reg, fileVars, keyVars, portVars, stopped, long, outVars, past>>
    BY <1>10 DEF AppSleep, Step
  <2>2. c \in Calls
    BY <1>5 DEF Naps
  <2> HIDE DEF c
  <2>3. <<c>> \in Seq(Calls) /\ Elems(<<c>>) = {c} /\ Ready(<<c>>) = "next"
    BY <1>3, <2>2
  <2>5. Calm /\ shm' = shm /\ past' = past /\ UNCHANGED <<port, lit, mon>>
    BY <2>1 DEF Calm
  <2> DEFINE q == <<c>>
  <2>6. /\ pc["app"] = "idle" /\ todo' = [todo EXCEPT !["app"] = q] /\ pc' = [pc EXCEPT !["app"] = Ready(q)]
        /\ q \in Seq(Calls) /\ Elems(q) = {c}
    BY <2>1, <2>3
  <2> HIDE DEF q
  <2>4. Queues("app", {c})
    BY <1>1, <1>2, <2>5, <2>6
  <2> QED
    BY <2>1, <2>4 DEF Other, DoNap, NoKeys, c
<1>11. CASE AppWake
  <2> DEFINE c == Simple("cont")
             d == Simple("wake")
  <2>1. /\ pc["app"] = "idle" /\ ~ asleep' /\ todo' = [todo EXCEPT !["app"] = <<c, d>>] /\ pc' = [pc EXCEPT !["app"] = "next"]
        /\ UNCHANGED <<device, shmVars, reg, fileVars, keyVars, portVars, stopped, long, outVars, past, acts>>
    BY <1>11 DEF AppWake, Step
  <2>2. c \in Calls /\ d \in Calls
    BY <1>5 DEF Naps
  <2> HIDE DEF c, d
  <2>3. <<c, d>> \in Seq(Calls) /\ Elems(<<c, d>>) = {c, d} /\ Ready(<<c, d>>) = "next"
    BY <1>4, <2>2
  <2>5. Calm /\ shm' = shm /\ past' = past /\ UNCHANGED <<port, lit, mon>>
    BY <2>1 DEF Calm
  <2> DEFINE q == <<c, d>>
  <2>6. /\ pc["app"] = "idle" /\ todo' = [todo EXCEPT !["app"] = q] /\ pc' = [pc EXCEPT !["app"] = Ready(q)]
        /\ q \in Seq(Calls) /\ Elems(q) = {c, d}
    BY <2>1, <2>3
  <2> HIDE DEF q
  <2>4. Queues("app", {c, d})
    BY <1>1, <1>2, <2>5, <2>6
  <2> QED
    BY <2>1, <2>4 DEF Other, DoRise, NoKeys, c, d
<1>12. CASE AppSync
  <2> DEFINE c == Volume(0)
             d == Brightness(0)
  <2>1. /\ pc["app"] = "idle" /\ ~ asleep /\ todo' = [todo EXCEPT !["app"] = <<c, d>>] /\ pc' = [pc EXCEPT !["app"] = "next"]
        /\ UNCHANGED <<device, shmVars, reg, fileVars, keyVars, portVars, sleepVars, outVars, past>>
    BY <1>12 DEF AppSync, Step
  <2>2. c \in Calls /\ d \in Calls
    BY <1>5
  <2> HIDE DEF c, d
  <2>3. <<c, d>> \in Seq(Calls) /\ Elems(<<c, d>>) = {c, d} /\ Ready(<<c, d>>) = "next"
    BY <1>4, <2>2
  <2>5. Calm /\ shm' = shm /\ past' = past /\ UNCHANGED <<port, lit, mon>>
    BY <2>1 DEF Calm
  <2> DEFINE q == <<c, d>>
  <2>6. /\ pc["app"] = "idle" /\ todo' = [todo EXCEPT !["app"] = q] /\ pc' = [pc EXCEPT !["app"] = Ready(q)]
        /\ q \in Seq(Calls) /\ Elems(q) = {c, d}
    BY <2>1, <2>3
  <2> HIDE DEF q
  <2>4. Queues("app", {c, d})
    BY <1>1, <1>2, <2>5, <2>6
  <2> QED
    BY <2>1, <2>4 DEF Other, DoSync, NoKeys, c, d
<1>13. CASE AppQuit(clean)
  <2>1. Goes("app", "off")
    BY <1>1, <1>13, StepGoes DEF AppQuit
  <2>2. shm' = shm \/ (isHost["app"] /\ shm' = [shm EXCEPT !.key = None])
    BY <1>13 DEF AppQuit
  <2>3. ShmOK(shm') /\ shm'.mem = shm.mem /\ shm'.sized = shm.sized /\ (shm'.key = shm.key \/ (shm'.key = None /\ isHost["app"]))
    BY <1>1, <2>2 DEF ShmOK
  <2> QED
    BY <1>13, <2>1, <2>3 DEF AppQuit, Other, DoQuit, NoKeys, NoCable
<1>14. CASE HdmiMon
  <2>1. mon = [had |-> mon.had, busy |-> mon.busy]
    BY <1>1 DEF Typed
  <2>2. \/ mon' = [had |-> port, busy |-> TRUE]
        \/ mon' = [mon EXCEPT !.busy = FALSE] /\ lit'
    BY <1>14 DEF HdmiMon
  <2>3. \/ mon' = [had |-> port, busy |-> TRUE]
        \/ mon' = [had |-> mon.had, busy |-> FALSE] /\ lit'
    BY <2>1, <2>2
  <2> QED
    BY <1>14, <2>3 DEF HdmiMon, Other, DoMon, Calm, NoKeys, Stays
<1>15. CASE Plug
  BY <1>15 DEF Plug, Other, DoPlug, Calm, NoKeys, Stays
<1>16. CASE LongNap \/ KeyDown(k) \/ KeyUp(k)
  BY <1>16 DEF LongNap, KeyDown, KeyUp, Other, DoQuiet, Calm, NoCable, Stays
<1> QED
  BY <1>6, <1>7, <1>8, <1>9, <1>10, <1>11, <1>12, <1>13, <1>14, <1>15, <1>16

\* A thread that is given calls has none, no file and no lock on the memory.
LEMMA QueuesKeepControl ==
  ASSUME BaseInv, NEW t \in Threads, NEW new \in SUBSET Calls, Queues(t, new),
         new \cap Hdmis # {} => device = "rg35xxplus", t # "app" => new \cap Naps = {},
         t = "watch" => pc["keys"] \in Alive, t # "watch" => pc[t] = "idle"
  PROVE  Control'
<1> USE DEF Alive, Acting
<1>1. /\ Own(t) /\ fd[t] = None /\ ~ wrote[t] /\ Calm /\ Shaped(t)
      /\ pc'[t] \in {"idle", "next"} /\ (pc'[t] = "next" <=> todo'[t] # <<>>) /\ Elems(todo'[t]) = new
  BY DEF BaseInv, Control, Own, Queues
<1>2. Own(t)'
  BY <1>1 DEF Own, AtCall, Calm
<1>3. ASSUME NEW u \in Threads, u # t PROVE Own(u)'
  <2>1. Own(u) /\ UNCHANGED <<device, reg, fd, wrote>> /\ pc'[u] = pc[u] /\ todo'[u] = todo[u]
    BY <1>1, <1>3 DEF BaseInv, Control, Calm, Shaped
  <2> QED
    BY <2>1 DEF Own, AtCall, Call
<1> QED
  BY <1>1, <1>2, <1>3 DEF BaseInv, Control, Shaped, Threads

LEMMA OthersKeepControl ==
  ASSUME BaseInv, Other
  PROVE  Control'
<1> USE DEF Alive, Acting
<1>1. Control /\ Typed /\ "keys" \in Threads /\ "app" \in Threads /\ "watch" \in Threads
  BY DEF BaseInv, Threads
<1>2. ASSUME UNCHANGED <<device, reg, fd, wrote, pc, todo>> PROVE Control'
  BY <1>1, <1>2 DEF Control, Own, AtCall, Call
<1>3. ASSUME NEW t \in Threads, pc[t] \in {"off", "idle"}, NEW s \in {"off", "open_shm"}, Goes(t, s), UNCHANGED <<device, reg, fd, wrote>>,
             t # "watch", t = "keys" => pc[t] = "off"
      PROVE  Control'
  <2>1. Own(t) /\ todo[t] = <<>> /\ todo' = todo /\ pc'[t] = s
    BY <1>1, <1>3 DEF Control, Own, Goes
  <2>2. Own(t)'
    BY <1>3, <2>1 DEF Own
  <2>3. ASSUME NEW u \in Threads, u # t PROVE Own(u)'
    <3>1. Own(u) /\ pc'[u] = pc[u] /\ todo'[u] = todo[u]
      BY <1>1, <1>3, <2>3 DEF Control, Goes, Shaped
    <3> QED
      BY <1>3, <3>1 DEF Own, AtCall, Call
  <2> QED
    BY <1>1, <1>3, <2>1, <2>2, <2>3 DEF Control, Goes, Shaped, Threads
<1>4. CASE DoLaunch("keys") \/ DoLaunch("app")
  BY <1>1, <1>3, <1>4 DEF DoLaunch, Calm
<1>5. CASE DoQuit
  BY <1>1, <1>3, <1>5 DEF DoQuit
<1>6. CASE DoMon \/ DoPlug \/ DoQuiet
  BY <1>2, <1>6 DEF DoMon, DoPlug, DoQuiet, Calm, Stays
<1>7. CASE DoWatch
  <2>1. /\ {PortCall(port)} \in SUBSET Calls /\ {PortCall(port)} \cap Naps = {}
        /\ {PortCall(port)} \cap Hdmis # {} => device = "rg35xxplus"
    BY <1>1, CallsDiffer DEF Typed, PortCall, Calls, Jacks, Hdmis
  <2> QED
    BY <1>1, <1>7, <2>1, QueuesKeepControl DEF DoWatch
<1>8. CASE DoLoop
  <2> PICK new \in SUBSET (Moves \ {Volume(0)}) : Queues("keys", new)
    BY <1>8 DEF DoLoop
  <2>1. new \in SUBSET Calls /\ new \cap Naps = {} /\ new \cap Hdmis = {}
    BY CallsDiffer DEF Calls
  <2> QED
    BY <1>1, <1>8, <2>1, QueuesKeepControl DEF DoLoop
<1>9. CASE DoNap \/ DoRise \/ DoSync
  <2>1. /\ {Simple("sleep")} \in SUBSET Calls /\ {Simple("sleep")} \cap Hdmis = {}
        /\ {Simple("cont"), Simple("wake")} \in SUBSET Calls /\ {Simple("cont"), Simple("wake")} \cap Hdmis = {}
        /\ {Volume(0), Brightness(0)} \in SUBSET Calls /\ {Volume(0), Brightness(0)} \cap Hdmis = {}
    BY CallsDiffer DEF Calls, Naps
  <2> QED
    BY <1>1, <1>9, <2>1, QueuesKeepControl DEF DoNap, DoRise, DoSync
<1> QED
  BY <1>4, <1>5, <1>6, <1>7, <1>8, <1>9 DEF Other

LEMMA OthersKeepTyped ==
  ASSUME BaseInv, Other
  PROVE  Typed'
<1>1. Typed
  BY DEF BaseInv
<1>2. CASE DoLaunch("keys") \/ DoLaunch("app")
  BY <1>1, <1>2 DEF Typed, DoLaunch, Calm, NoCable, Goes, Shaped
<1>3. CASE DoQuit
  BY <1>1, <1>3 DEF Typed, DoQuit, NoCable, Goes, Shaped, Objects, None, Processes
<1>4. CASE DoMon \/ DoPlug \/ DoQuiet
  <2>1. port' \in {0, 1} /\ had' \in {0, 1} /\ mon' = [had |-> mon'.had, busy |-> mon'.busy]
    BY <1>1, <1>4 DEF Typed, DoMon, DoPlug, DoQuiet, NoCable
  <2> QED
    BY <1>1, <1>4, <2>1 DEF Typed, DoMon, DoPlug, DoQuiet, Calm, Stays
<1>5. ASSUME NEW t, NEW new, Queues(t, new), had' \in {0, 1} PROVE Typed'
  BY <1>1, <1>5 DEF Typed, Queues, Calm, Shaped
<1>6. CASE DoWatch
  BY <1>1, <1>5, <1>6 DEF DoWatch, Typed
<1>7. CASE DoLoop \/ DoNap \/ DoRise \/ DoSync
  BY <1>1, <1>5, <1>7 DEF DoLoop, DoNap, DoRise, DoSync, Typed
<1> QED
  BY <1>2, <1>3, <1>4, <1>6, <1>7 DEF Other

LEMMA OthersKeepShared ==
  ASSUME BaseInv, Other
  PROVE  Shared'
<1> USE DEF Alive, Acting, Hosting
<1>1. Shared /\ Typed /\ past \subseteq past' /\ "keys" \in Threads /\ "app" \in Threads /\ "watch" \in Threads
      /\ mapped \in [Processes -> Objects \cup {None}] /\ isHost \in [Processes -> BOOLEAN]
  BY DEF BaseInv, Typed, Threads, Other, DoLaunch, DoWatch, DoLoop, DoNap, DoRise, DoSync, DoQuit, DoMon, DoPlug, DoQuiet, Queues
<1>2. ASSUME UNCHANGED <<shm, mapped, isHost>>,
             pc'["keys"] = pc["keys"] \/ (pc["keys"] = "off" /\ pc'["keys"] = "open_shm") \/ (pc["keys"] = "idle" /\ pc'["keys"] \in Alive),
             pc'["app"] = pc["app"] \/ (pc["app"] = "off" /\ pc'["app"] = "open_shm") \/ (pc["app"] = "idle" /\ pc'["app"] \in Alive)
      PROVE  Shared'
  BY <1>1, <1>2 DEF Shared, Objected, NotEarly
<1>3. CASE DoLaunch("keys") \/ DoLaunch("app")
  BY <1>1, <1>2, <1>3 DEF DoLaunch, Calm, Goes, Shaped
<1>4. CASE DoMon \/ DoPlug \/ DoQuiet
  BY <1>1, <1>2, <1>4 DEF DoMon, DoPlug, DoQuiet, Calm, Stays
<1>5. CASE DoWatch
  BY <1>1, <1>2, <1>5 DEF DoWatch, Queues, Calm, Shaped
<1>6. CASE DoLoop
  BY <1>1, <1>2, <1>6 DEF DoLoop, Queues, Calm, Shaped
<1>7. CASE DoNap \/ DoRise \/ DoSync
  BY <1>1, <1>2, <1>7 DEF DoNap, DoRise, DoSync, Queues, Calm, Shaped
<1>8. CASE DoQuit
  <2>1. /\ pc["app"] = "idle" /\ pc'["app"] = "off" /\ pc'["keys"] = pc["keys"] /\ shm'.sized = shm.sized
        /\ shm'.key = shm.key \/ (shm'.key = None /\ isHost["app"])
        /\ mapped'["app"] = None /\ mapped'["keymon"] = mapped["keymon"] /\ ~ isHost'["app"] /\ (isHost'["keymon"] <=> isHost["keymon"])
    BY <1>1, <1>8 DEF DoQuit, Goes, Shaped, Processes
  <2> QED
    BY <1>1, <2>1 DEF Shared, Objected, NotEarly
<1> QED
  BY <1>3, <1>4, <1>5, <1>6, <1>7, <1>8 DEF Other

LEMMA OthersKeepBase ==
  ASSUME BaseInv, Other
  PROVE  BaseInv'
BY OthersKeepTyped, OthersKeepControl, OthersKeepShared DEF BaseInv

\* The state after a boot, the first or one after a cut.
Boot(f, p) ==
  /\ device \in Devices /\ shm = [key |-> None, mem |-> [o \in Objects |-> Zeroed], sized |-> {}]
  /\ mapped = [q \in Processes |-> None] /\ isHost = [q \in Processes |-> FALSE]
  /\ pc = [t \in Threads |-> "off"] /\ todo = [t \in Threads |-> <<>>] /\ reg = [t \in Threads |-> 0]
  /\ fs = f /\ fd = [t \in Threads |-> None] /\ wrote = [t \in Threads |-> FALSE]
  /\ keys = [down |-> {}, just |-> {}] /\ events = <<>>
  /\ port = p /\ had = 0 /\ ~ asleep /\ mixer = 0 /\ lit /\ mon = [had |-> port, busy |-> FALSE]

LEMMA BootIsBase ==
  ASSUME NEW f, NEW p \in {0, 1}, FsOK(f), Boot(f, p)
  PROVE  BaseInv
<1> USE DEF Boot
<1>1. Zeroed \in Settings /\ VOLUME_MAX \in Nat
  BY SettingsAssumption DEF Zeroed, Settings, SETTINGS_VERSION
<1>2. ShmOK(shm)
  BY <1>1 DEF ShmOK
<1>3. <<>> \in Seq(Calls) /\ Elems(<<>>) = {}
  BY EmptySeq, ElemsOfNone
<1>4. Typed
  BY <1>1, <1>2, <1>3 DEF Typed, Pcs
<1>5. Control
  BY <1>3 DEF Control, Own, Acting, Alive, Threads
<1>6. Shared
  BY DEF Shared, Objected, NotEarly, Hosting, Alive, Acting, Threads, Processes, None
<1> QED
  BY <1>4, <1>5, <1>6 DEF BaseInv

LEMMA InitBoots ==
  ASSUME Init
  PROVE  Boot(fs, port) /\ FsOK(fs) /\ port = 0 /\ held = {} /\ past = {} /\ fs.path = None /\ fs.tmp = None
<1>1. FsOK(fs) /\ fs.path = None /\ fs.tmp = None
  <2>1. <<>> \in Contents
    BY DEF Contents
  <2> QED
    BY <2>1 DEF Init, FsOK
<1> QED
  BY <1>1 DEF Init, Boot

LEMMA CutBoots ==
  ASSUME BaseInv, PowerCut
  PROVE  Boot(fs, port)' /\ FsOK(fs') /\ fs' = fs /\ port' = port /\ held' = held /\ past' = past \cup {"cut"} /\ device' = device
BY DEF BaseInv, Typed, PowerCut, Boot, Note

-----------------------------------------------------------------------------
(* The named object through a thread's calls.                              *)

LEMMA MineIsNamed ==
  ASSUME BaseInv, Named, NEW t \in Threads, pc[t] \in Alive
  PROVE  Mine(t) = shm.key /\ shm.key \in Objects /\ S \in Settings /\ Now(t) = S
<1>1. Mine(t) \in Objects /\ Now(t) = shm.mem[Mine(t)] /\ Now(t) \in Settings
  BY HasObject
<1>2. Mine(t) = shm.key
  <2>1. CASE t = "app"
    BY <2>1 DEF BaseInv, Shared, Mine, ProcessOf, Threads
  <2>2. CASE t # "app"
    <3>1. pc["keys"] \in Alive
      <4>1. t = "keys" \/ (t = "watch" /\ pc["watch"] # "off")
        BY <2>2 DEF Threads, Alive, Acting
      <4> QED
        BY <4>1 DEF BaseInv, Control
    <3> QED
      BY <2>2, <3>1 DEF Named, Agree, Mine, ProcessOf, Threads
  <2> QED
    BY <2>1, <2>2
<1> QED
  BY <1>1, <1>2 DEF S

\* What a thread's step does to the shared settings, and what it never does.
LEMMA CallsKeepNames ==
  ASSUME BaseInv, NEW t \in Threads, Does(t)
  PROVE  /\ Agree' <=> Agree
         /\ Named' <=> Named
         /\ HostInit' <=> HostInit
         /\ Filled' <=> Filled
         /\ Named /\ shm' = shm => S' = S
         /\ \A s : Named /\ Stores(t, s) => S' = s
<1> USE DEF Alive, Acting
<1>1. /\ Acts(t) /\ pc'[t] \in Alive /\ pc[t] \in Alive /\ mapped' = mapped /\ shm'.key = shm.key
      /\ \A u \in Threads : u # t => pc'[u] = pc[u]
  BY OthersKept DEF Acts, Shaped
<1>2. pc'["keys"] \in Alive <=> pc["keys"] \in Alive
  BY <1>1 DEF Threads
<1>3. Agree' <=> Agree
  BY <1>1, <1>2 DEF Agree
<1>4. (HostInit' <=> HostInit) /\ (Filled' <=> Filled)
  BY <1>1 DEF HostInit, Hosting, Threads, Filled
<1>5. \A s : Named /\ Stores(t, s) => S' = s
  BY <1>1, MineIsNamed DEF Stores, S, Mine
<1> QED
  BY <1>1, <1>3, <1>4, <1>5 DEF Named, S

\* A store changes one level, or a flag: never the version.
LEMMA CallsKeepVersion ==
  ASSUME BaseInv, NEW t \in Threads, Does(t)
  PROVE  \A o \in Objects : shm'.mem[o].version = shm.mem[o].version
<1>1. CASE shm' = shm
  BY <1>1
<1>2. ASSUME NEW s, Stores(t, s), s.version = Now(t).version PROVE \A o \in Objects : shm'.mem[o].version = shm.mem[o].version
  BY <1>2 DEF Stores, Now, Mine
<1>3. CASE DoStore(t) \/ DoJack(t) \/ DoHdmi(t)
  <2>1. AtCall(t, Call(t)) /\ Call(t) \in Calls /\ Now(t) \in Settings
    BY <1>3, ActsCommon DEF DoStore, DoJack, DoHdmi, Acts
  <2>2. CASE DoStore(t)
    <3>1. Call(t).call = "volume" => reg[t] \in 0 .. VOLUME_MAX
      BY <2>1, <2>2 DEF DoStore, AtCall, Highest
    <3>2. Call(t).call # "volume" => reg[t] \in 0 .. BRIGHTNESS_MAX
      BY <2>1, <2>2 DEF DoStore, AtCall, Highest
    <3> QED
      BY <1>2, <2>1, <2>2, <3>1, <3>2, StoredIsSettings DEF DoStore
  <2>3. CASE DoJack(t)
    BY <1>2, <2>1, <2>3, CallKinds DEF DoJack, Settings
  <2>4. CASE DoHdmi(t)
    BY <1>2, <2>1, <2>4, CallKinds DEF DoHdmi, Settings
  <2> QED
    BY <1>3, <2>2, <2>3, <2>4
<1> QED
  BY <1>1, <1>3 DEF Does, DoGet, DoSkip, DoMix, DoHdmiMix, DoSleep, DoWake, DoOpen, DoWrite, DoRename

LEMMA CallsKeepLevels ==
  ASSUME BaseInv, NEW t \in Threads, Does(t), ~ DoStore(t), Named
  PROVE  Levels(S') = Levels(S)
<1>1. CASE shm' = shm
  BY <1>1, CallsKeepNames
<1>2. CASE DoJack(t) \/ DoHdmi(t)
  <2>1. Call(t) \in Calls /\ pc[t] \in Alive
    BY <1>2, ActsCommon DEF DoJack, DoHdmi, Acts, Alive
  <2>2. Now(t) = S /\ S \in Settings
    BY <2>1, MineIsNamed
  <2>3. CASE DoJack(t)
    <3>1. Call(t).arg \in {0, 1} /\ S' = [S EXCEPT !.jack = Call(t).arg]
      BY <2>1, <2>2, <2>3, CallKinds, CallsKeepNames DEF DoJack
    <3> QED
      BY <2>2, <3>1, StoredIsSettings
  <2>4. CASE DoHdmi(t)
    <3>1. Call(t).arg \in {0, 1} /\ S' = [S EXCEPT !.hdmi = Call(t).arg]
      BY <2>1, <2>2, <2>4, CallKinds, CallsKeepNames DEF DoHdmi
    <3> QED
      BY <2>2, <3>1, StoredIsSettings
  <2> QED
    BY <1>2, <2>3, <2>4
<1> QED
  BY <1>1, <1>2 DEF Does, DoGet, DoSkip, DoMix, DoHdmiMix, DoSleep, DoWake, DoOpen, DoWrite, DoRename

-----------------------------------------------------------------------------
(* The file, through the calls.                                            *)

\* A thread with calls has an object that its host has read.
LEMMA MineIsCurrent ==
  ASSUME BaseInv, Versions, Never("early"), NEW t \in Threads, pc[t] \in Alive
  PROVE  Current(Now(t))
<1> USE DEF Alive, Acting, Hosting
<1>1. Mine(t) \in shm.sized /\ Now(t) = shm.mem[Mine(t)]
  BY HasObject
<1>2. ~ Reading(Mine(t))
  <2>1. t # "app" => pc["keys"] \in Alive
    <3>1. t \in {"keys", "app"} \/ (t = "watch" /\ pc["watch"] # "off")
      BY DEF Threads
    <3> QED
      BY <3>1 DEF BaseInv, Control
  <2>2. CASE t = "app"
    BY <2>2 DEF BaseInv, Shared, Objected, NotEarly, Reading, Mine, ProcessOf, MainThread, Processes, Threads, Never
  <2>3. CASE t # "app"
    BY <2>1, <2>3 DEF BaseInv, Shared, Objected, NotEarly, Reading, Mine, ProcessOf, MainThread, Processes, Threads, Never
  <2> QED
    BY <2>2, <2>3
<1> QED
  BY <1>1, <1>2 DEF Versions

LEMMA CallsKeepVersions ==
  ASSUME BaseInv, Versions, NEW t \in Threads, Does(t)
  PROVE  Versions'
<1> USE DEF Acting, Alive
<1>1. /\ Acts(t) /\ past \subseteq past' /\ mapped' = mapped /\ pc[t] \in Alive /\ pc[t] # "read" /\ shm'.sized = shm.sized
      /\ (\A u \in Threads : u # t => pc'[u] = pc[u]) /\ shm.sized \subseteq Objects
  BY OthersKept DEF Acts, Shaped, BaseInv, Typed, ShmOK
<1> SUFFICES ASSUME Never("early")' PROVE Versions'
  BY DEF Versions
<1>2. Never("early")
  BY <1>1 DEF Never
<1>3. /\ \A o \in shm.sized : Current(shm.mem[o]) \/ Reading(o)
      /\ \A i \in Inodes : fs.data[i] # <<>> => Current(Head(fs.data[i]))
  BY <1>2 DEF Versions
<1>4. ASSUME NEW o \in shm.sized PROVE Current(shm'.mem[o]) \/ Reading(o)'
  <2>1. Reading(o) => Reading(o)'
    BY <1>1 DEF Reading, MainThread, Processes, Threads
  <2> QED
    BY <1>1, <1>3, <2>1, CallsKeepVersion DEF Current
<1>5. \A i \in Inodes : fs'.data[i] # <<>> => Current(Head(fs'.data[i]))
  <2>1. CASE fs' = fs
    BY <1>3, <2>1
  <2>2. CASE DoOpen(t) \/ DoRename(t)
    BY <1>3, <2>2 DEF DoOpen, DoRename, Opens, Renames
  <2>3. CASE Writes(t)
    <3>1. Current(Now(t)) /\ Now(t) \in Settings
      BY <1>1, <1>2, MineIsCurrent, HasObject
    <3>2. \A i \in Inodes : fs'.data[i] = fs.data[i] \/ fs'.data[i] = <<Now(t)>>
      BY <2>3 DEF Writes
    <3> QED
      BY <1>3, <3>1, <3>2
  <2> QED
    BY <2>1, <2>2, <2>3 DEF Does, DoGet, DoSkip, DoStore, DoMix, DoJack, DoHdmi, DoHdmiMix, DoSleep, DoWake, DoWrite, Files
<1> QED
  BY <1>1, <1>4, <1>5 DEF Versions

\* A step that leaves the files alone, opens and ends no save, and changes no
\* level of the object that keeps its name.
FileFrame ==
  /\ Files /\ past \subseteq past'
  /\ \A u \in Threads : (pc'[u] = "write" <=> pc[u] = "write") /\ (pc'[u] = "rename" <=> pc[u] = "rename")
  /\ \A u \in Threads : Storing(u) => Storing(u)'
  /\ Never("early")' /\ Named' /\ Filled' => Named /\ Filled /\ Levels(S') = Levels(S)

LEMMA FrameKeepsFile ==
  ASSUME NoneTorn, WillBeSaved, Whole, FileFrame
  PROVE  NoneTorn' /\ WillBeSaved' /\ Whole'
<1>1. /\ fs' = fs /\ fd' = fd /\ wrote' = wrote /\ past \subseteq past'
      /\ \A u \in Threads : (pc'[u] = "write" <=> pc[u] = "write") /\ (pc'[u] = "rename" <=> pc[u] = "rename")
      /\ FileSays' = FileSays
  BY DEF FileFrame, Files, FileSays
<1>2. \A i : Writing(i)' <=> Writing(i)
  BY <1>1 DEF Writing
<1>3. NoneTorn'
  BY <1>1, <1>2 DEF NoneTorn, Torn, Never
<1>4. Whole'
  BY <1>1 DEF Whole, Never
<1>5. ASSUME Never("fault")', Never("early")', Named', Filled', ~ (\E u \in Threads : Storing(u)')
      PROVE  IF Pending' /\ fs'.tmp # None THEN Good(fs.tmp)' ELSE GoodPath'
  <2>1. Never("fault") /\ Never("early") /\ Named /\ Filled /\ Levels(S') = Levels(S) /\ ~ (\E u \in Threads : Storing(u))
    BY <1>1, <1>5 DEF FileFrame, Never
  <2>2. IF Pending /\ fs.tmp # None THEN Good(fs.tmp) ELSE GoodPath
    BY <2>1 DEF WillBeSaved
  <2>3. Pending' <=> Pending
    BY <1>1 DEF Pending
  <2>4. Good(fs.tmp) => Good(fs.tmp)'
    BY <1>1, <1>2, <2>1 DEF Good, Same
  <2>5. GoodPath => GoodPath'
    BY <1>1, <1>2, <2>1 DEF GoodPath, Same
  <2> QED
    BY <1>1, <2>2, <2>3, <2>4, <2>5
<1>6. WillBeSaved'
  BY <1>5 DEF WillBeSaved
<1> QED
  BY <1>3, <1>4, <1>6

\* Every call but a store, a mix and the steps of a save is such a step.
LEMMA CallsFrameFile ==
  ASSUME BaseInv, NEW t \in Threads,
         DoGet(t) \/ DoSkip(t) \/ DoJack(t) \/ DoHdmi(t) \/ DoHdmiMix(t) \/ DoSleep(t) \/ DoWake(t)
  PROVE  FileFrame
<1>1. /\ Does(t) /\ Files /\ Acts(t)
      /\ pc[t] \in {"next", "first", "second"} /\ (pc[t] = "second" => Call(t) = Hdmi(1))
      /\ pc'[t] \in {"next", "idle", "first", "second"}
  BY DEF Does, DoGet, DoSkip, DoJack, DoHdmi, DoHdmiMix, DoSleep, DoWake, Begins, Consumes, Replaces, Goes
<1>2. ~ DoStore(t)
  BY DEF DoGet, DoSkip, DoJack, DoHdmi, DoHdmiMix, DoSleep, DoWake, DoStore, Begins
<1>3. past \subseteq past' /\ \A u \in Threads : u # t => pc'[u] = pc[u] /\ todo'[u] = todo[u]
  BY <1>1 DEF Acts, Shaped
<1>4. \A u \in Threads : (pc'[u] = "write" <=> pc[u] = "write") /\ (pc'[u] = "rename" <=> pc[u] = "rename")
  BY <1>1, <1>3
<1>5. \A u \in Threads : Storing(u) => Storing(u)'
  <2>1. ~ Storing(t)
    BY <1>1, CallsDiffer DEF Storing
  <2> QED
    BY <1>3, <2>1 DEF Storing, Call
<1>6. Named' /\ Filled' => Named /\ Filled /\ Levels(S') = Levels(S)
  BY <1>1, <1>2, CallsKeepNames, CallsKeepLevels
<1> QED
  BY <1>1, <1>3, <1>4, <1>5, <1>6 DEF FileFrame

LEMMA CallsKeepFile ==
  ASSUME BaseInv, FileInv, NEW t \in Threads, Does(t)
  PROVE  FileInv'
<1>1. /\ Acts(t) /\ past \subseteq past' /\ (\A u \in Threads : u # t => pc'[u] = pc[u] /\ todo'[u] = todo[u])
      /\ Typed /\ FsOK(fs) /\ NoneTorn /\ WillBeSaved /\ Whole /\ Own(t)
  BY OthersKept DEF Acts, Shaped, FileInv, BaseInv, Typed, Control
<1>2. Versions'
  BY CallsKeepVersions DEF FileInv
<1>3. ASSUME NEW u \in Threads, u # t, Storing(u) PROVE Storing(u)'
  BY <1>1, <1>3 DEF Storing, Call
<1>4. ASSUME NEW i, Writing(i), fd' = fd \/ (\A u \in Threads : u # t => fd'[u] = fd[u]), ~ (pc[t] = "write" /\ fd[t] = i) PROVE Writing(i)'
  BY <1>1, <1>4 DEF Writing
<1>5. /\ Agree' <=> Agree
      /\ Named' <=> Named
      /\ Filled' <=> Filled
      /\ Named /\ shm' = shm => S' = S
  BY CallsKeepNames
<1>6. CASE DoGet(t) \/ DoSkip(t) \/ DoJack(t) \/ DoHdmi(t) \/ DoHdmiMix(t) \/ DoSleep(t) \/ DoWake(t)
  BY <1>1, <1>2, <1>6, CallsFrameFile, FrameKeepsFile DEF FileInv
<1>7. CASE DoStore(t) \/ DoMix(t)
  <2>1. /\ fs' = fs /\ fd' = fd /\ wrote' = wrote /\ Storing(t)'
        /\ pc[t] \notin {"write", "rename"} /\ pc'[t] \notin {"write", "rename"}
    BY <1>7 DEF DoStore, DoMix, Files, Goes, Storing, Call
  <2>2. Whole'
    BY <1>1, <2>1 DEF Whole, Never
  <2>3. WillBeSaved'
    BY <2>1 DEF WillBeSaved
  <2>4. \A i : Writing(i) => Writing(i)'
    BY <1>4, <2>1
  <2>5. NoneTorn'
    BY <1>1, <2>1, <2>4 DEF NoneTorn, Torn, Never
  <2> QED
    BY <1>2, <2>2, <2>3, <2>5 DEF FileInv
<1>8. CASE DoOpen(t)
  <2>1. /\ Opens(t) /\ pc[t] = "open" /\ pc'[t] = "write" /\ wrote' = wrote /\ past' = past /\ fs'.tmp \in Inodes /\ fs'.tmp # None
        /\ fd'[t] = fs'.tmp /\ \A u \in Threads : u # t => fd'[u] = fd[u]
    BY <1>8 DEF DoOpen, Goes, Opens, Sets, Inodes, None
  <2>2. Writing(fs.tmp)'
    BY <2>1 DEF Writing
  <2>3. Whole'
    BY <1>1, <2>1 DEF Whole, Never
  <2>4. WillBeSaved'
    <3>1. Pending'
      BY <2>1 DEF Pending
    <3> QED
      BY <2>1, <2>2, <3>1 DEF WillBeSaved, Good
  <2>5. \A i : Writing(i) => Writing(i)'
    BY <1>4, <2>1
  <2>6. NoneTorn'
    <3> SUFFICES ASSUME Never("fault")', Never("cut")' PROVE ~ Torn(fs.tmp)' /\ ~ Torn(fs.path)'
      BY DEF NoneTorn
    <3>1. ~ Torn(fs.tmp)'
      BY <2>2 DEF Torn
    <3>2. ~ Torn(fs.path)
      BY <1>1, <2>1 DEF NoneTorn, Never
    <3>3. ~ Torn(fs.path)'
      <4>1. CASE fs'.path = fs'.tmp
        BY <3>1, <4>1 DEF Torn, Writing
      <4>2. CASE fs'.path # fs'.tmp
        <5>1. fs'.path = fs.path /\ (fs.path # None => fs'.data[fs'.path] = fs.data[fs.path])
          BY <1>1, <2>1, <4>2 DEF Opens, FsOK
        <5>2. Writing(fs.path) => Writing(fs.path)'
          BY <2>5, <5>1 DEF Writing
        <5> QED
          BY <3>2, <5>1, <5>2 DEF Torn
      <4> QED
        BY <4>1, <4>2
    <3> QED
      BY <3>1, <3>3
  <2> QED
    BY <1>2, <2>3, <2>4, <2>6 DEF FileInv
<1>9. CASE DoWrite(t)
  <2>1. /\ shm' = shm /\ pc[t] = "write" /\ pc'[t] = "rename" /\ fd' = fd /\ fd[t] \in Inodes
        /\ todo' = todo
    BY <1>1, <1>9 DEF DoWrite, Goes, Own, Typed
  <2>2. CASE "fault" \in past'
    BY <1>2, <2>2 DEF FileInv, NoneTorn, WillBeSaved, Whole, Never
  <2>3. CASE Writes(t)
    <3> DEFINE i0 == fd[t]
               n == Now(t)
    <3>1. /\ fs'.tmp = fs.tmp /\ fs'.path = fs.path /\ fs'.data[i0] = <<n>> /\ i0 \in Inodes
          /\ \A i \in Inodes : i # i0 => fs'.data[i] = fs.data[i]
          /\ wrote'[t] /\ (\A u \in Threads : u # t => wrote'[u] = wrote[u]) /\ past' = past
      BY <2>1, <2>3 DEF Writes, Wrote
    <3>2. Named => S' = S /\ Head(<<n>>) = S
      BY <1>5, <2>1, MineIsNamed DEF Alive, Acting
    <3>3. <<n>> # <<>>
      OBVIOUS
    <3> HIDE DEF n, i0
    <3>4. ASSUME NEW i \in Inodes, Writing(i), i # i0 PROVE Writing(i)'
      BY <1>4, <2>1, <3>4 DEF i0
    <3>5. Whole'
      BY <1>1, <2>1, <3>1 DEF Whole, Never
    <3>6. NoneTorn'
      <4> SUFFICES ASSUME Never("fault")', Never("cut")' PROVE ~ Torn(fs.tmp)' /\ ~ Torn(fs.path)'
        BY DEF NoneTorn
      <4>1. ~ Torn(fs.tmp) /\ ~ Torn(fs.path) /\ fs.tmp \in Inodes \cup {None} /\ fs.path \in Inodes \cup {None}
        BY <1>1, <3>1 DEF NoneTorn, Never, FsOK
      <4>2. ASSUME NEW i \in Inodes, ~ Torn(i) PROVE fs'.data[i] # <<>> \/ Writing(i)' \/ i = None
        BY <3>1, <3>3, <3>4, <4>2 DEF Torn
      <4>3. ~ Torn(fs.tmp)'
        <5>1. fs.tmp \in Inodes => fs'.data[fs.tmp] # <<>> \/ Writing(fs.tmp)' \/ fs.tmp = None
          BY <3>1, <4>1, <4>2 DEF Writing
        <5> QED
          BY <3>1, <4>1, <5>1 DEF Torn, Writing
      <4>4. ~ Torn(fs.path)'
        <5>1. fs.path \in Inodes => fs'.data[fs.path] # <<>> \/ Writing(fs.path)' \/ fs.path = None
          BY <3>1, <4>1, <4>2 DEF Writing
        <5> QED
          BY <3>1, <4>1, <5>1 DEF Torn, Writing
      <4> QED
        BY <4>3, <4>4
    <3>7. WillBeSaved'
      <4> SUFFICES ASSUME Never("fault")', Never("early")', Named', Filled', ~ (\E u \in Threads : Storing(u)')
                   PROVE  IF Pending' /\ fs'.tmp # None THEN Good(fs.tmp)' ELSE GoodPath'
        BY DEF WillBeSaved
      <4>1. Never("fault") /\ Never("early") /\ Named /\ Filled /\ S' = S /\ Pending
        BY <1>5, <2>1, <3>1, <3>2 DEF Never, Pending
      <4>2. ~ (\E u \in Threads : Storing(u))
        BY <1>3, <2>1 DEF Storing
      <4>3. IF fs.tmp # None THEN Good(fs.tmp) ELSE GoodPath
        BY <1>1, <4>1, <4>2 DEF WillBeSaved
      <4>4. Pending'
        BY <2>1 DEF Pending
      <4>5. CASE fs.tmp # None
        <5>1. fs.tmp \in Inodes
          BY <1>1, <4>5 DEF FsOK
        <5>2. CASE fs.tmp = i0
          BY <3>1, <3>2, <3>3, <4>1, <4>4, <4>5, <5>2 DEF Good, Same
        <5>3. CASE fs.tmp # i0
          BY <3>1, <3>4, <4>1, <4>3, <4>4, <4>5, <5>1, <5>3 DEF Good, Same
        <5> QED
          BY <5>2, <5>3
      <4>6. CASE fs.tmp = None
        <5>1. CASE fs.path = i0
          <6>1. i0 # None
            BY <3>1 DEF Inodes, None
          <6>2. FileSays' = S
            BY <3>1, <3>2, <3>3, <4>1, <5>1, <6>1 DEF FileSays
          <6> QED
            BY <3>1, <4>1, <4>6, <6>2 DEF GoodPath, Same
        <5>2. CASE fs.path # i0
          <6>1. fs.path # None => fs.path \in Inodes /\ fs'.data[fs'.path] = fs.data[fs.path]
            BY <1>1, <3>1, <5>2 DEF FsOK
          <6>2. FileSays' = FileSays
            BY <3>1, <6>1 DEF FileSays
          <6>3. fs.path # None /\ Writing(fs.path) => Writing(fs.path)'
            BY <3>1, <3>4, <5>2, <6>1 DEF Writing
          <6> QED
            BY <3>1, <4>1, <4>3, <4>6, <6>2, <6>3 DEF GoodPath, Same
        <5> QED
          BY <5>1, <5>2
      <4> QED
        BY <4>5, <4>6
    <3> QED
      BY <1>2, <3>5, <3>6, <3>7 DEF FileInv
  <2> QED
    BY <1>9, <2>2, <2>3 DEF DoWrite
<1>10. CASE DoRename(t)
  <2>1. /\ shm' = shm /\ pc[t] = "rename" /\ pc'[t] \in {"idle", "next"} /\ Renames(t) /\ past' = past
        /\ fd'[t] = None /\ (\A u \in Threads : u # t => fd'[u] = fd[u])
        /\ (\A u \in Threads : u # t => wrote'[u] = wrote[u]) /\ ~ wrote'[t]
    BY <1>10 DEF DoRename, Renames, Sets, Wrote, Consumes
  <2>2. IF wrote[t] /\ fs.tmp # None THEN fs'.path = fs.tmp /\ fs'.tmp = None ELSE fs'.path = fs.path /\ fs'.tmp = fs.tmp
    BY <2>1 DEF Renames
  <2>3. fs'.tmp # None => fs'.data[fs'.tmp] = fs.data[fs'.tmp]
    BY <1>1, <2>1, <2>2 DEF Renames, FsOK
  <2>4. fs'.path # None => fs'.data[fs'.path] = fs.data[fs'.path]
    BY <1>1, <2>1, <2>2 DEF Renames, FsOK
  <2>5. \A i : Writing(i) => Writing(i)'
    BY <1>4, <2>1
  <2>6. NoneTorn'
    BY <1>1, <2>1, <2>2, <2>3, <2>4, <2>5 DEF NoneTorn, Torn, Never
  <2>7. Whole'
    BY <1>1, <2>1 DEF Whole, Never
  <2>8. WillBeSaved'
    <3> SUFFICES ASSUME Never("fault")', Never("early")', Named', Filled', ~ (\E u \in Threads : Storing(u)')
                 PROVE  IF Pending' /\ fs'.tmp # None THEN Good(fs.tmp)' ELSE GoodPath'
      BY DEF WillBeSaved
    <3>1. Never("fault") /\ Never("early") /\ Named /\ Filled /\ S' = S /\ Pending /\ wrote[t]
      BY <1>1, <1>5, <2>1 DEF Never, Pending, Whole
    <3>2. ~ (\E u \in Threads : Storing(u))
      BY <1>3, <2>1 DEF Storing
    <3>3. IF fs.tmp # None THEN Good(fs.tmp) ELSE GoodPath
      BY <1>1, <3>1, <3>2 DEF WillBeSaved
    <3>4. CASE fs.tmp # None
      <4>1. fs'.path = fs.tmp /\ fs'.path # None /\ fs'.tmp = None /\ fs'.data[fs'.path] = fs.data[fs.tmp]
        BY <2>2, <2>4, <3>1, <3>4
      <4>2. CASE Writing(fs.tmp)
        BY <2>5, <4>1, <4>2 DEF GoodPath, Writing
      <4>3. CASE fs.data[fs.tmp] # <<>> /\ Same(Head(fs.data[fs.tmp]))
        <5>1. FileSays' = Head(fs.data[fs.tmp])
          BY <4>1, <4>3 DEF FileSays
        <5> QED
          BY <3>1, <4>1, <4>3, <5>1 DEF GoodPath, Same
      <4> QED
        BY <3>3, <3>4, <4>2, <4>3 DEF Good
    <3>5. CASE fs.tmp = None
      <4>1. fs'.path = fs.path /\ fs'.tmp = None
        BY <2>2, <3>5
      <4>2. FileSays' = FileSays
        BY <2>4, <4>1 DEF FileSays
      <4>3. fs.path # None /\ Writing(fs.path) => Writing(fs.path)'
        BY <2>5, <4>1 DEF Writing
      <4> QED
        BY <3>1, <3>3, <3>5, <4>1, <4>2, <4>3 DEF GoodPath, Same
    <3> QED
      BY <3>4, <3>5
  <2> QED
    BY <1>2, <2>6, <2>7, <2>8 DEF FileInv
<1> QED
  BY <1>6, <1>7, <1>8, <1>9, <1>10 DEF Does

-----------------------------------------------------------------------------
(* The file, through a start and through the other steps.                  *)

\* What a start does to the name, and who else is there while a host reads.
LEMMA StartsKeepNames ==
  ASSUME BaseInv, NEW p \in Processes, Starts(p)
  PROVE  /\ Agree' => Agree
         /\ DoCreate(p) \/ DoSize(p) => ~ Filled'
         /\ DoAttach(p) \/ DoMap(p) => (Named' => Named /\ S' = S) /\ (Filled' => Filled)
         /\ DoAbort(p) => (Named' => Named /\ S' = S /\ pc[Main(p)] = "poll")
         /\ DoRead(p) \/ DoVersion(p) =>
              /\ Named' => Named
              /\ mapped[p] = shm.key /\ shm.key \in Objects /\ Now(Main(p)) = S
              /\ \A s : Stores(Main(p), s) => S' = s
              /\ Filled' /\ DoVersion(p) => Filled
              /\ Named /\ Never("early") => \A u \in Threads : pc[u] \notin Acting
<1> USE DEF Alive, Acting, Hosting
<1> DEFINE t == Main(p)
<1>1. /\ Begun(p) /\ pc[t] \in {"open_shm", "poll"} \cup Hosting
  BY DEF Starts, DoCreate, DoAttach, DoSize, DoAbort, DoMap, DoRead, DoVersion
<1>2. /\ t \in Threads /\ t # "watch" /\ (t = "app" <=> p = "app") /\ (t = "keys" <=> p = "keymon") /\ Mine(t) = mapped[p]
      /\ p \in {"app", "keymon"}
      /\ (\A u \in Threads : u # t => pc'[u] = pc[u])
      /\ (\A q \in Processes : q # p => mapped'[q] = mapped[q])
      /\ shm.key \in Objects \cup {None} /\ Shared /\ Control
      /\ past \subseteq past'
  BY <1>1 DEF Main, MainThread, Processes, Threads, Mine, ProcessOf, Begun, Shaped, BaseInv, Typed, ShmOK
<1>3. Agree' => Agree
  <2> SUFFICES ASSUME Agree', pc["keys"] \in Alive PROVE mapped["keymon"] = shm.key
    BY DEF Agree
  <2>1. t = "app" /\ pc'["keys"] = pc["keys"] /\ mapped'["keymon"] = mapped["keymon"]
    BY <1>1, <1>2 DEF Threads, Processes
  <2>2. mapped["keymon"] = shm'.key
    BY <2>1 DEF Agree
  <2>3. mapped["keymon"] # None
    BY <1>2 DEF Shared, Objected
  <2>4. DoCreate(p) => mapped["keymon"] # shm'.key
    BY DEF DoCreate, Processes
  <2>5. DoAbort(p) => shm'.key = shm.key \/ shm'.key = None
    BY DEF DoAbort
  <2> QED
    BY <2>2, <2>3, <2>4, <2>5 DEF Starts, DoAttach, DoSize, DoMap, DoRead, DoVersion, Stores
<1>4. DoCreate(p) \/ DoSize(p) => ~ Filled'
  BY <1>2 DEF DoCreate, DoSize, Given, Filled
<1>5. DoAttach(p) \/ DoMap(p) => (Named' => Named /\ S' = S) /\ (Filled' => Filled)
  BY <1>2, <1>3 DEF DoAttach, DoMap, Named, S, Filled, Given, Initialises, Threads
<1>6. DoAbort(p) => (Named' => Named /\ S' = S /\ pc[t] = "poll")
  BY <1>2, <1>3 DEF DoAbort, Named, S
<1>7. ASSUME DoRead(p) \/ DoVersion(p)
      PROVE  /\ Named' => Named
             /\ mapped[p] = shm.key /\ shm.key \in Objects /\ Now(t) = S
             /\ \A s : Stores(t, s) => S' = s
             /\ Filled' /\ DoVersion(p) => Filled
             /\ Named /\ Never("early") => \A u \in Threads : pc[u] \notin Acting
  <2>1. pc[t] \in {"read", "version"} /\ shm'.key = shm.key /\ (DoVersion(p) => pc[t] = "version")
    BY <1>7 DEF DoRead, DoVersion, Stores
  <2>2. isHost[p] /\ mapped[p] = shm.key /\ shm.key \in Objects
    BY <1>2, <2>1 DEF Shared, Objected
  <2>3. Named' => Named
    BY <1>3, <2>1 DEF Named
  <2>4. Now(t) = S /\ \A s : Stores(t, s) => S' = s
    BY <1>2, <2>1, <2>2 DEF Now, S, Mine, Stores
  <2>5. Filled' /\ DoVersion(p) => Filled
    BY <1>2, <2>1 DEF Filled, Threads
  <2>6. ASSUME Named, Never("early"), NEW u \in Threads, pc[u] \in Acting PROVE FALSE
    <3>1. CASE p = "app"
      <4>1. pc["keys"] \in Alive
        <5>1. u = "keys" \/ (u = "watch" /\ pc["watch"] # "off")
          BY <1>2, <2>1, <2>6, <3>1 DEF Threads
        <5> QED
          BY <1>2, <2>6, <5>1 DEF Control
      <4> QED
        BY <1>2, <2>1, <2>6, <3>1, <4>1 DEF Shared, NotEarly, Named, Agree, Never
    <3>2. CASE p = "keymon"
      <4>1. u = "app"
        <5>1. u # "keys" /\ (u = "watch" => pc["watch"] # "off")
          BY <1>2, <2>1, <2>6, <3>2
        <5>2. pc["keys"] \notin Alive
          BY <1>2, <2>1, <3>2
        <5> QED
          BY <1>2, <5>1, <5>2 DEF Control, Threads
      <4> QED
        BY <1>2, <2>1, <2>6, <3>2, <4>1 DEF Shared, NotEarly, Never
    <3> QED
      BY <1>2, <3>1, <3>2
  <2> QED
    BY <2>2, <2>3, <2>4, <2>5, <2>6
<1> QED
  BY <1>3, <1>4, <1>5, <1>6, <1>7

LEMMA FileSaysCurrent ==
  ASSUME Typed, \A i \in Inodes : fs.data[i] # <<>> => Current(Head(fs.data[i]))
  PROVE  Current(FileSays)
<1>1. Current(DefaultSettings)
  BY DEF Current, DefaultSettings
<1>2. fs.path \in Inodes \cup {None}
  BY DEF Typed, FsOK
<1> QED
  BY <1>1, <1>2 DEF FileSays

LEMMA StartsKeepVersions ==
  ASSUME BaseInv, Versions, NEW p \in Processes, Starts(p)
  PROVE  Versions'
<1> DEFINE t == Main(p)
<1>1. Begun(p) /\ past \subseteq past' /\ fs' = fs /\ Typed /\ shm.sized \subseteq Objects
  BY DEF Starts, DoCreate, DoAttach, DoSize, DoAbort, DoMap, DoRead, DoVersion, Begun, BaseInv, Typed, ShmOK
<1>2. /\ \A q \in Processes : q # p => mapped'[q] = mapped[q] /\ pc'[MainThread[q]] = pc[MainThread[q]]
      /\ t = MainThread[p] /\ Mine(t) = mapped[p]
  BY <1>1 DEF Begun, Shaped, Main, MainThread, Processes, Threads, Mine, ProcessOf
<1> SUFFICES ASSUME Never("early")' PROVE Versions'
  BY DEF Versions
<1>3. Never("early") /\ (\A o \in shm.sized : Current(shm.mem[o]) \/ Reading(o)) /\ Current(DefaultSettings) /\ Current(FileSays)
      /\ \A i \in Inodes : fs.data[i] # <<>> => Current(Head(fs.data[i]))
  BY <1>1, FileSaysCurrent DEF Versions, Never, Current, DefaultSettings
<1>4. ASSUME NEW o, Reading(o), pc[t] # "read" PROVE Reading(o)'
  BY <1>2, <1>4 DEF Reading
<1>5. ASSUME NEW o \in shm'.sized PROVE Current(shm'.mem[o]) \/ Reading(o)'
  <2>1. CASE DoCreate(p)
    BY <1>1, <1>3, <1>4, <1>5, <2>1 DEF DoCreate
  <2>2. CASE DoAttach(p) \/ DoAbort(p) \/ DoMap(p)
    BY <1>3, <1>4, <1>5, <2>2 DEF DoAttach, DoAbort, DoMap
  <2>3. CASE DoSize(p)
    <3>1. o = mapped[p] => Reading(o)'
      BY <1>2, <2>3 DEF DoSize, Reading, Given, Kept
    <3> QED
      BY <1>1, <1>3, <1>4, <1>5, <2>3, <3>1 DEF DoSize
  <2>4. CASE DoRead(p)
    <3>1. /\ Mine(t) = mapped[p] /\ shm'.sized = shm.sized /\ o \in Objects /\ shm'.mem[Mine(t)] = FileSays
          /\ (o # Mine(t) => shm'.mem[o] = shm.mem[o])
      BY <1>1, <1>2, <1>5, <2>4 DEF DoRead, Stores
    <3>2. CASE o = Mine(t)
      BY <1>3, <3>1, <3>2
    <3>3. CASE o # Mine(t)
      <4>1. Reading(o) => Reading(o)'
        BY <1>2, <3>1, <3>3 DEF Reading
      <4> QED
        BY <1>3, <1>5, <3>1, <3>3, <4>1
    <3> QED
      BY <3>2, <3>3
  <2>5. CASE DoVersion(p)
    <3>1. /\ pc[t] # "read" /\ shm'.sized = shm.sized /\ o \in Objects
          /\ (o # Mine(t) => shm'.mem[o] = shm.mem[o])
          /\ shm'.mem[Mine(t)] = IF Current(Now(t)) THEN Now(t) ELSE DefaultSettings
      BY <1>1, <1>5, <2>5 DEF DoVersion, Stores
    <3> QED
      BY <1>3, <1>4, <1>5, <3>1
  <2> QED
    BY <2>1, <2>2, <2>3, <2>4, <2>5 DEF Starts
<1> QED
  BY <1>1, <1>3, <1>5 DEF Versions

LEMMA StartsKeepFile ==
  ASSUME BaseInv, FileInv, NEW p \in Processes, Starts(p)
  PROVE  FileInv'
<1> USE DEF Hosting, Acting
<1> DEFINE t == Main(p)
<1>1. /\ Begun(p) /\ past \subseteq past' /\ Files
      /\ pc[t] \notin {"open", "write", "rename", "second"} /\ pc'[t] \notin {"open", "write", "rename", "second"}
      /\ \A u \in Threads : u # t => pc'[u] = pc[u] /\ todo'[u] = todo[u]
  BY DEF Starts, DoCreate, DoAttach, DoSize, DoAbort, DoMap, DoRead, DoVersion, Begun, Shaped, Given, Initialises, Files
<1>2. Versions' /\ NoneTorn /\ WillBeSaved /\ Whole
  BY StartsKeepVersions DEF FileInv
<1>3. /\ \A u \in Threads : (pc'[u] = "write" <=> pc[u] = "write") /\ (pc'[u] = "rename" <=> pc[u] = "rename")
      /\ \A u \in Threads : Storing(u) => Storing(u)'
  BY <1>1 DEF Storing, Call
<1>4. CASE ~ DoRead(p)
  <2>1. Never("early")' /\ Named' /\ Filled' => Named /\ Filled /\ Levels(S') = Levels(S)
    <3> SUFFICES ASSUME Never("early")', Named', Filled' PROVE Named /\ Filled /\ Levels(S') = Levels(S)
      OBVIOUS
    <3>1. CASE DoCreate(p) \/ DoSize(p) \/ DoAttach(p) \/ DoMap(p)
      BY <3>1, StartsKeepNames
    <3>2. CASE DoAbort(p)
      <4>1. Named /\ S' = S /\ pc[t] = "poll"
        BY <3>2, StartsKeepNames
      <4>2. Filled
        BY <1>1, <4>1 DEF Filled, Threads
      <4> QED
        BY <4>1, <4>2
    <3>3. CASE DoVersion(p)
      <4>1. Named /\ Filled /\ mapped[p] = shm.key /\ Now(t) = S
            /\ S' = IF Current(S) THEN S ELSE DefaultSettings
        BY <3>3, StartsKeepNames DEF DoVersion
      <4>2. Current(S)
        <5>1. shm.key \in shm.sized /\ pc[t] = "version"
          BY <3>3, <4>1 DEF DoVersion, BaseInv, Shared, Objected, Main, MainThread, Processes
        <5>2. ~ Reading(shm.key)
          BY <5>1 DEF Reading, BaseInv, Shared, Objected, Main, MainThread, Processes
        <5>3. Never("early")
          BY <1>1 DEF Never
        <5> QED
          BY <5>1, <5>2, <5>3 DEF FileInv, Versions, S
      <4> QED
        BY <4>1, <4>2
    <3> QED
      BY <1>4, <3>1, <3>2, <3>3 DEF Starts
  <2> QED
    BY <1>1, <1>2, <1>3, <2>1, FrameKeepsFile DEF FileFrame, FileInv
<1>5. CASE DoRead(p)
  <2>1. fs' = fs /\ fd' = fd /\ wrote' = wrote /\ FileSays' = FileSays
    BY <1>1 DEF Files, FileSays
  <2>2. \A i : Writing(i)' <=> Writing(i)
    BY <1>3, <2>1 DEF Writing
  <2>3. NoneTorn'
    BY <1>1, <1>2, <2>1, <2>2 DEF NoneTorn, Torn, Never
  <2>4. Whole'
    BY <1>1, <1>2, <1>3, <2>1 DEF Whole, Never
  <2>5. WillBeSaved'
    <3> SUFFICES ASSUME Never("early")', Named' PROVE ~ Pending' /\ GoodPath'
      BY DEF WillBeSaved
    <3>1. Named /\ Never("early")
      BY <1>1, <1>5, StartsKeepNames DEF Never
    <3>2. S' = FileSays /\ \A u \in Threads : pc[u] \notin Acting
      BY <1>5, <3>1, StartsKeepNames DEF DoRead
    <3>3. ~ Pending'
      BY <1>3, <3>2 DEF Pending
    <3> QED
      BY <2>1, <3>2, <3>3 DEF GoodPath, Same
  <2> QED
    BY <1>2, <2>3, <2>4, <2>5 DEF FileInv
<1> QED
  BY <1>4, <1>5

\* The program that quits and the others leave the named object as it is.
LEMMA OthersKeepNames ==
  ASSUME BaseInv, Other
  PROVE  /\ Agree' => Agree
         /\ Named' => Named /\ S' = S
         /\ Filled' <=> Filled
         /\ HostInit' <=> HostInit
         /\ past \subseteq past' /\ fs' = fs /\ fd' = fd /\ wrote' = wrote /\ reg' = reg /\ device' = device /\ mixer' = mixer
         /\ shm'.mem = shm.mem /\ shm'.sized = shm.sized
         /\ \A u \in Threads : (pc'[u] = pc[u] /\ todo'[u] = todo[u]) \/ (pc[u] \in {"off", "idle"} /\ pc'[u] \in {"off", "open_shm", "idle", "next"})
         /\ \A q \in Processes : mapped'[q] = mapped[q] \/ (q = "app" /\ pc["app"] = "idle")
<1> USE DEF Alive, Acting, Hosting
<1>1. /\ shm'.mem = shm.mem /\ shm'.sized = shm.sized /\ past \subseteq past' /\ fs' = fs /\ fd' = fd /\ wrote' = wrote /\ reg' = reg
      /\ device' = device /\ mixer' = mixer
  BY DEF Other, DoLaunch, DoWatch, DoLoop, DoNap, DoRise, DoSync, DoQuit, DoMon, DoPlug, DoQuiet, Queues, Calm
<1>2. \A u \in Threads : (pc'[u] = pc[u] /\ todo'[u] = todo[u]) \/ (pc[u] \in {"off", "idle"} /\ pc'[u] \in {"off", "open_shm", "idle", "next"})
  <2>1. CASE DoLaunch("keys") \/ DoLaunch("app") \/ DoQuit
    BY <2>1 DEF DoLaunch, DoQuit, Goes, Shaped
  <2>2. CASE DoWatch \/ DoLoop
    BY <2>2 DEF DoWatch, DoLoop, Queues, Shaped
  <2>3. CASE DoNap \/ DoRise \/ DoSync
    BY <2>3 DEF DoNap, DoRise, DoSync, Queues, Shaped
  <2>4. CASE DoMon \/ DoPlug \/ DoQuiet
    BY <2>4 DEF DoMon, DoPlug, DoQuiet, Stays
  <2> QED
    BY <2>1, <2>2, <2>3, <2>4 DEF Other
<1>3. (Filled' <=> Filled) /\ (HostInit' <=> HostInit)
  BY <1>2 DEF Filled, HostInit, Threads
<1>4. (mapped' = mapped /\ shm' = shm) \/ DoQuit
  BY DEF Other, DoLaunch, DoWatch, DoLoop, DoNap, DoRise, DoSync, DoMon, DoPlug, DoQuiet, Queues, Calm
<1>5. /\ mapped'["keymon"] = mapped["keymon"] /\ (shm'.key = shm.key \/ shm'.key = None)
      /\ \A q \in Processes : mapped'[q] = mapped[q] \/ (q = "app" /\ pc["app"] = "idle")
  BY <1>4 DEF BaseInv, Typed, DoQuit, Processes
<1>6. pc["keys"] \in Alive => pc'["keys"] \in Alive
  <2>1. CASE DoLaunch("keys") \/ DoLaunch("app") \/ DoQuit
    BY <2>1 DEF DoLaunch, DoQuit, Goes, Shaped, Threads
  <2>2. CASE DoWatch \/ DoLoop
    BY <2>2 DEF DoWatch, DoLoop, Queues, Shaped, Threads
  <2>3. CASE DoNap \/ DoRise \/ DoSync
    BY <2>3 DEF DoNap, DoRise, DoSync, Queues, Shaped, Threads
  <2>4. CASE DoMon \/ DoPlug \/ DoQuiet
    BY <2>4 DEF DoMon, DoPlug, DoQuiet, Stays
  <2> QED
    BY <2>1, <2>2, <2>3, <2>4 DEF Other
<1>7. pc["keys"] \in Alive => mapped["keymon"] # None
  BY DEF BaseInv, Shared, Objected
<1>8. Agree' => Agree
  BY <1>5, <1>6, <1>7 DEF Agree
<1>9. Named' => Named /\ S' = S
  BY <1>1, <1>5, <1>8 DEF Named, S
<1> QED
  BY <1>1, <1>2, <1>3, <1>5, <1>8, <1>9

LEMMA OthersKeepFile ==
  ASSUME BaseInv, FileInv, Other
  PROVE  FileInv'
<1>1. Versions'
  <2>1. /\ past \subseteq past' /\ fs' = fs /\ shm'.mem = shm.mem /\ shm'.sized = shm.sized
        /\ \A u \in Threads : pc'[u] = pc[u] \/ pc[u] # "read"
        /\ \A q \in Processes : mapped'[q] = mapped[q] \/ (q = "app" /\ pc["app"] = "idle")
    BY OthersKeepNames
  <2>2. \A o : Reading(o) => Reading(o)'
    BY <2>1 DEF Reading, MainThread, Processes, Threads
  <2> QED
    BY <2>1, <2>2 DEF FileInv, Versions, Never
<1>2. FileFrame
  <2>1. \A u \in Threads : Storing(u) => Storing(u)'
    BY OthersKeepNames DEF Storing, Call
  <2>2. \A u \in Threads : (pc'[u] = "write" <=> pc[u] = "write") /\ (pc'[u] = "rename" <=> pc[u] = "rename")
    BY OthersKeepNames
  <2>3. Named' /\ Filled' => Named /\ Filled /\ Levels(S') = Levels(S)
    BY OthersKeepNames
  <2> QED
    BY <2>1, <2>2, <2>3, OthersKeepNames DEF FileFrame, Files
<1> QED
  BY <1>1, <1>2, FrameKeepsFile DEF FileInv

-----------------------------------------------------------------------------
(* The mixer, through the calls.                                           *)

\* What a thread still has to call after a step.
LEMMA DueAfter ==
  ASSUME BaseInv, NEW t \in Threads, Does(t), NEW X
  PROVE  /\ \A u \in Threads : u # t => (Due(u, X)' <=> Due(u, X))
         /\ Due(t, X) <=> Elems(Tail(todo[t])) \cap X # {} \/ (pc[t] = "next" /\ Call(t) \in X)
         /\ \A s \in Acting \ {"next"} : Goes(t, s) => (Due(t, X)' <=> Elems(Tail(todo[t])) \cap X # {})
         /\ Consumes(t) => (Due(t, X)' <=> Elems(Tail(todo[t])) \cap X # {})
         /\ \A new : Replaces(t, new) => (Due(t, X)' <=> (new \cup Elems(Tail(todo[t]))) \cap X # {})
<1>1. Acts(t) /\ pc[t] \in Acting /\ Elems(todo[t]) = {Call(t)} \cup Elems(Tail(todo[t]))
  BY OthersKept, ActsCommon DEF Acts
<1>2. \A u \in Threads : u # t => (Due(u, X)' <=> Due(u, X))
  BY <1>1 DEF Acts, Shaped, Due, Left
<1>3. Due(t, X) <=> Elems(Tail(todo[t])) \cap X # {} \/ (pc[t] = "next" /\ Call(t) \in X)
  BY <1>1 DEF Due, Left
<1>4. \A s \in Acting \ {"next"} : Goes(t, s) => (Due(t, X)' <=> Elems(Tail(todo[t])) \cap X # {})
  BY DEF Goes, Due, Left
<1>5. Consumes(t) => (Due(t, X)' <=> Elems(Tail(todo[t])) \cap X # {})
  <2> SUFFICES ASSUME Consumes(t) PROVE Due(t, X)' <=> Elems(Tail(todo[t])) \cap X # {}
    OBVIOUS
  <2>1. todo'[t] = Tail(todo[t]) /\ pc'[t] \in {"idle", "next"} /\ (pc'[t] = "next" <=> todo'[t] # <<>>)
    BY DEF Consumes
  <2>2. CASE todo'[t] # <<>>
    BY <2>1, <2>2 DEF Due, Left, Acting
  <2>3. CASE todo'[t] = <<>>
    BY <2>1, <2>3, ElemsOfNone DEF Due, Left, Acting
  <2> QED
    BY <2>2, <2>3
<1>6. ASSUME NEW new, Replaces(t, new) PROVE Due(t, X)' <=> (new \cup Elems(Tail(todo[t]))) \cap X # {}
  BY <1>6 DEF Replaces, Due, Left, Acting
<1> QED
  BY <1>2, <1>3, <1>4, <1>5, <1>6

LEMMA CallsKeepNap ==
  ASSUME BaseInv, NapInv, NEW t \in Threads, Does(t)
  PROVE  NapInv'
<1>1. /\ Acts(t) /\ pc[t] \in Alive /\ pc'[t] \in Alive /\ asleep' = asleep /\ (\A u \in Threads : u # t => pc'[u] = pc[u] /\ todo'[u] = todo[u])
      /\ Elems(todo[t]) = {Call(t)} \cup Elems(Tail(todo[t])) /\ "app" \in Threads
  BY OthersKept, ActsCommon DEF Acts, Shaped, Alive, Threads
<1>2. CASE t # "app"
  <2>1. pc'["app"] = pc["app"] /\ todo'["app"] = todo["app"]
    BY <1>1, <1>2
  <2> QED
    BY <1>1, <2>1 DEF NapInv
<1>3. CASE t = "app"
  <2>1. CASE Elems(todo'[t]) \subseteq Elems(todo[t])
    BY <1>1, <1>3, <2>1 DEF NapInv
  <2>2. CASE DoJack(t) \/ DoHdmi(t) \/ DoWake(t)
    <3>1. Call(t) \notin {Simple("sleep"), Simple("stop")}
      BY <2>2, CallsDiffer, NapsDiffer DEF DoJack, DoHdmi, DoWake, Naps
    <3>2. ~ asleep
      BY <1>1, <1>3, <3>1 DEF NapInv
    <3>3. Simple("sleep") \in Elems(todo'[t]) => Simple("sleep") \in Elems(todo[t])
      <4>1. Simple("sleep") \notin {Volume(0), Brightness(0)}
        BY CallsDiffer DEF Naps
      <4> QED
        BY <1>1, <2>2, <4>1 DEF DoJack, DoHdmi, DoWake, Replaces, Goes
    <3> QED
      BY <1>1, <1>3, <3>2, <3>3 DEF NapInv
  <2>3. CASE DoSleep(t)
    <3>1. Elems(todo'[t]) = {Simple("stop")} \cup Elems(Tail(todo[t])) /\ Call(t) = Simple("sleep")
      BY <2>3 DEF DoSleep, Replaces
    <3> QED
      BY <1>1, <1>3, <3>1 DEF NapInv
  <2> QED
    BY <1>1, <2>1, <2>2, <2>3 DEF Does, DoGet, DoSkip, DoStore, DoMix, DoHdmiMix, DoOpen, DoWrite, DoRename, Goes, Consumes
<1> QED
  BY <1>2, <1>3

LEMMA CallsKeepMixer ==
  ASSUME BaseInv, MixerInv, NapInv, NEW t \in Threads, Does(t)
  PROVE  MixerInv'
<1> USE DEF Acting
<1> SUFFICES ASSUME Never("overlap")', Named' PROVE MixerInv'
  BY DEF MixerInv
<1> DEFINE c == Call(t)
           rest == Elems(Tail(todo[t]))
<1>1. /\ Acts(t) /\ pc[t] \in Acting /\ pc[t] \in Alive /\ asleep' = asleep /\ device' = device /\ c \in Calls /\ AtCall(t, c) /\ Own(t)
      /\ (\A u \in Threads : u # t => pc'[u] = pc[u] /\ todo'[u] = todo[u])
      /\ \A u \in Threads : u # t => reg'[u] = reg[u]
      /\ Elems(todo[t]) = {c} \cup rest
  BY OthersKept, ActsCommon DEF Acts, Shaped, Alive
<1>2. /\ Never("overlap") /\ Named /\ (HostInit' <=> HostInit) /\ S \in Settings /\ Now(t) = S
      /\ (shm' = shm => S' = S) /\ (\A s : Stores(t, s) => S' = s)
  BY <1>1, CallsKeepNames, MineIsNamed DEF Acts, Never
<1>3. /\ OneSetter
      /\ \A u \in Threads : pc[u] = "second" => Redone \/ IF Call(u) = Hdmi(1) THEN Hdmied(S) ELSE ~ Hdmied(S) /\ reg[u] = GetVolume(S)
      /\ Hdmied(S) => mixer = VOLUME_MAX \/ Redone \/ \E u \in Threads : pc[u] = "second" /\ Call(u) = Hdmi(1)
      /\ ~ Hdmied(S) => mixer = GetVolume(S) \/ HostInit \/ asleep \/ \E u \in Threads : Fix(u)
  BY <1>2 DEF MixerInv
<1>4. ASSUME NEW u \in Threads, u # t PROVE (Redo(u)' <=> Redo(u)) /\ (Fix(u)' <=> Fix(u)) /\ (InSetter(u)' <=> InSetter(u))
  BY <1>1, <1>4, DueAfter DEF Redo, Fix, InSetter, Call
<1>5. ASSUME Redo(t) => Redo(t)' PROVE Redone => Redone'
  BY <1>2, <1>4, <1>5 DEF Redone
<1>6. ASSUME Fix(t) => Fix(t)' PROVE (\E u \in Threads : Fix(u)) => (\E u \in Threads : Fix(u)')
  BY <1>4, <1>6
<1>7. ASSUME Begins(t) PROVE \A u \in Threads : ~ InSetter(u)
  BY <1>7 DEF Begins, Never, InSetter
<1>8. ASSUME InSetter(t) PROVE \A u \in Threads : u # t => ~ InSetter(u)
  BY <1>3, <1>8 DEF OneSetter
<1>9. ASSUME \A u \in Threads : u # t => ~ InSetter(u) PROVE OneSetter' /\ \A u \in Threads : u # t => pc'[u] # "second"
  BY <1>1, <1>4, <1>9 DEF OneSetter, InSetter
\* The thread enters or leaves a setter, alone, for a state that satisfies the rest.
<1>10. ASSUME \A u \in Threads : u # t => ~ InSetter(u),
              pc'[t] = "second" => Redone' \/ IF c = Hdmi(1) THEN Hdmied(S)' ELSE ~ Hdmied(S)' /\ reg'[t] = GetVolume(S'),
              pc'[t] = "second" => Call(t)' = c,
              Hdmied(S)' => mixer' = VOLUME_MAX \/ Redone' \/ (pc'[t] = "second" /\ c = Hdmi(1)),
              ~ Hdmied(S)' => mixer' = GetVolume(S') \/ HostInit' \/ asleep' \/ \E u \in Threads : Fix(u)'
       PROVE  MixerInv'
  BY <1>9, <1>10 DEF MixerInv, Call
<1>11. /\ Due(t, Hdmis) <=> rest \cap Hdmis # {} \/ (pc[t] = "next" /\ c \in Hdmis)
       /\ Due(t, {Volume(0)}) <=> rest \cap {Volume(0)} # {} \/ (pc[t] = "next" /\ c \in {Volume(0)})
       /\ Due(t, Fixes) <=> rest \cap Fixes # {} \/ (pc[t] = "next" /\ c \in Fixes)
  BY DueAfter
<1>12. (\E s \in Acting \ {"next"} : Goes(t, s)) \/ Consumes(t) =>
         /\ Due(t, Hdmis)' <=> rest \cap Hdmis # {}
         /\ Due(t, {Volume(0)})' <=> rest \cap {Volume(0)} # {}
         /\ Due(t, Fixes)' <=> rest \cap Fixes # {}
  BY DueAfter
<1>13. \A new : Replaces(t, new) =>
         /\ Due(t, Hdmis)' <=> (new \cup rest) \cap Hdmis # {}
         /\ Due(t, {Volume(0)})' <=> (new \cup rest) \cap {Volume(0)} # {}
         /\ Due(t, Fixes)' <=> (new \cup rest) \cap Fixes # {}
  BY DueAfter
<1>14. Hdmied(S) => device = "rg35xxplus"
  BY DEF Hdmied
<1>15. (S'.hdmi = S.hdmi => (Hdmied(S)' <=> Hdmied(S))) /\ (S' = S => (Hdmied(S)' <=> Hdmied(S)))
  BY <1>1 DEF Hdmied
<1> HIDE DEF c, rest
<1>16. CASE DoGet(t)
  <2>1. /\ Begins(t) /\ pc[t] = "next" /\ S' = S /\ mixer' = mixer /\ pc'[t] = "first" /\ c \in Moves /\ Goes(t, "first") /\ todo' = todo
    BY <1>2, <1>16 DEF DoGet, Begins, Goes, Outs, c
  <2>2. \A u \in Threads : ~ InSetter(u)
    BY <1>7, <2>1
  <2>3. c \notin Hdmis /\ Call(t)' = c /\ (c \in Fixes => c = Volume(0))
    BY <2>1, CallsDiffer DEF Call, c, Fixes, Naps
  <2>4. Due(t, Hdmis)' <=> Due(t, Hdmis)
    BY <1>11, <1>12, <2>1, <2>3
  <2>5. Fix(t) => Fix(t)'
    BY <1>11, <1>12, <2>1, <2>2, <2>3 DEF Fix, InSetter
  <2>6. device = "rg35xxplus" => (Redone => Redone')
    BY <1>1, <1>5, <2>4 DEF Redo
  <2>7. Hdmied(S)' <=> Hdmied(S)
    BY <1>15, <2>1
  <2>8. \A u \in Threads : pc[u] # "second"
    BY <2>2 DEF InSetter
  <2>9. Hdmied(S)' => mixer' = VOLUME_MAX \/ Redone'
    BY <1>3, <1>14, <2>1, <2>6, <2>7, <2>8
  <2>10. ~ Hdmied(S)' => mixer' = GetVolume(S') \/ HostInit' \/ asleep' \/ \E u \in Threads : Fix(u)'
    <3>1. (\E u \in Threads : Fix(u)) => (\E u \in Threads : Fix(u)')
      BY <1>6, <2>5
    <3>2. HostInit' <=> HostInit
      BY <1>2
    <3> QED
      BY <1>1, <1>3, <2>1, <2>7, <3>1, <3>2
  <2>11. pc'[t] # "second"
    BY <2>1
  <2>12. Hdmied(S)' => mixer' = VOLUME_MAX \/ Redone' \/ (pc'[t] = "second" /\ c = Hdmi(1))
    BY <2>9
  <2> QED
    BY <1>10, <2>2, <2>10, <2>11, <2>12
<1>17. CASE DoSkip(t)
  <2>1. S' = S /\ mixer' = mixer /\ pc'[t] \in {"idle", "next"} /\ Consumes(t)
    BY <1>2, <1>17 DEF DoSkip, Outs, Consumes
  <2>2. CASE pc[t] = "next" /\ c \in (Moves \ {Volume(0)}) \cup {Simple("stop"), Simple("cont"), Simple("wake")} /\ (c = Simple("wake") => Hdmied(S))
    <3>1. c \notin Hdmis /\ c # Volume(0) /\ (c \in Fixes => Hdmied(S))
      BY <2>2, CallsDiffer, NapsDiffer DEF Fixes, Naps
    <3>2. Redo(t) => Redo(t)'
      BY <1>1, <1>11, <1>12, <2>1, <3>1 DEF Redo
    <3>3. ~ Hdmied(S) => (Fix(t) => Fix(t)')
      BY <1>11, <1>12, <2>1, <2>2, <3>1 DEF Fix
    <3>4. OneSetter' /\ \A u \in Threads : pc'[u] = "second" <=> pc[u] = "second"
      BY <1>1, <1>3, <1>4, <2>1, <2>2 DEF OneSetter, InSetter
    <3>5. \A u \in Threads : pc'[u] = "second" => Call(u)' = Call(u) /\ reg'[u] = reg[u]
      BY <1>1, <1>17, <2>1 DEF Call, DoSkip
    <3>6. /\ \A u \in Threads : pc'[u] = "second" => Redone' \/ IF Call(u)' = Hdmi(1) THEN Hdmied(S)' ELSE ~ Hdmied(S)' /\ reg'[u] = GetVolume(S')
          /\ Hdmied(S)' => mixer' = VOLUME_MAX \/ Redone' \/ \E u \in Threads : pc'[u] = "second" /\ Call(u)' = Hdmi(1)
      BY <1>3, <1>5, <1>15, <2>1, <3>2, <3>4, <3>5
    <3>7. ~ Hdmied(S)' => mixer' = GetVolume(S') \/ HostInit' \/ asleep' \/ \E u \in Threads : Fix(u)'
      BY <1>1, <1>2, <1>3, <1>6, <1>15, <2>1, <3>3
    <3> QED
      BY <3>4, <3>6, <3>7 DEF MixerInv
  <2>3. CASE pc[t] = "first" /\ Hdmied(S)
    <3>1. \A u \in Threads : u # t => ~ InSetter(u)
      BY <1>8, <2>3 DEF InSetter
    <3>2. Redo(t) => Redo(t)'
      BY <1>1, <1>11, <1>12, <2>1, <2>3 DEF Redo
    <3> QED
      BY <1>3, <1>5, <1>10, <1>15, <2>1, <2>3, <3>1, <3>2 DEF InSetter
  <2>4. Simple("wake") \notin (Moves \ {Volume(0)}) \cup {Simple("stop"), Simple("cont")}
    BY CallsDiffer, NapsDiffer DEF Naps
  <2> QED
    BY <1>2, <1>17, <2>2, <2>3, <2>4 DEF DoSkip, c
<1>18. CASE DoStore(t)
  <2>1. /\ pc[t] = "first" /\ ~ Hdmied(S) /\ c \in Moves /\ mixer' = mixer /\ reg' = reg
        /\ (\A u \in Threads : u # t => ~ InSetter(u)) /\ reg[t] \in 0 .. Highest(c.call)
    BY <1>1, <1>2, <1>8, <1>18 DEF DoStore, Outs, InSetter, AtCall, c
  <2>2. CASE c.call = "volume" /\ Goes(t, "second") /\ Stores(t, WithVolume(S, reg[t]))
    <3>1. S' = WithVolume(S, reg[t]) /\ reg[t] \in 0 .. VOLUME_MAX
      BY <1>2, <2>1, <2>2 DEF Highest
    <3>2. GetVolume(S') = reg[t] /\ S'.hdmi = S.hdmi
      BY <1>2, <3>1, StoredIsSettings
    <3>3. c # Hdmi(1) /\ pc'[t] = "second" /\ Call(t)' = c
      BY <2>2, CallsDiffer DEF Goes, Call, c
    <3>4. Fix(t)'
      BY <3>3 DEF Fix
    <3> QED
      BY <1>10, <1>15, <2>1, <3>2, <3>3, <3>4
  <2>3. CASE c.call # "volume" /\ Goes(t, "open") /\ Stores(t, [S EXCEPT !.brightness = reg[t]])
    <3>1. S' = [S EXCEPT !.brightness = reg[t]] /\ reg[t] \in 0 .. BRIGHTNESS_MAX
      BY <1>1, <1>2, <2>1, <2>3, CallKinds DEF Highest
    <3>2. GetVolume(S') = GetVolume(S) /\ S'.hdmi = S.hdmi
      BY <1>2, <3>1, StoredIsSettings
    <3>3. c # Volume(0) /\ pc'[t] = "open"
      BY <2>3, CallsDiffer DEF Goes
    <3>4. Fix(t) => Fix(t)'
      BY <1>11, <1>12, <2>1, <2>3, <3>3 DEF Fix, c
    <3> QED
      BY <1>1, <1>2, <1>3, <1>6, <1>10, <1>15, <2>1, <3>2, <3>3, <3>4
  <2> QED
    BY <1>2, <1>18, <2>2, <2>3 DEF DoStore, c
<1>19. CASE DoMix(t)
  <2>1. /\ pc[t] = "second" /\ c.call = "volume" /\ mixer' = reg[t] /\ Goes(t, "open") /\ pc'[t] = "open" /\ S' = S
        /\ (\A u \in Threads : u # t => ~ InSetter(u)) /\ c # Hdmi(1) /\ Call(t) = c
    BY <1>2, <1>8, <1>19, CallsDiffer DEF DoMix, Goes, InSetter, c
  <2>2. Redo(t) => Redo(t)'
    BY <1>1, <1>11, <1>12, <2>1 DEF Redo
  <2>3. Redone \/ (~ Hdmied(S) /\ reg[t] = GetVolume(S))
    BY <1>3, <2>1
  <2>4. Redone' => HostInit' \/ \E u \in Threads : Fix(u)'
    <3>1. ASSUME NEW u \in Threads, Redo(u)' PROVE Fix(u)'
      BY <3>1 DEF Redo, Fix, Due, Fixes
    <3> QED
      BY <3>1 DEF Redone
  <2> QED
    BY <1>5, <1>10, <1>15, <2>1, <2>2, <2>3, <2>4
<1>20. CASE DoJack(t)
  <2>1. /\ Begins(t) /\ pc[t] = "next" /\ c \in Jacks /\ mixer' = mixer /\ Replaces(t, {Volume(0)}) /\ pc'[t] = "next"
        /\ S' = [S EXCEPT !.jack = c.arg]
    BY <1>2, <1>20 DEF DoJack, Begins, Outs, Replaces, c
  <2>2. \A u \in Threads : ~ InSetter(u)
    BY <1>7, <2>1
  <2>3. S'.hdmi = S.hdmi
    BY <1>1, <1>2, <2>1, CallKinds, StoredIsSettings
  <2>4. c \notin Hdmis /\ c # Volume(0)
    BY <2>1, CallsDiffer
  <2>5. Redo(t) => Redo(t)'
    BY <1>1, <1>11, <1>13, <2>1, <2>4 DEF Redo
  <2>6. Fix(t)'
    BY <1>13, <2>1 DEF Fix, Fixes
  <2> QED
    BY <1>3, <1>5, <1>10, <1>15, <2>1, <2>2, <2>3, <2>5, <2>6 DEF InSetter
<1>21. CASE DoHdmi(t)
  <2>1. /\ Begins(t) /\ pc[t] = "next" /\ c \in Hdmis /\ mixer' = mixer /\ S' = [S EXCEPT !.hdmi = c.arg]
        /\ IF c = Hdmi(1) THEN Goes(t, "second") ELSE Replaces(t, {Volume(0)})
    BY <1>2, <1>21 DEF DoHdmi, Begins, Outs, c
  <2>2. \A u \in Threads : ~ InSetter(u)
    BY <1>7, <2>1
  <2>3. device = "rg35xxplus"
    BY <1>1, <2>1 DEF Own
  <2>4. S'.hdmi = c.arg /\ c = Hdmi(c.arg) /\ c.arg \in {0, 1}
    BY <1>1, <1>2, <2>1, CallKinds, StoredIsSettings
  <2>5. CASE c = Hdmi(1)
    <3>1. Hdmied(S)' /\ pc'[t] = "second" /\ Call(t)' = c
      BY <1>1, <2>1, <2>3, <2>4, <2>5 DEF Hdmied, Hdmi, Goes, Call, c
    <3> QED
      BY <1>10, <2>2, <2>5, <3>1
  <2>6. CASE c # Hdmi(1)
    <3>1. ~ Hdmied(S)' /\ pc'[t] = "next"
      BY <2>1, <2>4, <2>6 DEF Hdmied, Replaces
    <3>2. Fix(t)'
      BY <1>13, <2>1, <2>6 DEF Fix, Fixes
    <3> QED
      BY <1>10, <2>2, <3>1, <3>2
  <2> QED
    BY <2>5, <2>6
<1>22. CASE DoHdmiMix(t)
  <2>1. /\ pc[t] = "second" /\ c = Hdmi(1) /\ Call(t) = c /\ mixer' = VOLUME_MAX /\ Consumes(t) /\ pc'[t] \in {"idle", "next"} /\ S' = S
        /\ \A u \in Threads : u # t => ~ InSetter(u)
    BY <1>2, <1>8, <1>22 DEF DoHdmiMix, Consumes, InSetter, c
  <2>2. Redo(t) => Redo(t)'
    BY <1>1, <1>11, <1>12, <2>1 DEF Redo
  <2>3. Redone \/ Hdmied(S)
    BY <1>3, <2>1
  <2>4. Redone' => HostInit' \/ \E u \in Threads : Fix(u)'
    <3>1. ASSUME NEW u \in Threads, Redo(u)' PROVE Fix(u)'
      BY <3>1 DEF Redo, Fix, Due, Fixes
    <3> QED
      BY <3>1 DEF Redone
  <2> QED
    BY <1>5, <1>10, <1>15, <2>1, <2>2, <2>3, <2>4
<1>23. CASE DoSleep(t)
  <2>1. /\ Begins(t) /\ pc[t] = "next" /\ c = Simple("sleep") /\ Replaces(t, {Simple("stop")}) /\ pc'[t] = "next" /\ S' = S
        /\ IF Hdmied(S) THEN mixer' = mixer ELSE mixer' = 0
    BY <1>2, <1>23 DEF DoSleep, Begins, Outs, Replaces, c
  <2>2. \A u \in Threads : ~ InSetter(u)
    BY <1>7, <2>1
  <2>3. asleep
    <3>1. c \in Naps /\ c \in Elems(todo[t])
      BY <1>1, <2>1 DEF Naps
    <3>2. t = "app"
      BY <1>1, <3>1 DEF Own
    <3> QED
      BY <2>1, <3>1, <3>2 DEF NapInv
  <2>4. c \notin Hdmis /\ c # Volume(0)
    BY <2>1, CallsDiffer DEF Naps
  <2>5. Redo(t) => Redo(t)'
    BY <1>1, <1>11, <1>13, <2>1, <2>4 DEF Redo
  <2> QED
    BY <1>1, <1>3, <1>5, <1>10, <1>15, <2>1, <2>2, <2>3, <2>5 DEF InSetter
<1>24. CASE DoWake(t)
  <2>1. Begins(t) /\ ~ Hdmied(S) /\ Replaces(t, {Brightness(0), Volume(0)}) /\ pc'[t] = "next" /\ S' = S
    BY <1>2, <1>24 DEF DoWake, Replaces, c
  <2>2. \A u \in Threads : ~ InSetter(u)
    BY <1>7, <2>1
  <2>3. Fix(t)'
    BY <1>13, <2>1 DEF Fix, Fixes
  <2> QED
    BY <1>10, <1>15, <2>1, <2>2, <2>3
<1>25. CASE DoOpen(t) \/ DoWrite(t) \/ DoRename(t)
  <2>1. /\ pc[t] \in {"open", "write", "rename"} /\ S' = S /\ mixer' = mixer /\ pc'[t] \in {"write", "rename", "idle", "next"}
        /\ Consumes(t) \/ \E s \in Acting \ {"next"} : Goes(t, s)
    BY <1>2, <1>25 DEF DoOpen, DoWrite, DoRename, Consumes, Goes, Outs
  <2>2. Redo(t) => Redo(t)'
    BY <1>1, <1>11, <1>12, <2>1 DEF Redo
  <2>3. Fix(t) => Fix(t)'
    BY <1>11, <1>12, <2>1 DEF Fix
  <2>4. OneSetter' /\ \A u \in Threads : pc'[u] = "second" <=> pc[u] = "second"
    BY <1>1, <1>3, <1>4, <2>1 DEF OneSetter, InSetter
  <2>5. \A u \in Threads : pc'[u] = "second" => Call(u)' = Call(u) /\ reg'[u] = reg[u]
    BY <1>1, <2>1 DEF Call
  <2>6. /\ \A u \in Threads : pc'[u] = "second" => Redone' \/ IF Call(u)' = Hdmi(1) THEN Hdmied(S)' ELSE ~ Hdmied(S)' /\ reg'[u] = GetVolume(S')
        /\ Hdmied(S)' => mixer' = VOLUME_MAX \/ Redone' \/ \E u \in Threads : pc'[u] = "second" /\ Call(u)' = Hdmi(1)
    BY <1>3, <1>5, <1>15, <2>1, <2>2, <2>4, <2>5
  <2>7. ~ Hdmied(S)' => mixer' = GetVolume(S') \/ HostInit' \/ asleep' \/ \E u \in Threads : Fix(u)'
    BY <1>1, <1>2, <1>3, <1>6, <1>15, <2>1, <2>3
  <2> QED
    BY <2>4, <2>6, <2>7 DEF MixerInv
<1> QED
  BY <1>16, <1>17, <1>18, <1>19, <1>20, <1>21, <1>22, <1>23, <1>24, <1>25 DEF Does


-----------------------------------------------------------------------------
(* The mixer and the nap, through a start and through the other steps.     *)

\* A start keeps the mixer's invariant: the host that fills the object will set
\* the mixer, and a client changes nothing.
LEMMA StartsKeepMixer ==
  ASSUME BaseInv, MixerInv, NEW p \in Processes, Starts(p)
  PROVE  MixerInv'
<1> USE DEF Acting, Alive, Hosting
<1> SUFFICES ASSUME Never("overlap")', Named' PROVE MixerInv'
  BY DEF MixerInv
<1> DEFINE t == Main(p)
<1>1. /\ Begun(p) /\ pc[t] \in {"open_shm", "poll"} \cup Hosting /\ pc'[t] \in {"off", "dead", "poll", "truncate", "read", "version", "next"}
  BY DEF Starts, DoCreate, DoAttach, DoSize, DoAbort, DoMap, DoRead, DoVersion, Given, Initialises
<1>2. /\ t \in Threads /\ t # "watch" /\ past \subseteq past' /\ Never("overlap")
      /\ device' = device /\ reg' = reg /\ mixer' = mixer /\ asleep' = asleep /\ todo' \in [Threads -> Seq(Calls)]
      /\ \A u \in Threads : u # t => pc'[u] = pc[u] /\ todo'[u] = todo[u]
  BY <1>1 DEF Main, MainThread, Processes, Threads, Begun, Shaped, Never
<1>3. \A u \in Threads : pc[u] \in Acting => pc'[u] = pc[u] /\ todo'[u] = todo[u] /\ u # t
  BY <1>1, <1>2
<1>4. \A u \in Threads : InSetter(u)' <=> InSetter(u)
  BY <1>1, <1>2 DEF InSetter
<1>5. \A u \in Threads : pc'[u] = "second" => pc[u] = "second" /\ Call(u)' = Call(u)
  BY <1>1, <1>2 DEF Call
<1>6. \A u \in Threads : (Redo(u) => Redo(u)') /\ (Fix(u) => Fix(u)')
  BY <1>2, <1>3 DEF Redo, Fix, Due, Left, Call
\* While a host is at work, or once it has queued its calls.
<1>7. ASSUME OneSetter, Redone', ~ Hdmied(S)' => HostInit' \/ \E u \in Threads : Fix(u)' PROVE MixerInv'
  BY <1>4, <1>7 DEF MixerInv, OneSetter
<1>8. ASSUME Named, S' = S, HostInit' <=> HostInit PROVE MixerInv'
  <2>1. Hdmied(S)' <=> Hdmied(S)
    BY <1>2, <1>8 DEF Hdmied
  <2>2. Redone => Redone'
    BY <1>6, <1>8 DEF Redone
  <2>3. OneSetter'
    BY <1>2, <1>4, <1>8 DEF MixerInv, OneSetter
  <2>4. \A u \in Threads : pc'[u] = "second" =>
          Redone' \/ IF Call(u)' = Hdmi(1) THEN Hdmied(S)' ELSE ~ Hdmied(S)' /\ reg'[u] = GetVolume(S')
    BY <1>2, <1>5, <1>8, <2>1, <2>2 DEF MixerInv
  <2>5. Hdmied(S)' => mixer' = VOLUME_MAX \/ Redone' \/ \E u \in Threads : pc'[u] = "second" /\ Call(u)' = Hdmi(1)
    BY <1>2, <1>3, <1>5, <1>8, <2>1, <2>2 DEF MixerInv, Call
  <2>6. ~ Hdmied(S)' => mixer' = GetVolume(S') \/ HostInit' \/ asleep' \/ \E u \in Threads : Fix(u)'
    BY <1>2, <1>6, <1>8, <2>1 DEF MixerInv
  <2> QED
    BY <2>3, <2>4, <2>5, <2>6 DEF MixerInv
<1>9. pc'[t] \in Hosting => HostInit'
  BY <1>2 DEF HostInit, Threads
<1>10. HostInit' => Redone' /\ (~ Hdmied(S)' => HostInit' \/ \E u \in Threads : Fix(u)')
  BY DEF Redone
<1>11. CASE DoCreate(p)
  <2>1. HostInit'
    BY <1>9, <1>11 DEF DoCreate, Given
  <2>2. \A u \in Threads : pc[u] \notin Acting
    <3>1. shm.key = None /\ pc[t] = "open_shm" /\ (t = "app" \/ t = "keys") /\ shm'.key \in Objects /\ \A q \in Processes : mapped[q] # shm'.key
      BY <1>2, <1>11 DEF DoCreate, Threads
    <3>2. pc'["keys"] \in Alive => mapped'["keymon"] = shm'.key
      BY DEF Named, Agree
    <3>3. pc["keys"] \notin Alive
      <4>1. SUFFICES ASSUME pc["keys"] \in Alive PROVE FALSE
        OBVIOUS
      <4>2. t = "app" /\ pc'["keys"] = pc["keys"]
        BY <1>2, <3>1, <4>1 DEF Threads
      <4>3. p = "app"
        BY <4>2 DEF Main, MainThread, Processes
      <4>4. mapped'["keymon"] = mapped["keymon"]
        BY <1>1, <4>3 DEF Begun, Processes
      <4> QED
        BY <3>1, <3>2, <4>1, <4>2, <4>4 DEF Processes
    <3>4. pc["app"] \notin Alive
      <4>1. pc["app"] \in Alive => mapped["app"] = shm.key /\ mapped["app"] # None
        BY DEF BaseInv, Shared, Objected
      <4> QED
        BY <3>1, <4>1
    <3> QED
      BY <3>3, <3>4 DEF BaseInv, Control, Threads
  <2>3. OneSetter
    BY <2>2 DEF OneSetter, InSetter
  <2> QED
    BY <1>7, <1>10, <2>1, <2>3
<1>12. CASE DoSize(p) \/ DoRead(p)
  <2>1. HostInit'
    BY <1>9, <1>12 DEF DoSize, DoRead, Given
  <2>2. Named
    <3>1. CASE DoRead(p)
      BY <3>1, StartsKeepNames
    <3>2. CASE DoSize(p)
      <4>1. Agree
        BY StartsKeepNames DEF Named
      <4> QED
        BY <3>2, <4>1 DEF Named, DoSize
    <3> QED
      BY <1>12, <3>1, <3>2
  <2>3. OneSetter
    BY <1>2, <2>2 DEF MixerInv
  <2> QED
    BY <1>7, <1>10, <2>1, <2>3
<1>13. CASE DoVersion(p)
  <2>1. Named /\ pc'[t] = "next" /\ todo'[t] = InitCalls /\ Typed
    BY <1>13, StartsKeepNames DEF DoVersion, Initialises, BaseInv
  <2>2. OneSetter
    BY <1>2, <2>1 DEF MixerInv
  <2>3. Elems(todo'[t]) = IF device = "rg35xxplus" THEN {Jack(0), Hdmi(port), Brightness(0)} ELSE {Volume(0), Brightness(0)}
    BY <2>1, InitCallsKnown
  <2>4. Hdmi(port) \in Hdmis
    BY <2>1 DEF Typed, Hdmis
  <2>5. Redo(t)' /\ Fix(t)'
    BY <1>2, <2>1, <2>3, <2>4 DEF Redo, Fix, Due, Left, Fixes
  <2> QED
    BY <1>2, <1>7, <2>2, <2>5 DEF Redone
<1>14. CASE DoAttach(p) \/ DoMap(p)
  <2>1. Named /\ S' = S
    BY <1>14, StartsKeepNames
  <2>2. HostInit' <=> HostInit
    BY <1>2, <1>14 DEF HostInit, DoAttach, DoMap, Given, Initialises, Threads
  <2> QED
    BY <1>8, <2>1, <2>2
<1>15. CASE DoAbort(p)
  <2>1. Named /\ S' = S /\ pc[t] = "poll"
    BY <1>15, StartsKeepNames
  <2>2. HostInit' <=> HostInit
    BY <1>2, <1>15, <2>1 DEF HostInit, DoAbort, Given, Threads
  <2> QED
    BY <1>8, <2>1, <2>2
<1> QED
  BY <1>11, <1>12, <1>13, <1>14, <1>15 DEF Starts

LEMMA StartsKeepNap ==
  ASSUME BaseInv, NapInv, NEW p \in Processes, Starts(p)
  PROVE  NapInv'
<1> USE DEF Acting, Alive, Hosting
<1> DEFINE t == Main(p)
<1>1. /\ Begun(p) /\ pc[t] \notin Alive
      /\ (pc'[t] = "next" /\ todo'[t] = InitCalls) \/ (pc'[t] \notin Alive /\ todo' = todo)
  BY DEF Starts, DoCreate, DoAttach, DoSize, DoAbort, DoMap, DoRead, DoVersion, Given, Initialises
<1>2. /\ asleep' = asleep /\ t \in {"keys", "app"} /\ Typed
      /\ \A u \in Threads : u # t => pc'[u] = pc[u] /\ todo'[u] = todo[u]
  BY <1>1 DEF Begun, Shaped, BaseInv, Main, MainThread, Processes
<1>3. CASE t = "keys"
  BY <1>2, <1>3 DEF NapInv, Threads
<1>4. CASE t = "app"
  <2>1. ~ asleep
    BY <1>1, <1>4 DEF NapInv
  <2>2. Simple("sleep") \notin Elems(todo["app"])
    BY <2>1 DEF NapInv
  <2>3. Simple("sleep") \notin Elems(InitCalls)
    <3>1. Simple("sleep") \in Naps
      BY DEF Naps
    <3>2. Jack(0) \in Jacks /\ Hdmi(port) \in Hdmis
      BY <1>2 DEF Typed, Jacks, Hdmis
    <3>3. Simple("sleep") \notin {Jack(0), Hdmi(port), Brightness(0), Volume(0)}
      BY <3>1, <3>2, CallsDiffer
    <3> QED
      BY <1>2, <3>3, InitCallsKnown
  <2> QED
    BY <1>1, <1>2, <1>4, <2>1, <2>2, <2>3 DEF NapInv
<1> QED
  BY <1>2, <1>3, <1>4

\* The other steps change no setter; a program that wakes will see to the mixer.
LEMMA OthersKeepMixer ==
  ASSUME BaseInv, MixerInv, Other
  PROVE  MixerInv'
<1> USE DEF Acting
<1> SUFFICES ASSUME Never("overlap")', Named' PROVE MixerInv'
  BY DEF MixerInv
<1>1. /\ Named /\ S' = S /\ (HostInit' <=> HostInit) /\ Never("overlap")
      /\ device' = device /\ reg' = reg /\ mixer' = mixer
      /\ \A u \in Threads : (pc'[u] = pc[u] /\ todo'[u] = todo[u]) \/ (pc[u] \in {"off", "idle"} /\ pc'[u] \in {"off", "open_shm", "idle", "next"})
  BY OthersKeepNames DEF Never
<1>2. \A u \in Threads : (InSetter(u)' <=> InSetter(u)) /\ (pc'[u] = "second" <=> pc[u] = "second") /\ (pc[u] = "second" => Call(u)' = Call(u))
  BY <1>1 DEF InSetter, Call
<1>3. \A u \in Threads : (Redo(u) => Redo(u)') /\ (Fix(u) => Fix(u)')
  BY <1>1 DEF Redo, Fix, Due, Left, Call
<1>4. (Hdmied(S)' <=> Hdmied(S)) /\ (Redone => Redone')
  BY <1>1, <1>3 DEF Hdmied, Redone
<1>5. OneSetter'
  BY <1>1, <1>2 DEF MixerInv, OneSetter
<1>6. \A u \in Threads : pc'[u] = "second" =>
        Redone' \/ IF Call(u)' = Hdmi(1) THEN Hdmied(S)' ELSE ~ Hdmied(S)' /\ reg'[u] = GetVolume(S')
  BY <1>1, <1>2, <1>4 DEF MixerInv
<1>7. Hdmied(S)' => mixer' = VOLUME_MAX \/ Redone' \/ \E u \in Threads : pc'[u] = "second" /\ Call(u)' = Hdmi(1)
  BY <1>1, <1>2, <1>4 DEF MixerInv
<1>8. asleep => asleep' \/ \E u \in Threads : Fix(u)'
  <2>1. CASE DoRise
    <3>1. Elems(todo'["app"]) = {Simple("cont"), Simple("wake")} /\ pc'["app"] = "next"
      <4>1. Elems(todo'["app"]) = {Simple("cont"), Simple("wake")} /\ (pc'["app"] = "next" <=> todo'["app"] # <<>>)
        BY <2>1 DEF DoRise, Queues
      <4> QED
        BY <4>1, ElemsOfNone
    <3>2. Fix("app")'
      BY <3>1 DEF Fix, Due, Left, Fixes
    <3> QED
      BY <3>2 DEF Threads
  <2>2. CASE ~ DoRise
    BY <2>2 DEF Other, DoLaunch, DoWatch, DoLoop, DoNap, DoSync, DoQuit, DoMon, DoPlug, DoQuiet
  <2> QED
    BY <2>1, <2>2
<1>9. ~ Hdmied(S)' => mixer' = GetVolume(S') \/ HostInit' \/ asleep' \/ \E u \in Threads : Fix(u)'
  BY <1>1, <1>3, <1>4, <1>8 DEF MixerInv
<1> QED
  BY <1>5, <1>6, <1>7, <1>9 DEF MixerInv

LEMMA OthersKeepNap ==
  ASSUME BaseInv, NapInv, Other
  PROVE  NapInv'
<1> USE DEF Acting, Alive
<1>1. CASE DoLaunch("keys") \/ DoLaunch("app")
  BY <1>1 DEF DoLaunch, Goes, Shaped, NapInv, Threads
<1>2. CASE DoWatch \/ DoLoop
  BY <1>2 DEF DoWatch, DoLoop, Queues, Shaped, NapInv, Threads
<1>3. CASE DoNap
  BY <1>3 DEF DoNap, Queues, NapInv
<1>4. CASE DoRise \/ DoSync
  <2>1. /\ ~ asleep'
        /\ Elems(todo'["app"]) = {Simple("cont"), Simple("wake")} \/ Elems(todo'["app"]) = {Volume(0), Brightness(0)}
    BY <1>4 DEF DoRise, DoSync, Queues
  <2>2. Simple("sleep") \notin {Simple("cont"), Simple("wake"), Volume(0), Brightness(0)}
    BY CallsDiffer, NapsDiffer DEF Naps
  <2> QED
    BY <2>1, <2>2 DEF NapInv
<1>5. CASE DoQuit
  BY <1>5 DEF DoQuit, Goes, Shaped, NapInv, Threads
<1>6. CASE DoMon \/ DoPlug \/ DoQuiet
  BY <1>6 DEF DoMon, DoPlug, DoQuiet, Stays, NapInv
<1> QED
  BY <1>1, <1>2, <1>3, <1>4, <1>5, <1>6 DEF Other

-----------------------------------------------------------------------------
(* The cable, the picture and the keys.                                    *)

\* Port calls and wakes are only added by the watcher, a start and the program.
LEMMA CallsShrink ==
  ASSUME BaseInv, NEW t \in Threads, Does(t)
  PROVE  \A u \in Threads : Elems(todo'[u]) \cap (Jacks \cup Hdmis \cup {Simple("wake")}) \subseteq Elems(todo[u])
<1>1. Acts(t) /\ (\A u \in Threads : u # t => todo'[u] = todo[u]) /\ Elems(todo[t]) = {Call(t)} \cup Elems(Tail(todo[t]))
  BY OthersKept, ActsCommon DEF Acts, Shaped
<1>2. CASE Elems(todo'[t]) \subseteq Elems(todo[t])
  BY <1>1, <1>2
<1>3. CASE DoJack(t) \/ DoHdmi(t) \/ DoWake(t) \/ DoSleep(t)
  <2>1. {Volume(0), Brightness(0), Simple("stop")} \cap (Jacks \cup Hdmis \cup {Simple("wake")}) = {}
    BY CallsDiffer, NapsDiffer DEF Naps
  <2>2. Elems(todo'[t]) \subseteq {Volume(0), Brightness(0), Simple("stop")} \cup Elems(todo[t])
    BY <1>1, <1>3 DEF DoJack, DoHdmi, DoWake, DoSleep, Replaces, Goes
  <2> QED
    BY <1>1, <2>1, <2>2
<1> QED
  BY <1>2, <1>3 DEF Does, DoGet, DoSkip, DoStore, DoMix, DoHdmiMix, DoOpen, DoWrite, DoRename, Goes, Consumes

\* What a thread's step does to the flags of the named object.
LEMMA CallsSetFlags ==
  ASSUME BaseInv, Named, NEW t \in Threads, Does(t)
  PROVE  /\ ~ DoHdmi(t) => S'.hdmi = S.hdmi
         /\ ~ DoJack(t) => S'.jack = S.jack
         /\ DoHdmi(t) => Call(t) \in Hdmis /\ Call(t) = Hdmi(S'.hdmi)
         /\ DoJack(t) => Call(t) \in Jacks /\ Call(t) = Jack(S'.jack)
<1>1. /\ Acts(t) /\ Call(t) \in Calls /\ AtCall(t, Call(t))
      /\ S \in Settings /\ Now(t) = S /\ (shm' = shm => S' = S) /\ (\A s : Stores(t, s) => S' = s)
  <2>1. Acts(t) /\ pc[t] \in Alive
    BY OthersKept DEF Acts, Alive
  <2> QED
    BY <2>1, ActsCommon, CallsKeepNames, MineIsNamed DEF Acts
<1>2. CASE DoJack(t)
  <2>1. Call(t) \in Jacks /\ S' = [S EXCEPT !.jack = Call(t).arg]
    BY <1>1, <1>2 DEF DoJack
  <2>2. Call(t) = Jack(Call(t).arg) /\ Call(t).arg \in {0, 1}
    BY <1>1, <2>1, CallKinds
  <2>3. S'.jack = Call(t).arg /\ S'.hdmi = S.hdmi
    BY <1>1, <2>1, <2>2, StoredIsSettings
  <2>4. ~ DoHdmi(t)
    BY <2>1, CallsDiffer DEF DoHdmi
  <2> QED
    BY <1>2, <2>1, <2>2, <2>3, <2>4
<1>3. CASE DoHdmi(t)
  <2>1. Call(t) \in Hdmis /\ S' = [S EXCEPT !.hdmi = Call(t).arg]
    BY <1>1, <1>3 DEF DoHdmi
  <2>2. Call(t) = Hdmi(Call(t).arg) /\ Call(t).arg \in {0, 1}
    BY <1>1, <2>1, CallKinds
  <2>3. S'.hdmi = Call(t).arg /\ S'.jack = S.jack
    BY <1>1, <2>1, <2>2, StoredIsSettings
  <2>4. ~ DoJack(t)
    BY <2>1, CallsDiffer DEF DoJack
  <2> QED
    BY <1>3, <2>1, <2>2, <2>3, <2>4
<1>4. CASE DoStore(t)
  <2>1. CASE Call(t).call = "volume" /\ Stores(t, WithVolume(S, reg[t]))
    <3>1. S' = WithVolume(S, reg[t]) /\ reg[t] \in 0 .. VOLUME_MAX
      BY <1>1, <1>4, <2>1 DEF AtCall, DoStore, Highest
    <3>2. S'.jack = S.jack /\ S'.hdmi = S.hdmi
      BY <1>1, <3>1, StoredIsSettings
    <3> QED
      BY <1>4, <3>2, CallsDiffer DEF DoStore, DoHdmi, DoJack
  <2>2. CASE Call(t).call # "volume" /\ Stores(t, [S EXCEPT !.brightness = reg[t]])
    <3>1. S' = [S EXCEPT !.brightness = reg[t]] /\ reg[t] \in 0 .. BRIGHTNESS_MAX
      BY <1>1, <1>4, <2>2, CallKinds DEF AtCall, DoStore, Highest
    <3>2. S'.jack = S.jack /\ S'.hdmi = S.hdmi
      BY <1>1, <3>1, StoredIsSettings
    <3> QED
      BY <1>4, <3>2, CallsDiffer DEF DoStore, DoHdmi, DoJack
  <2> QED
    BY <1>1, <1>4, <2>1, <2>2 DEF DoStore
<1>5. CASE ~ DoJack(t) /\ ~ DoHdmi(t) /\ ~ DoStore(t)
  BY <1>1, <1>5 DEF Does, DoGet, DoSkip, DoMix, DoHdmiMix, DoSleep, DoWake, DoOpen, DoWrite, DoRename
<1> QED
  BY <1>2, <1>3, <1>4, <1>5

LEMMA CallsKeepPort ==
  ASSUME BaseInv, PortInv, NEW t \in Threads, Does(t)
  PROVE  PortInv'
<1> USE DEF Acting, Alive
<1>1. /\ Acts(t) /\ pc[t] \in Alive /\ pc'[t] \in Alive /\ device' = device /\ port' = port /\ had' = had /\ past \subseteq past'
      /\ \A u \in Threads : u # t => pc'[u] = pc[u] /\ todo'[u] = todo[u]
  BY OthersKept DEF Acts, Shaped
<1>2. /\ "keys" \in Threads /\ "watch" \in Threads /\ "app" \in Threads
      /\ \A u \in Threads : Elems(todo'[u]) \cap (Jacks \cup Hdmis) \subseteq Elems(todo[u])
      /\ \A u \in Threads : Elems(todo'[u]) \cap Jacks \subseteq Elems(todo[u]) /\ Elems(todo'[u]) \cap Hdmis \subseteq Elems(todo[u])
  BY CallsShrink DEF Threads
<1>3. PortCalls' = PortCalls /\ (PortCalls = Jacks \/ PortCalls = Hdmis) /\ PortCall(port)' = PortCall(port) /\ PortCall(had)' = PortCall(had)
  BY <1>1 DEF PortCalls, PortCall
<1>4. pc'["watch"] # "off" => pc["watch"] # "off"
  BY <1>1, <1>2
<1>5. pc'["watch"] # "off" => Elems(todo'["keys"]) \cap PortCalls = {}
  BY <1>2, <1>3, <1>4 DEF PortInv
<1>6. Elems(todo'["watch"]) \cap PortCalls \subseteq {PortCall(had)}
  BY <1>2, <1>3 DEF PortInv
<1>7. device # "rg35xxplus" => Elems(todo'["app"]) \cap Jacks = {}
  BY <1>2 DEF PortInv
<1>8. Never("midInit")' => Elems(todo'["app"]) \cap Hdmis \subseteq {Hdmi(port)}
  BY <1>1, <1>2 DEF PortInv, Never
<1>9. ASSUME Never("midInit")', Never("early")', Never("blip")', Agree', pc'["watch"] # "off", had = port
      PROVE  Flag(S)' = port \/ (pc'["watch"] = "next" /\ Call("watch")' = PortCall(port))
  <2>1. Agree /\ pc["watch"] # "off" /\ (Flag(S) = port \/ (pc["watch"] = "next" /\ Call("watch") = PortCall(port)))
    BY <1>1, <1>4, <1>9, CallsKeepNames DEF PortInv, Never
  <2>2. Named
    BY <2>1 DEF BaseInv, Control, Shared, Objected, Named, Agree
  <2>3. /\ ~ DoHdmi(t) => S'.hdmi = S.hdmi
        /\ ~ DoJack(t) => S'.jack = S.jack
        /\ DoHdmi(t) => Call(t) \in Hdmis /\ Call(t) = Hdmi(S'.hdmi)
        /\ DoJack(t) => Call(t) \in Jacks /\ Call(t) = Jack(S'.jack)
    BY <2>2, CallsSetFlags
  <2>4. Call(t) \in Elems(todo[t]) /\ Own(t)
    BY <1>1, ActsCommon DEF Acts
  <2>5. Flag(S)' = IF device = "rg35xxplus" THEN S'.hdmi ELSE S'.jack
    BY <1>1 DEF Flag
  <2>6. \A v, w : (Hdmi(v) = Hdmi(w) => v = w) /\ (Jack(v) = Jack(w) => v = w)
    BY DEF Hdmi, Jack
  \* A thread that sets the watched flag sets it to the port's state.
  <2>7. ASSUME Call(t) \in PortCalls, DoHdmi(t) \/ DoJack(t) PROVE Flag(S)' = port
    <3>1. CASE device = "rg35xxplus"
      <4>1. PortCalls = Hdmis /\ PortCall(had) = Hdmi(port)
        BY <1>9, <3>1 DEF PortCalls, PortCall
      <4>2. DoHdmi(t)
        BY <2>3, <2>7, <4>1, CallsDiffer
      <4>3. Call(t) = Hdmi(port)
        BY <1>1, <1>9, <2>1, <2>4, <2>7, <4>1 DEF PortInv, Never, Threads
      <4> QED
        BY <2>3, <2>5, <2>6, <3>1, <4>2, <4>3
    <3>2. CASE device # "rg35xxplus"
      <4>1. PortCalls = Jacks /\ PortCall(had) = Jack(port)
        BY <1>9, <3>2 DEF PortCalls, PortCall
      <4>2. DoJack(t)
        BY <2>3, <2>7, <4>1, CallsDiffer
      <4>3. Call(t) = Jack(port)
        BY <1>1, <1>9, <2>1, <2>4, <2>7, <3>2, <4>1 DEF PortInv, Threads
      <4> QED
        BY <2>3, <2>5, <2>6, <3>2, <4>2, <4>3
    <3> QED
      BY <3>1, <3>2
  <2>8. ASSUME ~ (Call(t) \in PortCalls /\ (DoHdmi(t) \/ DoJack(t))) PROVE Flag(S)' = Flag(S)
    BY <2>3, <2>5, <2>8 DEF Flag, PortCalls
  <2>9. CASE pc["watch"] = "next" /\ Call("watch") = PortCall(port)
    <3>1. CASE t # "watch"
      BY <1>1, <1>2, <2>9, <3>1 DEF Call
    <3>2. CASE t = "watch"
      <4>1. Call(t) \in PortCalls
        BY <2>9, <3>2 DEF BaseInv, Typed, PortCall, PortCalls, Hdmis, Jacks
      <4>2. DoHdmi(t) \/ DoJack(t)
        <5>1. Call(t) \notin Moves /\ Call(t) \notin Naps /\ pc[t] = "next"
          BY <1>3, <2>9, <3>2, <4>1, CallsDiffer
        <5> QED
          BY <5>1 DEF Does, DoGet, DoSkip, DoStore, DoMix, DoHdmiMix, DoSleep, DoWake, DoOpen, DoWrite, DoRename, Naps
      <4> QED
        BY <2>7, <4>1, <4>2
    <3> QED
      BY <3>1, <3>2
  <2> QED
    BY <2>1, <2>7, <2>8, <2>9
<1> QED
  BY <1>1, <1>3, <1>5, <1>6, <1>7, <1>8, <1>9 DEF PortInv

LEMMA StartsKeepPort ==
  ASSUME BaseInv, PortInv, NEW p \in Processes, Starts(p)
  PROVE  PortInv'
<1> USE DEF Acting, Alive, Hosting
<1> DEFINE t == Main(p)
<1>1. /\ Begun(p) /\ pc[t] \in {"open_shm", "poll"} \cup Hosting
      /\ (pc[t] \in {"poll", "version"} /\ todo'[t] = InitCalls) \/ todo' = todo
  BY DEF Starts, DoCreate, DoAttach, DoSize, DoAbort, DoMap, DoRead, DoVersion, Given, Initialises
<1>2. /\ t \in {"keys", "app"} /\ (t = "app" <=> p = "app") /\ "keys" \in Threads /\ "watch" \in Threads /\ "app" \in Threads
      /\ device' = device /\ port' = port /\ had' = had /\ past \subseteq past' /\ Typed
      /\ \A u \in Threads : u # t => pc'[u] = pc[u] /\ todo'[u] = todo[u]
  BY <1>1 DEF Main, MainThread, Processes, Threads, Begun, Shaped, BaseInv
<1>3. pc'["watch"] = pc["watch"] /\ todo'["watch"] = todo["watch"]
  BY <1>2
<1>4. pc["watch"] # "off" => t = "app" /\ pc["keys"] \in Alive /\ pc'["keys"] = pc["keys"] /\ todo'["keys"] = todo["keys"]
  BY <1>1, <1>2 DEF BaseInv, Control
<1>5. PortCalls' = PortCalls /\ PortCall(port)' = PortCall(port) /\ PortCall(had)' = PortCall(had)
  BY <1>2 DEF PortCalls, PortCall
<1>6. pc'["watch"] # "off" => Elems(todo'["keys"]) \cap PortCalls = {}
  BY <1>3, <1>4 DEF PortInv
<1>7. Elems(todo'["watch"]) \cap PortCalls \subseteq {PortCall(had)}
  BY <1>3 DEF PortInv
<1>8. /\ device # "rg35xxplus" => Elems(InitCalls) \cap Jacks = {}
      /\ Elems(InitCalls) \cap Hdmis \subseteq {Hdmi(port)}
  <2>1. Elems(InitCalls) = IF device = "rg35xxplus" THEN {Jack(0), Hdmi(port), Brightness(0)} ELSE {Volume(0), Brightness(0)}
    BY <1>2, InitCallsKnown
  <2>2. Jack(0) \in Jacks
    BY DEF Jacks
  <2> QED
    BY <2>1, <2>2, CallsDiffer
<1>9. /\ device # "rg35xxplus" => Elems(todo'["app"]) \cap Jacks = {}
      /\ Never("midInit")' => Elems(todo'["app"]) \cap Hdmis \subseteq {Hdmi(port)}
  BY <1>1, <1>2, <1>8 DEF PortInv, Never
<1>10. ASSUME Never("midInit")', Never("early")', Never("blip")', Agree', pc'["watch"] # "off", had = port
       PROVE  Flag(S)' = port \/ (pc'["watch"] = "next" /\ Call("watch")' = PortCall(port))
  <2>1. Agree /\ (Flag(S) = port \/ (pc["watch"] = "next" /\ Call("watch") = PortCall(port))) /\ Never("early")
    BY <1>2, <1>3, <1>10, StartsKeepNames DEF PortInv, Never
  <2>2. pc["keys"] \in Alive /\ Named /\ mapped["keymon"] = shm.key /\ shm.key \in Objects
    BY <1>3, <1>4, <1>10, <2>1 DEF BaseInv, Shared, Objected, Named, Agree, Typed, ShmOK
  <2>3. t = "app" /\ p = "app" /\ pc'["keys"] = pc["keys"]
    BY <1>2, <1>3, <1>4, <1>10
  <2>4. S' = S
    <3>1. ~ DoCreate(p)
      BY <2>2 DEF DoCreate, None, Objects
    <3>2. ~ DoRead(p) /\ ~ DoVersion(p)
      <4>1. pc["app"] \notin {"read", "version"}
        BY <2>1, <2>2 DEF BaseInv, Shared, NotEarly, Never
      <4> QED
        BY <2>3, <4>1 DEF DoRead, DoVersion
    <3>3. shm'.key # None
      <4>1. mapped'["keymon"] = mapped["keymon"]
        BY <1>1, <2>3 DEF Begun, Processes
      <4> QED
        BY <1>10, <2>2, <2>3, <4>1 DEF Agree, Objects, None
    <3> QED
      BY <3>1, <3>2, <3>3 DEF Starts, DoAttach, DoSize, DoAbort, DoMap, S
  <2> QED
    BY <1>2, <1>3, <1>5, <2>1, <2>4 DEF Flag, Call
<1> QED
  BY <1>2, <1>5, <1>6, <1>7, <1>9, <1>10 DEF PortInv

LEMMA OthersKeepPort ==
  ASSUME BaseInv, PortInv, Other
  PROVE  PortInv'
<1> USE DEF Acting, Alive
<1>1. /\ Agree' => Agree
      /\ Named' => Named /\ S' = S
      /\ past \subseteq past' /\ device' = device /\ PortCalls' = PortCalls /\ Typed /\ Control
      /\ "keys" \in Threads /\ "watch" \in Threads /\ "app" \in Threads
      /\ \A u \in Threads : (pc'[u] = pc[u] /\ todo'[u] = todo[u]) \/ (pc[u] \in {"off", "idle"} /\ pc'[u] \in {"off", "open_shm", "idle", "next"})
  BY OthersKeepNames DEF PortCalls, BaseInv, Threads
<1>2. /\ Moves \cap PortCalls = {} /\ Naps \cap PortCalls = {} /\ Moves \cap (Jacks \cup Hdmis) = {} /\ Naps \cap (Jacks \cup Hdmis) = {}
      /\ {Simple("sleep"), Simple("cont"), Simple("wake")} \subseteq Naps /\ {Volume(0), Brightness(0)} \subseteq Moves
  BY CallsDiffer DEF PortCalls, Naps
\* The keys' and the watcher's calls.
<1>3. pc'["watch"] # "off" => Elems(todo'["keys"]) \cap PortCalls = {}
  <2>1. CASE DoWatch
    <3>1. todo'["keys"] = todo["keys"] /\ (pc["watch"] = "off" => pc["keys"] = "idle")
      BY <1>1, <2>1 DEF DoWatch, Queues, Shaped
    <3>2. pc["keys"] = "idle" => Elems(todo["keys"]) = {}
      BY <1>1, ElemsOfNone DEF Control, Own
    <3> QED
      BY <3>1, <3>2 DEF PortInv
  <2>2. CASE DoLoop
    <3>1. Elems(todo'["keys"]) \subseteq Moves
      BY <2>2 DEF DoLoop, Queues
    <3> QED
      BY <1>2, <3>1
  <2>3. CASE ~ DoWatch /\ ~ DoLoop
    <3>1. todo'["keys"] = todo["keys"] /\ pc'["watch"] = pc["watch"]
      BY <1>1, <2>3 DEF Other, DoLaunch, DoNap, DoRise, DoSync, DoQuit, DoMon, DoPlug, DoQuiet, Queues, Shaped, Goes, Stays
    <3> QED
      BY <3>1 DEF PortInv
  <2> QED
    BY <2>1, <2>2, <2>3
<1>4. ASSUME ~ DoWatch PROVE pc'["watch"] = pc["watch"] /\ todo'["watch"] = todo["watch"] /\ had' = had
  BY <1>1, <1>4 DEF Other, DoLaunch, DoLoop, DoNap, DoRise, DoSync, DoQuit, DoMon, DoPlug, DoQuiet, Queues, Shaped, Goes, Stays, NoCable
<1>5. ASSUME DoWatch
      PROVE  /\ had' = port /\ port' = port /\ Elems(todo'["watch"]) = {PortCall(port)} /\ pc'["watch"] = "next"
             /\ Head(todo'["watch"]) = PortCall(port)
  BY <1>5 DEF DoWatch, Queues
<1>6. Elems(todo'["watch"]) \cap PortCalls \subseteq {PortCall(had)}'
  BY <1>1, <1>4, <1>5 DEF PortInv, PortCall
<1>7. /\ device # "rg35xxplus" => Elems(todo'["app"]) \cap Jacks = {}
      /\ Never("midInit")' => Elems(todo'["app"]) \cap Hdmis \subseteq {Hdmi(port)}'
  <2>1. CASE DoNap \/ DoRise \/ DoSync
    <3>1. Elems(todo'["app"]) \cap (Jacks \cup Hdmis) = {}
      BY <1>2, <2>1 DEF DoNap, DoRise, DoSync, Queues
    <3> QED
      BY <3>1
  <2>2. CASE DoPlug
    <3>1. todo' = todo /\ (Never("midInit")' => pc["app"] \in {"off", "idle"})
      BY <2>2 DEF DoPlug, Stays, Never, Busy
    <3>2. pc["app"] \in {"off", "idle"} => Elems(todo["app"]) = {}
      BY <1>1, ElemsOfNone DEF Control, Own
    <3> QED
      BY <3>1, <3>2 DEF PortInv
  <2>3. CASE ~ DoNap /\ ~ DoRise /\ ~ DoSync /\ ~ DoPlug
    <3>1. todo'["app"] = todo["app"] /\ port' = port
      BY <1>1, <2>3 DEF Other, DoLaunch, DoWatch, DoLoop, DoQuit, DoMon, DoQuiet, Queues, Shaped, Goes, Stays, NoCable
    <3> QED
      BY <1>1, <3>1 DEF PortInv, Never
  <2> QED
    BY <2>1, <2>2, <2>3
\* The flag.
<1>8. ASSUME Never("midInit")', Never("early")', Never("blip")', Agree', pc'["watch"] # "off", had' = port'
      PROVE  Flag(S)' = port' \/ (pc'["watch"] = "next" /\ Call("watch")' = PortCall(port)')
  <2>1. CASE DoWatch
    BY <1>1, <1>5, <2>1 DEF Call, PortCall
  <2>2. CASE DoPlug
    <3>1. had' = had /\ port' = 1 - port /\ had = port
      BY <1>8, <2>2 DEF DoPlug, Never
    <3>2. port \in {0, 1}
      BY <1>1 DEF Typed
    <3>3. port # 1 - port
      BY <3>2
    <3>4. had' # port'
      BY <3>1, <3>3
    <3> QED
      BY <1>8, <3>4
  <2>3. CASE ~ DoWatch /\ ~ DoPlug
    <3>1. port' = port
      BY <2>3 DEF Other, DoLaunch, DoLoop, DoNap, DoRise, DoSync, DoQuit, DoMon, DoQuiet, Queues, NoCable
    <3>2. Flag(S) = port \/ (pc["watch"] = "next" /\ Call("watch") = PortCall(port))
      BY <1>1, <1>4, <1>8, <2>3, <3>1 DEF PortInv, Never
    <3>3. Named'
      <4>1. pc'["keys"] \in Alive /\ mapped'["keymon"] # None
        BY <1>8, OthersKeepBase DEF BaseInv, Control, Shared, Objected
      <4> QED
        BY <1>8, <4>1 DEF Named, Agree
    <3> QED
      BY <1>1, <1>4, <2>3, <3>1, <3>2, <3>3 DEF Flag, Call, PortCall
  <2> QED
    BY <2>1, <2>2, <2>3
<1> QED
  BY <1>1, <1>3, <1>6, <1>7, <1>8 DEF PortInv

\* A process that is initialised has the named object, so nobody fills it unseen.
LEMMA NobodyHosts ==
  ASSUME BaseInv, Never("early"), Agree, pc["keys"] \in Alive \/ pc["app"] \in Alive
  PROVE  /\ Named
         /\ pc["app"] \in Alive => ~ HostInit
<1> USE DEF Acting, Alive, Hosting
<1>1. Named
  BY DEF BaseInv, Shared, Objected, Named, Agree
<1>2. ASSUME pc["app"] \in Alive, pc["keys"] \in Hosting PROVE FALSE
  <2>1. mapped["app"] = shm.key /\ mapped["app"] \in shm.sized /\ mapped["keymon"] = shm.key
    BY <1>2 DEF BaseInv, Shared, Objected
  <2>2. pc["keys"] # "truncate"
    BY <2>1 DEF BaseInv, Shared, Objected
  <2> QED
    BY <1>2, <2>1, <2>2 DEF BaseInv, Shared, NotEarly, Never
<1>3. pc["app"] \in Alive => ~ HostInit
  BY <1>2 DEF HostInit
<1> QED
  BY <1>1, <1>3

LEMMA CallsKeepDark ==
  ASSUME BaseInv, NapInv, DarkInv, NEW t \in Threads, Does(t)
  PROVE  DarkInv'
<1> USE DEF Acting, Alive
<1>1. /\ Acts(t) /\ pc[t] \in Alive /\ pc'[t] \in Alive /\ device' = device /\ port' = port /\ mon' = mon /\ asleep' = asleep /\ past \subseteq past'
      /\ (\A u \in Threads : u # t => pc'[u] = pc[u] /\ todo'[u] = todo[u])
      /\ Elems(todo[t]) = {Call(t)} \cup Elems(Tail(todo[t])) /\ Own(t) /\ BaseInv'
  BY OthersKept, ActsCommon, CallsKeepBase DEF Acts, Shaped
<1>2. /\ "keys" \in Threads /\ "watch" \in Threads /\ "app" \in Threads
      /\ \A u \in Threads : Elems(todo'[u]) \cap (Jacks \cup Hdmis \cup {Simple("wake")}) \subseteq Elems(todo[u])
  BY CallsShrink DEF Threads
<1>3. /\ \A u \in Threads : Elems(todo'[u]) \cap Hdmis \subseteq Elems(todo[u])
      /\ Simple("wake") \in Elems(todo'["app"]) => Simple("wake") \in Elems(todo["app"])
  BY <1>2
<1>4. \A u \in Threads : pc[u] \in Alive => pc'[u] \in Alive
  BY <1>1
<1>5. Waking' => Waking
  BY <1>1, <1>3 DEF Waking
<1>6. Waking' => pc'["app"] \in Alive /\ Elems(todo'["app"]) \cap Hdmis = {}
  BY <1>2, <1>3, <1>4, <1>5 DEF DarkInv
<1>7. ASSUME Never("unseen")' PROVE \A u \in Threads : Elems(todo[u]) \cap Hdmis \subseteq {Hdmi(port)} /\ Elems(todo'[u]) \cap Hdmis \subseteq {Hdmi(port)}
  BY <1>1, <1>3, <1>7 DEF DarkInv, Never
<1>8. ASSUME Never("unseen")', Never("early")', Agree', Dark'
      PROVE  /\ ~ HostInit'
             /\ Waking' \/ pc'["keys"] \in Alive
             /\ Hdmied(S)' => port = 1 /\ pc'["keys"] \in Alive
             /\ ~ Waking' => Hdmied(S)'
  <2>1. Agree /\ Never("early") /\ Never("unseen") /\ (HostInit' <=> HostInit)
    BY <1>1, <1>8, CallsKeepNames DEF Never
  <2>2. Named /\ (pc["app"] \in Alive => ~ HostInit)
    <3>1. pc["keys"] \in Alive \/ pc["app"] \in Alive
      BY <1>1 DEF BaseInv, Control, Threads
    <3> QED
      BY <2>1, <3>1, NobodyHosts
  <2>3. Now(t) = S /\ S \in Settings /\ (shm' = shm => S' = S)
    BY <1>1, <2>2, MineIsNamed, CallsKeepNames
  <2>4. CASE DoSleep(t) /\ ~ Hdmied(S)
    <3>1. t = "app"
      <4>1. Simple("sleep") \in Elems(todo[t]) /\ Simple("sleep") \in Naps
        BY <1>1, <2>4 DEF DoSleep, Naps
      <4> QED
        BY <1>1, <4>1 DEF Own
    <3>2. S' = S /\ ~ Hdmied(S)'
      BY <1>1, <2>3, <2>4 DEF DoSleep, Hdmied
    <3>3. ~ HostInit'
      BY <1>1, <2>1, <2>2, <3>1
    <3>4. Waking'
      <4>1. asleep
        BY <1>1, <2>4, <3>1 DEF DoSleep, NapInv
      <4> QED
        BY <1>1, <4>1 DEF Waking
    <3> QED
      BY <3>2, <3>3, <3>4
  <2>5. CASE ~ (DoSleep(t) /\ ~ Hdmied(S))
    \* A wake that is done has lit the picture or found HDMI in use.
    <3>1. ~ lit /\ Dark
      <4>1. lit' = lit \/ lit' = TRUE
        BY <2>3, <2>5 DEF Does, DoGet, DoSkip, DoStore, DoMix, DoJack, DoHdmi, DoHdmiMix, DoSleep, DoWake, DoOpen, DoWrite, DoRename, Outs
      <4> QED
        BY <1>1, <1>8, <4>1 DEF Dark
    <3>2. /\ Waking \/ pc["keys"] \in Alive
          /\ Hdmied(S) => port = 1 /\ pc["keys"] \in Alive
          /\ ~ Waking => Hdmied(S)
          /\ ~ HostInit
      BY <2>1, <3>1 DEF DarkInv
    <3>3. Waking /\ ~ Waking' => Hdmied(S)
      <4> SUFFICES ASSUME Waking, ~ Waking' PROVE Hdmied(S)
        OBVIOUS
      <4>1. ~ asleep /\ Simple("wake") \in Elems(todo["app"]) /\ Simple("wake") \notin Elems(todo'["app"])
        BY <1>1 DEF Waking
      <4>2. t = "app"
        BY <1>1, <4>1 DEF Threads
      <4>3. Call(t) = Simple("wake")
        <5>1. CASE DoJack(t) \/ DoHdmi(t) \/ DoSleep(t) \/ DoWake(t)
          <6>1. Elems(Tail(todo[t])) \subseteq Elems(todo'[t]) \/ todo' = todo
            BY <5>1 DEF DoJack, DoHdmi, DoSleep, DoWake, Replaces, Goes
          <6> QED
            BY <1>1, <4>1, <4>2, <6>1
        <5>2. CASE todo' = todo \/ Consumes(t)
          <6>1. todo'[t] = Tail(todo[t]) \/ todo' = todo
            BY <5>2 DEF Consumes
          <6> QED
            BY <1>1, <4>1, <4>2, <6>1
        <5> QED
          BY <5>1, <5>2 DEF Does, DoGet, DoSkip, DoStore, DoMix, DoHdmiMix, DoOpen, DoWrite, DoRename, Goes
      <4>4. DoSkip(t) \/ DoWake(t)
        <5>1. Call(t) \notin Moves /\ Call(t) \notin Jacks /\ Call(t) \notin Hdmis /\ Call(t) # Simple("sleep")
          BY <4>3, CallsDiffer, NapsDiffer DEF Naps
        <5>2. pc[t] \notin {"open", "write", "rename"} /\ ~ (pc[t] = "second" /\ Call(t).call = "volume")
          BY <1>1, <4>3, <5>1 DEF Own, AtCall, Simple
        <5> QED
          BY <5>1, <5>2, CallsDiffer DEF Does, DoGet, DoStore, DoMix, DoJack, DoHdmi, DoHdmiMix, DoSleep, DoOpen, DoWrite, DoRename, Hdmis
      <4>5. ~ DoWake(t)
        BY <1>8 DEF DoWake, Dark
      <4>6. DoSkip(t) /\ pc[t] \in {"next", "first"}
        BY <4>4, <4>5 DEF DoSkip
      <4>7. Call(t) \notin (Moves \ {Volume(0)}) \cup {Simple("stop"), Simple("cont")}
        BY <4>3, CallsDiffer, NapsDiffer DEF Naps
      <4> QED
        BY <2>3, <4>6, <4>7 DEF DoSkip
    <3>4. CASE ~ DoHdmi(t)
      <4>1. S'.hdmi = S.hdmi
        BY <2>2, <3>4, CallsSetFlags
      <4>2. Hdmied(S)' <=> Hdmied(S)
        BY <1>1, <4>1 DEF Hdmied
      <4> QED
        BY <1>2, <1>4, <2>1, <3>2, <3>3, <4>2
    <3>5. CASE DoHdmi(t)
      <4>1. Call(t) \in Hdmis /\ Call(t) = Hdmi(S'.hdmi)
        BY <2>2, <3>5, CallsSetFlags
      <4>2. S'.hdmi = port /\ device = "rg35xxplus"
        <5>1. Call(t) = Hdmi(port)
          BY <1>1, <1>7, <1>8, <4>1
        <5>2. \A v, w : Hdmi(v) = Hdmi(w) => v = w
          BY DEF Hdmi
        <5> QED
          BY <1>1, <4>1, <5>1, <5>2 DEF Own
      <4>3. Hdmied(S)' <=> port = 1
        BY <1>1, <4>2 DEF Hdmied
      <4>4. pc["keys"] \in Alive
        <5>1. CASE t = "app"
          <6>1. ~ Waking
            BY <1>1, <4>1, <5>1 DEF DarkInv
          <6> QED
            BY <3>2, <6>1
        <5>2. CASE t # "app"
          BY <1>1, <5>2 DEF BaseInv, Control, Threads
        <5> QED
          BY <5>1, <5>2
      <4> QED
        BY <1>2, <1>4, <2>1, <3>2, <3>3, <4>3, <4>4
    <3> QED
      BY <3>4, <3>5
  <2> QED
    BY <2>4, <2>5
<1> QED
  BY <1>1, <1>6, <1>7, <1>8 DEF DarkInv

LEMMA StartsKeepDark ==
  ASSUME BaseInv, DarkInv, NEW p \in Processes, Starts(p)
  PROVE  DarkInv'
<1> USE DEF Acting, Alive, Hosting
<1> DEFINE t == Main(p)
<1>1. /\ Begun(p) /\ pc[t] \in {"open_shm", "poll"} \cup Hosting
      /\ todo'[t] = InitCalls \/ todo' = todo
  BY DEF Starts, DoCreate, DoAttach, DoSize, DoAbort, DoMap, DoRead, DoVersion, Given, Initialises
<1>2. /\ t \in {"keys", "app"} /\ (t = "app" <=> p = "app") /\ "keys" \in Threads /\ "app" \in Threads
      /\ device' = device /\ port' = port /\ lit' = lit /\ mon' = mon /\ asleep' = asleep /\ past \subseteq past' /\ Typed
      /\ \A u \in Threads : u # t => pc'[u] = pc[u] /\ todo'[u] = todo[u]
  BY <1>1 DEF Main, MainThread, Processes, Threads, Begun, Shaped, BaseInv
<1>3. Simple("wake") \notin Elems(InitCalls) /\ Elems(InitCalls) \cap Hdmis \subseteq {Hdmi(port)}
  <2>1. Elems(InitCalls) = IF device = "rg35xxplus" THEN {Jack(0), Hdmi(port), Brightness(0)} ELSE {Volume(0), Brightness(0)}
    BY <1>2, InitCallsKnown
  <2>2. Jack(0) \in Jacks /\ Hdmi(port) \in Hdmis /\ Simple("wake") \in Naps
    BY <1>2 DEF Jacks, Hdmis, Naps, Typed
  <2> QED
    BY <2>1, <2>2, CallsDiffer
<1>4. (Waking => t = "keys") /\ (Waking' <=> Waking)
  <2>1. Waking => t = "keys"
    BY <1>1, <1>2 DEF DarkInv
  <2>2. CASE t = "keys"
    BY <1>2, <2>2 DEF Waking
  <2>3. CASE t = "app"
    <3>1. ~ asleep /\ Simple("wake") \notin Elems(todo["app"])
      BY <1>2, <2>1, <2>3 DEF Waking
    <3> QED
      BY <1>1, <1>2, <1>3, <2>3, <3>1 DEF Waking
  <2> QED
    BY <1>2, <2>1, <2>2, <2>3
<1>5. Waking' => pc'["app"] \in Alive /\ Elems(todo'["app"]) \cap Hdmis = {}
  BY <1>2, <1>4 DEF DarkInv
<1>6. ASSUME Never("unseen")' PROVE \A u \in Threads : Elems(todo'[u]) \cap Hdmis \subseteq {Hdmi(port)}
  BY <1>1, <1>2, <1>3, <1>6 DEF DarkInv, Never
<1>7. ASSUME Never("unseen")', Never("early")', Agree', Dark'
      PROVE  /\ ~ HostInit'
             /\ Waking' \/ pc'["keys"] \in Alive
             /\ Hdmied(S)' => port = 1 /\ pc'["keys"] \in Alive
             /\ ~ Waking' => Hdmied(S)'
  <2>1. Agree /\ Never("early") /\ Never("unseen") /\ Dark
    BY <1>2, <1>7, StartsKeepNames DEF Never, Dark
  <2>2. /\ Waking \/ pc["keys"] \in Alive
        /\ Hdmied(S) => port = 1 /\ pc["keys"] \in Alive
        /\ ~ Waking => Hdmied(S)
        /\ ~ HostInit
    BY <2>1 DEF DarkInv
  <2>3. Named
    <3>1. pc["keys"] \in Alive \/ pc["app"] \in Alive
      BY <2>2 DEF DarkInv
    <3> QED
      BY <2>1, <3>1, NobodyHosts
  <2>4. pc[t] \in {"open_shm", "poll"}
    BY <1>1, <1>2, <2>2 DEF HostInit
  <2>5. DoAttach(p) \/ DoMap(p) \/ DoAbort(p)
    BY <2>3, <2>4 DEF Starts, DoCreate, DoSize, DoRead, DoVersion, Named
  <2>6. S' = S
    BY <2>4, <2>5 DEF S, DoAttach, DoMap, DoAbort
  <2>7. ~ HostInit'
    BY <1>2, <2>2, <2>5 DEF HostInit, DoAttach, DoMap, DoAbort, Given, Initialises
  <2>8. pc["keys"] \in Alive => pc'["keys"] \in Alive
    BY <1>2, <2>4
  <2>9. Hdmied(S)' <=> Hdmied(S)
    BY <1>2, <2>6 DEF Hdmied
  <2> QED
    BY <1>4, <2>2, <2>7, <2>8, <2>9
<1> QED
  BY <1>2, <1>5, <1>6, <1>7 DEF DarkInv

LEMMA OthersKeepDark ==
  ASSUME BaseInv, DarkInv, Other
  PROVE  DarkInv'
<1> USE DEF Acting, Alive
<1>1. /\ Agree' => Agree
      /\ Named' => Named /\ S' = S
      /\ HostInit' <=> HostInit
      /\ past \subseteq past' /\ device' = device /\ Typed /\ Control
      /\ "keys" \in Threads /\ "watch" \in Threads /\ "app" \in Threads
      /\ \A u \in Threads : (pc'[u] = pc[u] /\ todo'[u] = todo[u]) \/ (pc[u] \in {"off", "idle"} /\ pc'[u] \in {"off", "open_shm", "idle", "next"})
  BY OthersKeepNames DEF BaseInv, Threads
<1>2. /\ Moves \cap Hdmis = {} /\ Naps \cap Hdmis = {} /\ Jacks \cap Hdmis = {}
      /\ {Simple("sleep"), Simple("cont"), Simple("wake")} \subseteq Naps /\ {Volume(0), Brightness(0)} \subseteq Moves
      /\ Simple("wake") \notin {Simple("sleep"), Volume(0), Brightness(0)}
  BY CallsDiffer, NapsDiffer DEF Naps
<1>3. \A u \in Threads : pc[u] \in {"off", "idle"} => Elems(todo[u]) = {}
  BY <1>1, ElemsOfNone DEF Control, Own
\* Who naps or wakes is initialised and has no cable to apply.
<1>4. CASE DoNap \/ DoRise \/ DoSync
  <2>1. /\ pc["app"] = "idle" /\ pc'["app"] \in {"idle", "next"} /\ lit' = lit /\ mon' = mon /\ port' = port /\ past' = past /\ shm' = shm /\ mapped' = mapped
        /\ \A u \in Threads : u # "app" => pc'[u] = pc[u] /\ todo'[u] = todo[u]
    BY <1>4 DEF DoNap, DoRise, DoSync, Queues, Shaped, Calm
  <2>2. Elems(todo'["app"]) \cap Hdmis = {}
    BY <1>2, <1>4 DEF DoNap, DoRise, DoSync, Queues
  <2>3. Waking => Waking'
    <3>1. CASE DoNap \/ DoSync
      BY <1>3, <2>1, <3>1, <1>1 DEF DoNap, DoSync, Waking
    <3>2. CASE DoRise
      BY <3>2 DEF DoRise, Queues, Waking
    <3> QED
      BY <1>4, <3>1, <3>2
  <2>4. ~ Waking' => ~ Waking
    BY <2>3
  <2>5. pc'["keys"] = pc["keys"] /\ (Agree' <=> Agree) /\ S' = S /\ (Hdmied(S)' <=> Hdmied(S)) /\ (Dark' <=> Dark)
    BY <1>1, <2>1 DEF Agree, S, Hdmied, Dark, Threads
  <2>6. Never("unseen")' => \A u \in Threads : Elems(todo'[u]) \cap Hdmis \subseteq {Hdmi(port')}
    BY <2>1, <2>2 DEF DarkInv, Never
  <2>7. Never("unseen")' /\ Never("early")' /\ Agree' /\ Dark' =>
          /\ ~ HostInit'
          /\ Waking' \/ pc'["keys"] \in Alive
          /\ Hdmied(S)' => port' = 1 /\ pc'["keys"] \in Alive
          /\ ~ Waking' => Hdmied(S)'
    BY <1>1, <2>1, <2>3, <2>4, <2>5 DEF DarkInv, Never
  <2> QED
    BY <2>1, <2>2, <2>6, <2>7 DEF DarkInv
\* The rest: nobody's waking changes.
<1>5. CASE ~ DoNap /\ ~ DoRise /\ ~ DoSync
  <2>1. todo'["app"] = todo["app"] /\ asleep' = asleep
    BY <1>1, <1>5 DEF Other, DoLaunch, DoWatch, DoLoop, DoQuit, DoMon, DoPlug, DoQuiet, Queues, Shaped, Goes, Stays
  <2>2. Waking' <=> Waking
    BY <2>1 DEF Waking
  <2>3. Waking => pc'["app"] \in Alive
    <3>1. CASE DoQuit
      BY <1>1, <1>3, <3>1 DEF DoQuit, Waking
    <3>2. CASE ~ DoQuit
      <4>1. pc["app"] \in Alive => pc'["app"] = pc["app"]
        BY <1>1, <1>5, <3>2 DEF Other, DoLaunch, DoWatch, DoLoop, DoMon, DoPlug, DoQuiet, Queues, Shaped, Goes, Stays
      <4> QED
        BY <4>1 DEF DarkInv
    <3> QED
      BY <3>1, <3>2
  <2>4. Waking' => pc'["app"] \in Alive /\ Elems(todo'["app"]) \cap Hdmis = {}
    BY <2>1, <2>2, <2>3 DEF DarkInv
  <2>5. pc["keys"] \in Alive => pc'["keys"] \in Alive
    BY <1>1, <1>5 DEF Other, DoLaunch, DoWatch, DoLoop, DoQuit, DoMon, DoPlug, DoQuiet, Queues, Shaped, Goes, Stays
  <2>6. ASSUME Never("unseen")', NEW u \in Threads PROVE Elems(todo'[u]) \cap Hdmis \subseteq {Hdmi(port')}
    <3>1. CASE DoPlug
      <4>1. ~ Applying /\ todo' = todo
        BY <2>6, <3>1 DEF DoPlug, Never, Stays
      <4>2. Elems(todo[u]) \cap Hdmis = {}
        BY <4>1 DEF Applying, Queued, Elems, Hdmis
      <4> QED
        BY <4>1, <4>2
    <3>2. CASE DoWatch
      <4>1. PortCall(port) \in Hdmis => PortCall(port) = Hdmi(port)
        BY <1>1, CallsDiffer DEF PortCall, Jacks, Typed
      <4>2. port' = port /\ past' = past /\ Elems(todo'["watch"]) = {PortCall(port)} /\ (u # "watch" => todo'[u] = todo[u])
        BY <3>2 DEF DoWatch, Queues, Shaped
      <4> QED
        BY <2>6, <4>1, <4>2 DEF DarkInv, Never
    <3>3. CASE DoLoop
      <4>1. port' = port /\ past' = past /\ Elems(todo'["keys"]) \subseteq Moves /\ (u # "keys" => todo'[u] = todo[u])
        BY <3>3 DEF DoLoop, Queues, Shaped
      <4> QED
        BY <1>2, <2>6, <4>1 DEF DarkInv, Never
    <3>4. CASE ~ DoPlug /\ ~ DoWatch /\ ~ DoLoop
      <4>1. todo' = todo /\ port' = port
        BY <1>5, <3>4 DEF Other, DoLaunch, DoQuit, DoMon, DoQuiet, Goes, Stays, NoCable
      <4> QED
        BY <1>1, <2>6, <4>1 DEF DarkInv, Never
    <3> QED
      BY <3>1, <3>2, <3>3, <3>4
  <2>7. ASSUME Never("unseen")', Never("early")', Agree', Dark'
        PROVE  /\ ~ HostInit'
               /\ Waking' \/ pc'["keys"] \in Alive
               /\ Hdmied(S)' => port' = 1 /\ pc'["keys"] \in Alive
               /\ ~ Waking' => Hdmied(S)'
    <3>1. ~ DoMon
      BY <2>7 DEF DoMon, Dark
    <3>2. ~ DoPlug
      <4> SUFFICES ASSUME DoPlug PROVE FALSE
        OBVIOUS
      <4>1. mon' = mon /\ mon.had = port /\ port' = 1 - port
        BY <2>7 DEF DoPlug, Never
      <4>2. port \in {0, 1}
        BY <1>1 DEF Typed
      <4>3. port # 1 - port
        BY <4>2
      <4>4. mon'.had = port'
        BY <2>7 DEF Dark
      <4> QED
        BY <4>1, <4>3, <4>4
    <3>3. port' = port /\ lit' = lit /\ mon' = mon
      BY <1>5, <3>1, <3>2 DEF Other, DoLaunch, DoWatch, DoLoop, DoQuit, DoQuiet, Queues, NoCable
    <3>4. /\ ~ HostInit
          /\ Waking \/ pc["keys"] \in Alive
          /\ Hdmied(S) => port = 1 /\ pc["keys"] \in Alive
          /\ ~ Waking => Hdmied(S)
      BY <1>1, <2>7, <3>3 DEF DarkInv, Never, Dark
    <3>5. Named'
      <4>1. BaseInv'
        BY OthersKeepBase
      <4>2. pc'["keys"] \in Alive \/ pc'["app"] \in Alive
        BY <2>3, <2>5, <3>4
      <4> QED
        BY <2>7, <4>1, <4>2 DEF BaseInv, Shared, Objected, Named, Agree
    <3>6. Hdmied(S)' <=> Hdmied(S)
      BY <1>1, <3>5 DEF Hdmied
    <3> QED
      BY <1>1, <2>2, <2>5, <3>3, <3>4, <3>6
  <2> QED
    BY <2>4, <2>6, <2>7 DEF DarkInv
<1> QED
  BY <1>4, <1>5

\* The keys stay as they are but for the loop and for a key that moves.
LEMMA NoKeyMoves ==
  ASSUME KeysInv, NoKeys
  PROVE  KeysInv'
BY DEF KeysInv, NoKeys, Touched, LastOf

LEMMA KeyMoves ==
  ASSUME KeysInv, NEW k \in Keys, KeyDown(k) \/ KeyUp(k)
  PROVE  KeysInv'
<1> PICK v \in {0, 1} : /\ events' = Append(events, [key |-> k, val |-> v]) /\ keys' = keys
                        /\ held' = IF v = 1 THEN held \cup {k} ELSE held \ {k}
  BY DEF KeyDown, KeyUp
<1> DEFINE e == [key |-> k, val |-> v]
           n == Len(events)
<1>1. e \in [key : Keys, val : {0, 1}] /\ e.key = k /\ e.val = v /\ events \in Seq([key : Keys, val : {0, 1}])
  BY DEF KeysInv
<1>2. events' = Append(events, e)
  OBVIOUS
<1> HIDE DEF e
<1>3. /\ events' \in Seq([key : Keys, val : {0, 1}]) /\ Len(events') = n + 1 /\ n \in Nat
      /\ events'[n + 1] = e /\ \A i \in 1 .. n : events'[i] = events[i]
  BY <1>1, <1>2
<1> HIDE DEF n
<1>4. Touched' = Touched \cup {k}
  <2>1. \A i \in 1 .. n + 1 : i \in 1 .. n \/ i = n + 1
    BY <1>3
  <2>2. \A i \in 1 .. n : i \in 1 .. n + 1
    BY <1>3
  <2>3. n + 1 \in 1 .. n + 1
    BY <1>3
  <2>4. ASSUME NEW x \in Touched' PROVE x \in Touched \cup {k}
    <3> PICK i \in 1 .. n + 1 : x = events'[i].key
      BY <1>3, <2>4 DEF Touched
    <3> QED
      BY <1>1, <1>3, <2>1 DEF Touched, n
  <2>5. ASSUME NEW x \in Touched \cup {k} PROVE x \in Touched'
    <3>1. CASE x = k
      <4>1. events'[n + 1].key = x
        BY <1>1, <1>3, <3>1
      <4> QED
        BY <1>3, <2>3, <4>1 DEF Touched
    <3>2. CASE x \in Touched
      <4> PICK i \in 1 .. n : x = events[i].key
        BY <3>2 DEF Touched, n
      <4>1. events'[i].key = x /\ i \in 1 .. n + 1
        BY <1>3, <2>2
      <4> QED
        BY <1>3, <4>1 DEF Touched
    <3> QED
      BY <2>5, <3>1, <3>2
  <2> QED
    BY <2>4, <2>5
<1>5. ASSUME NEW j \in Keys
      PROVE  /\ j \notin Touched' => (j \in keys'.down => j \in held')
             /\ j \in Touched' => \E i \in LastOf(j)' : events'[i].val = 1 <=> j \in held'
  <2>1. CASE j = k
    <3>1. n + 1 \in LastOf(j)'
      <4>1. n + 1 \in 1 .. n + 1 /\ \A i \in n + 1 + 1 .. n + 1 : FALSE
        BY <1>3
      <4> QED
        BY <1>1, <1>3, <2>1, <4>1 DEF LastOf
    <3>2. events'[n + 1].val = v /\ (v = 1 <=> j \in held')
      BY <1>1, <1>3, <2>1
    <3> QED
      BY <1>4, <2>1, <3>1, <3>2
  <2>2. CASE j # k
    <3>1. (j \in held' <=> j \in held) /\ (j \in Touched' <=> j \in Touched)
      BY <1>4, <2>2
    <3>2. ASSUME j \in Touched PROVE \E i \in LastOf(j)' : events'[i].val = 1 <=> j \in held'
      <4> PICK i \in LastOf(j) : events[i].val = 1 <=> j \in held
        BY <3>2 DEF KeysInv
      <4>1. i \in 1 .. n /\ events[i].key = j /\ \A m \in i + 1 .. n : events[m].key # j
        BY DEF LastOf, n
      <4>2. i \in 1 .. n + 1 /\ \A m \in i + 1 .. n + 1 : m \in i + 1 .. n \/ m = n + 1
        BY <1>3, <4>1
      <4>3. \A m \in i + 1 .. n : m \in 1 .. n
        BY <1>3, <4>1
      <4>4. \A m \in i + 1 .. n + 1 : events'[m].key # j
        BY <1>1, <1>3, <2>2, <4>1, <4>2, <4>3
      <4>5. events'[i] = events[i]
        BY <1>3, <4>1
      <4>6. i \in LastOf(j)'
        BY <1>3, <4>1, <4>2, <4>4, <4>5 DEF LastOf
      <4> QED
        BY <3>1, <4>5, <4>6
    <3> QED
      BY <3>1, <3>2 DEF KeysInv
  <2> QED
    BY <2>1, <2>2
<1>6. held' \subseteq Keys
  BY DEF KeysInv
<1> QED
  BY <1>3, <1>5, <1>6 DEF KeysInv

\* After a batch keymon believes of each key what its last event says.
LEMMA LoopReadsKeys ==
  ASSUME KeysInv, NEW due, KeymonLoop(due)
  PROVE  KeysInv'
<1>1. events' = <<>> /\ held' = held /\ keys' = [KeysRead EXCEPT !.just = {}]
  BY DEF KeymonLoop
<1>2. /\ KeysRead = [down |-> KeysRead.down, just |-> KeysRead.just]
      /\ KeysRead.down = IF long THEN {} ELSE (keys.down \ Touched) \cup Pressed
  BY DEF KeysRead
<1>3. keys' = [down |-> KeysRead.down, just |-> {}]
  BY <1>1, <1>2
<1>4. Touched' = {}
  BY <1>1 DEF Touched
<1>5. \A k \in Pressed : k \in Keys /\ k \in held
  <2> TAKE k \in Pressed
  <2>1. k \in Touched /\ \A i \in LastOf(k) : events[i].val = 1
    BY DEF Pressed
  <2>2. k \in Keys
    <3> PICK i \in 1 .. Len(events) : k = events[i].key
      BY <2>1 DEF Touched
    <3>1. events \in Seq([key : Keys, val : {0, 1}])
      BY DEF KeysInv
    <3>2. events[i] \in [key : Keys, val : {0, 1}]
      BY <3>1, ElementOfSeq
    <3> QED
      BY <3>2
  <2> QED
    BY <2>1, <2>2 DEF KeysInv
<1>6. \A k \in KeysRead.down : k \in Keys /\ k \in held
  BY <1>2, <1>5 DEF KeysInv
<1>7. held' \subseteq Keys /\ keys'.down \subseteq Keys /\ keys' = [down |-> keys'.down, just |-> keys'.just]
  BY <1>1, <1>3, <1>6 DEF KeysInv
<1>8. events' \in Seq([key : Keys, val : {0, 1}])
  BY <1>1, EmptySeq
<1>9. \A k \in Keys : k \in keys'.down => k \in held'
  BY <1>1, <1>3, <1>6
<1> QED
  BY <1>4, <1>7, <1>8, <1>9 DEF KeysInv

-----------------------------------------------------------------------------
(* A boot, and the invariant of the specification.                         *)

\* Nothing runs after a boot, and what the card keeps is as it was.
Booted ==
  /\ Boot(fs, port) /\ FsOK(fs) /\ port \in {0, 1} /\ held \subseteq Keys
  /\ Never("early") => \A i \in Inodes : fs.data[i] # <<>> => Current(Head(fs.data[i]))
  /\ Never("fault") /\ Never("cut") => fs.tmp = None /\ fs.path = None

LEMMA BootIsSound == Booted => SettingsInv
<1> SUFFICES ASSUME Booted PROVE SettingsInv
  OBVIOUS
<1>1. BaseInv
  BY BootIsBase DEF Booted
<1>2. /\ pc = [t \in Threads |-> "off"] /\ todo = [t \in Threads |-> <<>>] /\ shm.key = None /\ shm.sized = {}
      /\ events = <<>> /\ keys = [down |-> {}, just |-> {}] /\ ~ asleep /\ lit /\ held \subseteq Keys
      /\ "keys" \in Threads /\ "app" \in Threads /\ "watch" \in Threads
  BY DEF Booted, Boot, Threads
<1>3. \A t \in Threads : pc[t] = "off" /\ todo[t] = <<>> /\ Elems(todo[t]) = {}
  BY <1>2, ElemsOfNone
<1>4. ~ Named
  BY <1>2 DEF Named
<1>5. FileInv
  <2>1. Versions
    BY <1>2 DEF Booted, Versions
  <2>2. NoneTorn
    BY DEF Booted, NoneTorn, Torn
  <2>3. WillBeSaved /\ Whole
    BY <1>3, <1>4 DEF WillBeSaved, Whole
  <2> QED
    BY <2>1, <2>2, <2>3 DEF FileInv
<1>6. MixerInv /\ NapInv
  BY <1>2, <1>3, <1>4 DEF MixerInv, NapInv
<1>7. PortInv
  BY <1>2, <1>3 DEF PortInv
<1>8. DarkInv
  BY <1>2, <1>3 DEF DarkInv, Waking, Dark
<1>9. KeysInv
  <2>1. Touched = {}
    BY <1>2 DEF Touched
  <2>2. events \in Seq([key : Keys, val : {0, 1}])
    BY <1>2, EmptySeq
  <2> QED
    BY <1>2, <2>1, <2>2 DEF KeysInv
<1> QED
  BY <1>1, <1>5, <1>6, <1>7, <1>8, <1>9 DEF SettingsInv

LEMMA CutIsSound == Booted' => SettingsInv'
BY BootIsSound, PTL

\* Every step keeps the invariant.
LEMMA NextKeepsInv ==
  ASSUME SettingsInv, [Next]_vars
  PROVE  SettingsInv'
<1>1. BaseInv /\ FileInv /\ MixerInv /\ NapInv /\ PortInv /\ DarkInv /\ KeysInv
  BY DEF SettingsInv
<1>2. ASSUME NEW p \in Processes, Open(p) \/ Truncate(p) \/ Poll(p) \/ Read(p) \/ Version(p)
      PROVE  SettingsInv'
  <2>1. Starts(p)
    BY <1>1, <1>2, StartDoes
  <2>2. NoKeys
    BY <2>1 DEF Starts, DoCreate, DoAttach, DoSize, DoAbort, DoMap, DoRead, DoVersion, Begun, NoKeys
  <2>3. BaseInv' /\ FileInv'
    BY <1>1, <2>1, StartsKeepBase, StartsKeepFile
  <2>4. MixerInv' /\ NapInv'
    BY <1>1, <2>1, StartsKeepMixer, StartsKeepNap
  <2>5. PortInv' /\ DarkInv' /\ KeysInv'
    BY <1>1, <2>1, <2>2, StartsKeepPort, StartsKeepDark, NoKeyMoves
  <2> QED
    BY <2>3, <2>4, <2>5 DEF SettingsInv
<1>3. ASSUME NEW t \in Threads, Get(t) \/ Setter(t) \/ SaveSettings(t)
      PROVE  SettingsInv'
  <2>1. Does(t)
    BY <1>1, <1>3, GetDoes, SetterDoes, SaveDoes DEF Does
  <2>2. NoKeys
    BY <1>1, <2>1, OthersKept DEF Acts, NoKeys
  <2>3. BaseInv' /\ FileInv'
    BY <1>1, <2>1, CallsKeepBase, CallsKeepFile
  <2>4. MixerInv' /\ NapInv'
    BY <1>1, <2>1, CallsKeepMixer, CallsKeepNap
  <2>5. PortInv' /\ DarkInv' /\ KeysInv'
    BY <1>1, <2>1, <2>2, CallsKeepPort, CallsKeepDark, NoKeyMoves
  <2> QED
    BY <2>3, <2>4, <2>5 DEF SettingsInv
<1>4. ASSUME Other, KeysInv' PROVE SettingsInv'
  <2>1. BaseInv' /\ FileInv'
    BY <1>1, <1>4, OthersKeepBase, OthersKeepFile
  <2>2. MixerInv' /\ NapInv'
    BY <1>1, <1>4, OthersKeepMixer, OthersKeepNap
  <2>3. PortInv' /\ DarkInv'
    BY <1>1, <1>4, OthersKeepPort, OthersKeepDark
  <2> QED
    BY <1>4, <2>1, <2>2, <2>3 DEF SettingsInv
<1>5. ASSUME NEW due, KeymonLoop(due) PROVE SettingsInv'
  BY <1>1, <1>4, <1>5, OtherDoes, LoopReadsKeys
<1>6. ASSUME NEW k \in Keys, KeyDown(k) \/ KeyUp(k) PROVE SettingsInv'
  BY <1>1, <1>4, <1>6, OtherDoes, KeyMoves
<1>7. ASSUME NEW clean, StartKeymon \/ StartWatch \/ WatchPort \/ StartApp \/ AppSleep \/ AppWake \/ AppSync \/ AppQuit(clean)
      PROVE  SettingsInv'
  <2>1. Other
    BY <1>1, <1>7, OtherDoes
  <2>2. NoKeys
    BY <1>7 DEF StartKeymon, StartWatch, WatchPort, StartApp, AppSleep, AppWake, AppSync, AppQuit, NoKeys, envVars, keyVars
  <2> QED
    BY <1>1, <1>4, <2>1, <2>2, NoKeyMoves
<1>8. ASSUME HdmiMon \/ Plug \/ LongNap PROVE SettingsInv'
  <2>1. Other
    BY <1>1, <1>8, OtherDoes
  <2>2. NoKeys
    BY <1>8 DEF HdmiMon, Plug, LongNap, NoKeys, envVars, keyVars
  <2> QED
    BY <1>1, <1>4, <2>1, <2>2, NoKeyMoves
<1>9. CASE PowerCut
  <2>1. Boot(fs, port)' /\ FsOK(fs') /\ fs' = fs /\ port' = port /\ held' = held /\ past' = past \cup {"cut"}
    BY <1>1, <1>9, CutBoots
  <2>2. port \in {0, 1} /\ held \subseteq Keys
    BY <1>1 DEF BaseInv, Typed, KeysInv
  <2>3. Never("early")' => \A i \in Inodes : fs'.data[i] # <<>> => Current(Head(fs'.data[i]))
    BY <1>1, <2>1 DEF FileInv, Versions, Never
  <2>4. Booted'
    BY <2>1, <2>2, <2>3 DEF Booted, Never
  <2> QED
    BY <2>4, CutIsSound
<1>10. CASE UNCHANGED vars
  <2>1. DoQuiet /\ NoKeys
    BY <1>10 DEF vars, DoQuiet, Calm, NoCable, Stays, NoKeys
  <2> QED
    BY <1>1, <1>4, <2>1, NoKeyMoves DEF Other
<1> QED
  BY <1>2, <1>3, <1>5, <1>6, <1>7, <1>8, <1>9, <1>10 DEF Next, Keys

-----------------------------------------------------------------------------
(* What the invariant says once the threads are done.                      *)

LEMMA SettledIsNamed ==
  ASSUME BaseInv, Settled, OneObject
  PROVE  /\ \A t \in Threads : pc[t] \notin Acting /\ Elems(todo[t]) = {}
         /\ Agree /\ Filled /\ ~ HostInit
         /\ \A t \in Threads : pc[t] = "idle" => Named /\ Now(t) = S
<1> USE DEF Acting, Alive, Hosting
<1>1. \A t \in Threads : pc[t] \in {"off", "idle", "dead"}
  BY DEF Settled, Busy
<1>2. \A t \in Threads : pc[t] \notin Acting /\ todo[t] = <<>>
  BY <1>1 DEF BaseInv, Control, Own
<1>3. Filled /\ ~ HostInit
  BY <1>1 DEF Filled, HostInit, Threads
<1>4. Agree
  BY DEF Agree, BaseInv, Shared, Objected, OneObject, Processes
<1>5. ASSUME NEW t \in Threads, pc[t] = "idle" PROVE Named /\ Now(t) = S
  <2>1. pc["keys"] \in Alive \/ pc["app"] \in Alive
    BY <1>5 DEF BaseInv, Control, Threads
  <2>2. Named
    BY <1>4, <2>1 DEF Named, Agree, BaseInv, Shared, Objected
  <2> QED
    BY <1>5, <2>2, MineIsNamed
<1> QED
  BY <1>2, <1>3, <1>4, <1>5, ElemsOfNone

LEMMA InvTypes ==
  ASSUME BaseInv, KeysInv
  PROVE  TypeOK
<1>1. shm \in [key : Objects \union {None}, mem : [Objects -> Settings], sized : SUBSET Objects]
  BY DEF BaseInv, Typed, ShmOK
<1>2. ASSUME NEW i \in Inodes PROVE fs.data[i] = <<>> \/ (Len(fs.data[i]) = 1 /\ Head(fs.data[i]) \in Settings)
  <2>1. fs.data[i] \in Contents
    BY DEF BaseInv, Typed, FsOK
  <2> QED
    BY <2>1 DEF Contents
<1>3. {fs.tmp, fs.path} \subseteq Inodes \union {None}
  BY DEF BaseInv, Typed, FsOK
<1> QED
  BY <1>1, <1>2, <1>3 DEF BaseInv, Typed, KeysInv, Keys, TypeOK

LEMMA InvFile ==
  ASSUME SettingsInv
  PROVE  FileIsSound
<1>1. BaseInv /\ FileInv /\ KeysInv
  BY DEF SettingsInv
<1>2. SettledFileIsCurrent
  <2> SUFFICES ASSUME Settled, OneObject, Never("fault"), Never("early"), shm.key # None
               PROVE  Levels(FileSays) = Levels(S)
    BY DEF SettledFileIsCurrent, S
  <2>1. (\A t \in Threads : pc[t] \notin Acting) /\ Agree /\ Filled
    BY <1>1, SettledIsNamed
  <2>2. ~ Pending /\ (\A t \in Threads : ~ Storing(t)) /\ \A i : ~ Writing(i)
    BY <2>1 DEF Pending, Storing, Writing, Acting
  <2>3. GoodPath
    BY <1>1, <2>1, <2>2 DEF FileInv, WillBeSaved, Named
  <2> QED
    BY <2>2, <2>3 DEF GoodPath, Same
<1>3. TornHeals
  BY <1>1 DEF FileInv, NoneTorn, Torn, Writing, TornHeals
<1> QED
  BY <1>1, <1>2, <1>3, InvTypes DEF FileIsSound

LEMMA InvMixer ==
  ASSUME SettingsInv
  PROVE  MixerFollows
<1>1. BaseInv /\ MixerInv
  BY DEF SettingsInv
<1> SUFFICES ASSUME Settled, OneObject, Never("overlap"), ~ asleep, pc["app"] = "idle"
             PROVE  mixer = IF Hdmied(Now("app")) THEN VOLUME_MAX ELSE GetVolume(Now("app"))
  BY DEF MixerFollows
<1>2. (\A t \in Threads : pc[t] \notin Acting) /\ ~ HostInit /\ Named /\ Now("app") = S
  BY <1>1, SettledIsNamed DEF Threads
<1>3. \A t \in Threads : ~ Redo(t) /\ ~ Fix(t) /\ pc[t] # "second"
  BY <1>2 DEF Redo, Fix, Due, Acting
<1>4. /\ Hdmied(S) => mixer = VOLUME_MAX \/ Redone \/ \E t \in Threads : pc[t] = "second" /\ Call(t) = Hdmi(1)
      /\ ~ Hdmied(S) => mixer = GetVolume(S) \/ HostInit \/ asleep \/ \E t \in Threads : Fix(t)
  BY <1>1, <1>2 DEF MixerInv
<1>5. ~ Redone
  BY <1>2, <1>3 DEF Redone
<1> QED
  BY <1>2, <1>3, <1>4, <1>5

LEMMA InvMissesNothing ==
  ASSUME SettingsInv
  PROVE  NothingMissed
<1>1. BaseInv /\ PortInv /\ DarkInv /\ KeysInv
  BY DEF SettingsInv
<1>2. PortSeen
  <2> SUFFICES ASSUME Settled, OneObject, Never("midInit"), Never("early"), Never("blip"), pc["watch"] = "idle", had = port
               PROVE  port = IF device = "rg35xxplus" THEN Now("watch").hdmi ELSE Now("watch").jack
    BY DEF PortSeen
  <2>1. Agree /\ Now("watch") = S
    BY <1>1, SettledIsNamed DEF Threads
  <2>2. Flag(S) = port
    BY <1>1, <2>1 DEF PortInv
  <2> QED
    BY <2>1, <2>2 DEF Flag
<1>3. DarkOnlyUnderHdmi
  <2> SUFFICES ASSUME Settled, OneObject, Never("unseen"), Never("early"), ~ asleep, pc["app"] = "idle", ~ mon.busy, mon.had = port, ~ lit
               PROVE  Hdmied(Now("app"))
    BY DEF DarkOnlyUnderHdmi
  <2>1. Agree /\ Now("app") = S /\ Elems(todo["app"]) = {}
    BY <1>1, SettledIsNamed DEF Threads
  <2>2. ~ Waking /\ Dark
    BY <2>1 DEF Waking, Dark
  <2>3. Hdmied(S)
    BY <1>1, <2>1, <2>2 DEF DarkInv
  <2> QED
    BY <2>1, <2>3
<1>4. NoStuckKey
  <2> SUFFICES ASSUME events = <<>> PROVE keys.down \subseteq held
    BY DEF NoStuckKey
  <2>1. Touched = {}
    BY DEF Touched
  <2> QED
    BY <1>1, <2>1 DEF KeysInv
<1> QED
  BY <1>2, <1>3, <1>4 DEF NothingMissed

-----------------------------------------------------------------------------
(* The theorems.                                                           *)

\* The invariant holds of keymon's threads, the program, hdmimon and the power.
THEOREM SettingsCorrect == Spec => []SettingsInv
<1>1. Init => SettingsInv
  <2> SUFFICES ASSUME Init PROVE SettingsInv
    OBVIOUS
  <2>1. Booted
    BY InitBoots DEF Booted, Init
  <2> QED
    BY <2>1, BootIsSound
<1>2. SettingsInv /\ [Next]_vars => SettingsInv'
  BY NextKeepsInv
<1> QED
  BY <1>1, <1>2, PTL DEF Spec

\* Whatever the order of the writers' opens, writes and renames of the one temporary
\* file (SaveSettingsCore), once they are done the file has the levels that are shared,
\* no level leaves its range, and an emptied file has a writer that will fill it.
THEOREM LevelsAreSaved == Spec => []FileIsSound
<1>1. SettingsInv => FileIsSound
  BY InvFile
<1> QED
  BY <1>1, SettingsCorrect, PTL

\* Unless setters overlapped, an awake device plays what the settings say for the
\* output in use (SetVolume, SetJack, SetHDMI, PWR_enterSleep, PWR_exitSleep).
THEOREM MixerIsRight == Spec => []MixerFollows
<1>1. SettingsInv => MixerFollows
  BY InvMixer
<1> QED
  BY <1>1, SettingsCorrect, PTL

\* No cable move and no key is missed by keymon's watcher and loop and by hdmimon.sh,
\* whatever starts and naps come between, but for the moves the properties except.
THEOREM CablesAndKeysAreSeen == Spec => []NothingMissed
<1>1. SettingsInv => NothingMissed
  BY InvMissesNothing
<1> QED
  BY <1>1, SettingsCorrect, PTL
=============================================================================
