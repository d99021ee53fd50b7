----------------------------- MODULE MCLauncher -----------------------------
(***************************************************************************)
(* A small card for Launcher, with two rows to a screen.                   *)
(***************************************************************************)
EXTENDS Launcher

Plain(e, kind, path) ==
    [type |-> kind, letter |-> 0, list |-> <<>>, auto |-> "none", game |-> e,
     disc |-> e, path |-> path, file |-> e, system |-> None, emu |-> TRUE]
Folder(e, path, list) ==
    [Plain(e, "dir", path) EXCEPT !.list = list]
System(e, name, list) == [Folder(e, <<e>>, list) EXCEPT !.system = name]
Disc(e, console, dir, game) ==
    [Plain(e, "rom", <<console, dir, e>>) EXCEPT !.game = game]

Collection(e, list) == Folder(e, <<"collections", e>>, list)

(* A console collated from three folders, one of them without an emulator; *)
(* in it a folder that starts a game and one whose m3u lists a missing     *)
(* first disc; collections of three games and of one tool.                 *)
Card ==
    [e \in {"recents", "collections", "tools", "clock", "gb", "gbc", "gbx",
            "auto", "auto.m3u", "dead", "dead.m3u", "d1", "d2", "r2", "c1",
            "c2"} |->
     CASE e \in {"recents", "collections"} -> Folder(e, <<e>>, <<>>)
       [] e = "tools" -> Folder(e, <<e>>, <<"clock">>)
       [] e = "clock" -> Plain(e, "pak", <<"tools", e>>)
       [] e = "gb" -> System(e, "gb", <<"auto", "dead", "r2">>)
       [] e \in {"gbc", "gbx"} -> System(e, "gb", <<>>)
       [] e = "auto" -> [Folder(e, <<"gbc", e>>, <<"auto.m3u">>) EXCEPT
                            !.auto = "run", !.game = "auto.m3u",
                            !.disc = "auto.m3u", !.letter = 1]
       [] e = "auto.m3u" -> Disc(e, "gbc", "auto", e)
       [] e = "dead" -> [Folder(e, <<"gb", e>>, <<"d2", "dead.m3u">>) EXCEPT
                            !.auto = "dead", !.game = "dead.m3u", !.letter = 2]
       [] e = "dead.m3u" -> [Disc(e, "gb", "dead", e) EXCEPT !.disc = "d1"]
       [] e \in {"d1", "d2"} -> Disc(e, "gb", "dead", "dead.m3u")
       [] e = "r2" -> [Plain(e, "rom", <<"gbx", e>>) EXCEPT !.letter = 3,
                                                       !.emu = FALSE]
       [] e = "c1" -> Collection(e, <<"dead.m3u", "d2", "auto.m3u">>)
       [] e = "c2" -> Collection(e, <<"clock">>)]
Consoles == <<"gb">>
Two == <<"c1", "c2">>
ToolsFolder == <<"tools">>
AnyInt == {7}
CardEntries == DOMAIN Card
=============================================================================
