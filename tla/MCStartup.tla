----------------------------- MODULE MCStartup -----------------------------
(* A small instance of Startup for TLC. *)
EXTENDS Startup, TLC

Nothing == [s \in {} |-> ""]
\* An install in the Steam root, and the one played, on a second disk.
MainGame == <<"main", "Subnautica2">>
DiskGame == <<"disk", "Subnautica 2">>

SourceParts ==
    {Nothing, [Channel |-> "c"], [Mode |-> "allchat", User |-> "u"],
     [Mode |-> "allchat", OverlayID |-> "o"], [Mode |-> "irc"],
     [Mode |-> "allchat", User |-> "u", OverlayID |-> "o"], [Mode |-> "allchat"],
     [Mode |-> "allchat", User |-> "u", BaseURL |-> " "]}
VoteParts ==
    {Nothing, [Options |-> 1], [Options |-> 9], [Options |-> 10], [Duration |-> 0],
     [Lead |-> -1], [Port |-> 0], [Port |-> 65536], [Enabled |-> FALSE, Port |-> 0]}
PathParts ==
    {Nothing, [GameDir |-> MainGame], [GameDir |-> DiskGame, ModName |-> ""],
     [ModDir |-> <<DiskGame, "Sub2Chaos">>], [UseDiscovery |-> FALSE]}
MCFiles ==
    {s @@ v @@ p : s \in SourceParts, v \in VoteParts, p \in PathParts}
      \cup {None, Broken}
MCFlags ==
    {Nothing, [Mode |-> "twitch", Channel |-> "d"], [User |-> "w"],
     [OverlayID |-> " "], [Mode |-> "", Channel |-> "", User |-> "", Port |-> 0],
     [GameDir |-> DiskGame], [BridgeFile |-> StateIn(<<DiskGame, "Sub2Chaos">>)],
     [Port |-> 9000], [Port |-> -1]}

Event(id, weight) == [id |-> id, label |-> id, weight |-> weight, category |-> ""]
MCCatalogs ==
    {Broken, << >>, <<Event("a", 0), Event("b", 2)>>, <<Event("a", 1), Event("a", 1)>>,
     <<Event("", 1)>>}

\* One game or two, in a Steam root or in a library one lists, or neither.
MCSurroundings ==
    {[steam |-> {"main"}, libraries |-> {"main", "disk"}, lists |-> [r \in {"main"} |-> l],
      installs |-> i, gameDirEnv |-> e, discovery |-> d] :
        l \in {{"main"}, {"main", "disk"}},
        i \in {{}, {MainGame}, {DiskGame}, {MainGame, DiskGame}},
        e \in {None, MainGame, DiskGame},
        d \in {None, <<MainGame, "Sub2Chaos">>, <<DiskGame, "Sub2Chaos">>}}
=============================================================================
