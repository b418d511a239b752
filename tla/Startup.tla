------------------------------ MODULE Startup ------------------------------
(***************************************************************************)
(* From config.yaml and flags to a running sidecar: run of                 *)
(* vote-engine/main.go with config.go, catalog.go's Parse, and the search  *)
(* for the game's directory in internal/bridge/paths.go and detect.go.     *)
(*                                                                         *)
(* A setting is a field of a function; config.yaml and the flags are such  *)
(* functions on some of the fields.  A directory of the mod is             *)
(* <<install, name>>, a file [dir, name]; a path that is not set is None.  *)
(***************************************************************************)
EXTENDS Integers, FiniteSets, Sequences

CONSTANTS
    None,
    Broken,       \* a file that cannot be read or parsed
    Files,        \* what config.yaml may be: settings, None if it is not there
    Flags,        \* the flags that may be given
    Catalogs,     \* what events.json may hold: a sequence of events
    Surroundings, \* what the machine may look like, see Detected and Resolve
    Game          \* the install that runs

Default ==
    [Mode |-> "twitch", Channel |-> "", BaseURL |-> "allch.at", User |-> "",
     OverlayID |-> "", Options |-> 4, Duration |-> 30, Cooldown |-> 20, Hold |-> 3,
     Lead |-> 5, Port |-> 8777, Enabled |-> TRUE, BridgeFile |-> None,
     StatusFile |-> None, ModDir |-> None, GameDir |-> None, ModName |-> "Sub2Chaos",
     UseDiscovery |-> TRUE]

\* The settings that have a flag, and what leaves them alone: not giving it, or giving
\* it empty.
Unset ==
    [Mode |-> "", Channel |-> "", BaseURL |-> "", User |-> "", OverlayID |-> "",
     Port |-> 0, BridgeFile |-> None, GameDir |-> None, ModDir |-> None]

Numbers == {"Options", "Duration", "Cooldown", "Hold", "Lead", "Port"}
\* A weight is a real number in the code; only its sign matters.
Events == [id : STRING, label : STRING, weight : Int, category : STRING]

ASSUME StartupAssumption ==
    /\ \A f \in (Files \ {None, Broken}) \cup Flags :
          \A s \in DOMAIN f \cap Numbers : f[s] \in Int
    /\ \A f \in Files \ {None, Broken} : DOMAIN f \subseteq DOMAIN Default
    /\ \A f \in Flags : DOMAIN f \subseteq DOMAIN Unset
    /\ \A c \in Catalogs \ {Broken} : c \in Seq(Events)
    /\ \A w \in Surroundings :
          /\ IsFiniteSet(w.installs)
          /\ w.steam \subseteq w.libraries
          /\ w.lists \in [w.steam -> SUBSET w.libraries]

VARIABLES
    stage,      \* the step of run, "ready" or "failed"
    file, flags, simulate,     \* what the user gave
    cfg,        \* the Config
    catalog,    \* the parsed catalog, or None
    around,     \* the surroundings Resolve found, or None
    paths       \* the state and the status file, or None

vars == <<stage, file, flags, simulate, cfg, catalog, around, paths>>

Init ==
    /\ stage = "load"
    /\ file \in Files /\ flags \in Flags /\ simulate \in BOOLEAN
    /\ cfg = Default /\ catalog = None /\ around = None /\ paths = None

Given == UNCHANGED <<file, flags, simulate>>
Fail == stage' = "failed" /\ Given /\ UNCHANGED <<cfg, catalog, around, paths>>

\* What `part` says goes over what was there.
Over(settings, part) ==
    [s \in DOMAIN settings |-> IF s \in DOMAIN part THEN part[s] ELSE settings[s]]

\* config.Load: YAML over the defaults, or the defaults.
Load ==
    /\ stage = "load"
    /\ \/ file = Broken /\ Fail
       \/ /\ file # Broken /\ stage' = "override"
          /\ cfg' = IF file = None THEN Default ELSE Over(Default, file)
          /\ Given /\ UNCHANGED <<catalog, around, paths>>

\* Mutant: an empty flag overrides too.
OverAnyway(settings, part) == Over(settings, part)

Effective(part) == {s \in DOMAIN part : part[s] # Unset[s]}

OverFlags(settings, part) == Over(settings, [s \in Effective(part) |-> part[s]])

ApplyOverrides ==
    /\ stage = "override" /\ stage' = "validate"
    /\ cfg' = OverFlags(cfg, flags)
    /\ Given /\ UNCHANGED <<catalog, around, paths>>

\* TrimSpace leaves nothing: of the blank texts one stands for all but the empty one.
Blank(text) == text \in {"", " "}

\* Exactly one source is fully specified.
SourceValid(c) ==
    \/ c.Mode = "twitch" /\ ~Blank(c.Channel)
    \/ /\ c.Mode = "allchat" /\ ~Blank(c.BaseURL)
       /\ ~(Blank(c.User) <=> Blank(c.OverlayID))

MaxPort == 65535

Valid(c) ==
    /\ SourceValid(c)
    /\ c.Options \in 2..9 /\ c.Duration > 0 /\ c.Lead >= 0
    /\ c.Enabled => c.Port \in 1..MaxPort

\* A simulation only gets a port.
Validate ==
    /\ stage = "validate"
    /\ \/ ~simulate /\ ~Valid(cfg) /\ Fail
       \/ /\ simulate \/ Valid(cfg)
          /\ stage' = "catalog"
          /\ cfg' = IF simulate /\ cfg.Port <= 0 THEN [cfg EXCEPT !.Port = 8777] ELSE cfg
          /\ Given /\ UNCHANGED <<catalog, around, paths>>

\* catalog.Parse: not empty, ids set and distinct, labels set; other weights than
\* positive ones are 1.
Parsed(c) ==
    IF c = Broken \/ c = << >> THEN None
    ELSE IF \/ \E i \in DOMAIN c : c[i].id = "" \/ c[i].label = ""
            \/ \E i, j \in DOMAIN c : i # j /\ c[i].id = c[j].id
      THEN None
    ELSE [i \in DOMAIN c |-> [c[i] EXCEPT
            !.weight = IF @ <= 0 THEN 1 ELSE @,
            !.category = IF @ = "" THEN "chaos" ELSE @]]

LoadCatalog ==
    /\ stage = "catalog"
    /\ \E c \in Catalogs :
          \/ Parsed(c) = None /\ Fail
          \/ /\ Parsed(c) # None /\ catalog' = Parsed(c)
             /\ stage' = "resolve" /\ Given /\ UNCHANGED <<cfg, around, paths>>

(***************************************************************************)
(* The installs found: a path per library and name, told apart as text.    *)
(* The Steam roots are searched, and the libraries each of them lists.     *)
(***************************************************************************)
Searched(w) == w.steam \cup UNION {w.lists[r] : r \in w.steam}

Detected(w) == {i \in w.installs : i[1] \in Searched(w)}

\* Mutant: the first of several installs is taken.
AnyDetected(w) ==
    IF Detected(w) = {} THEN None ELSE CHOOSE i \in Detected(w) : TRUE

AutoDetect(w) ==
    IF Cardinality(Detected(w)) = 1 THEN CHOOSE i \in Detected(w) : TRUE ELSE None

ModName == IF cfg.ModName = "" THEN "Sub2Chaos" ELSE cfg.ModName

StateIn(dir) == [dir |-> dir, name |-> "chaos_state.json"]
InInstall(install) == IF install = None THEN None ELSE StateIn(<<install, ModName>>)
InModDir(dir) == IF dir = None THEN None ELSE StateIn(dir)

\* The places for the state file, in the order of Resolve.
Places(w) ==
    << cfg.BridgeFile, InModDir(cfg.ModDir), InInstall(cfg.GameDir),
       InInstall(w.gameDirEnv), InModDir(IF cfg.UseDiscovery THEN w.discovery ELSE None),
       InInstall(AutoDetect(w)) >>

StatusBeside(state) == [dir |-> state.dir, name |-> "chaos_status.json"]

BothFiles(state) ==
    [state  |-> state,
     status |-> IF cfg.StatusFile # None THEN cfg.StatusFile ELSE StatusBeside(state)]

Resolve ==
    /\ stage = "resolve"
    /\ \E w \in Surroundings :
          LET given == {i \in DOMAIN Places(w) : Places(w)[i] # None}
          IN  \/ given = {} /\ Fail
              \/ \E i \in given :
                    /\ \A j \in given : i <= j
                    /\ stage' = "ready" /\ around' = w /\ paths' = BothFiles(Places(w)[i])
                    /\ Given /\ UNCHANGED <<cfg, catalog>>

Next == Load \/ ApplyOverrides \/ Validate \/ LoadCatalog \/ Resolve

Spec == Init /\ [][Next]_vars

-----------------------------------------------------------------------------
\* What the user asked for: a flag that says something, or config.yaml, or neither.
Asked(s) ==
    IF s \in DOMAIN flags /\ flags[s] # Unset[s] THEN flags[s]
    ELSE IF file # None /\ s \in DOMAIN file THEN file[s]
    ELSE Default[s]

\* It is in force, but for a port that no simulation can take.
InForce(s) ==
    \/ cfg[s] = Asked(s)
    \/ simulate /\ s = "Port" /\ Asked(s) <= 0 /\ cfg[s] = 8777

\* The address has all its parts: for all-chat a base and one identity, not two.  (That
\* the base has a scheme BuildAllChatURL knows is only found out when chat starts.)
SourceComplete ==
    \/ cfg.Mode = "twitch" /\ ~Blank(cfg.Channel)
    \/ /\ cfg.Mode = "allchat" /\ ~Blank(cfg.BaseURL)
       /\ \/ ~Blank(cfg.User) /\ Blank(cfg.OverlayID)
          \/ ~Blank(cfg.OverlayID) /\ Blank(cfg.User)

\* What the machine and the picker take for granted holds when they start: every
\* setting is what the flags, config.yaml and the defaults ask for, in this order, an
\* empty flag asking for nothing; of these settings, and not of those before the
\* flags, the one source chosen is complete, the port one that can be bound, the
\* heads-up not negative; every event has an id of its own and a positive weight.
\* A simulation is not validated.
ReadyIsSound ==
    stage = "ready" =>
      /\ \A s \in DOMAIN Default : InForce(s)
      /\ \A i, j \in DOMAIN catalog :
            catalog[i].weight > 0 /\ (catalog[i].id = catalog[j].id => i = j)
      /\ ~simulate =>
            /\ SourceComplete
            /\ cfg.Options \in 2..9 /\ cfg.Duration > 0 /\ cfg.Lead \in Nat
            /\ cfg.Enabled => cfg.Port \in 1..MaxPort

\* The mod's files are at a fixed place under the game it runs in (config.lua).
ModFile(name) == [dir |-> <<Game, "Sub2Chaos">>, name |-> name]

\* What the user, the environment and a discovery file say of the place: a state
\* file, directories of the mod, and installs.
HintedFiles == {cfg.BridgeFile} \ {None}
HintedDirs(w) == {cfg.ModDir, IF cfg.UseDiscovery THEN w.discovery ELSE None} \ {None}
HintedGames(w) == {cfg.GameDir, w.gameDirEnv} \ {None}

AllTrue(w) ==
    /\ HintedFiles \subseteq {ModFile("chaos_state.json")}
    /\ HintedDirs(w) \subseteq {<<Game, "Sub2Chaos">>}
    /\ HintedGames(w) \subseteq {Game}

NoneSaid(w) == HintedFiles = {} /\ HintedDirs(w) = {} /\ HintedGames(w) = {}

\* The sidecar and the mod use the same two files whenever what was said of the
\* place is true, whichever hint wins; and if nothing was said and the game can be
\* detected, because the sidecar does not start when there is a second one.
BothMeet ==
    /\ stage = "ready" /\ cfg.ModName \in {"", "Sub2Chaos"} /\ cfg.StatusFile = None
    /\ AllTrue(around)
    /\ NoneSaid(around) => Game \in Detected(around)
    => paths = [state  |-> ModFile("chaos_state.json"),
                status |-> ModFile("chaos_status.json")]
=============================================================================
