---------------------------- MODULE StartupProofs ----------------------------
(***************************************************************************)
(* Proofs about start-up, for any configuration files, flags, catalogs and *)
(* surroundings, and any number of installs in any number of libraries.    *)
(***************************************************************************)
EXTENDS Startup, FiniteSetTheorems, TLAPS

(***************************************************************************)
(* What each step of run has established for the ones behind it.           *)
(***************************************************************************)
Loaded ==
    \A s \in DOMAIN Default :
        cfg[s] = IF file # None /\ s \in DOMAIN file THEN file[s] ELSE Default[s]

Overridden == \A s \in DOMAIN Default : cfg[s] = Asked(s)

Validated == (\A s \in DOMAIN Default : InForce(s)) /\ (~simulate => Valid(cfg))

CatalogSound ==
    \A i, j \in DOMAIN catalog :
        catalog[i].weight > 0 /\ (catalog[i].id = catalog[j].id => i = j)

\* The place whose files are used: no earlier one was given.
Used(i) ==
    /\ i \in 1..6 /\ Places(around)[i] # None
    /\ \A j \in 1..i-1 : Places(around)[j] = None
    /\ paths = BothFiles(Places(around)[i])

TypeOK ==
    /\ stage \in {"load", "override", "validate", "catalog", "resolve", "ready", "failed"}
    /\ file \in Files /\ flags \in Flags /\ simulate \in BOOLEAN
    /\ DOMAIN cfg = DOMAIN Default /\ cfg["Lead"] \in Int /\ cfg["Port"] \in Int

IInv ==
    /\ TypeOK
    /\ stage = "override" => Loaded
    /\ stage = "validate" => Overridden
    /\ stage \in {"catalog", "resolve", "ready"} => Validated
    /\ stage \in {"resolve", "ready"} => CatalogSound
    /\ stage = "ready" => around \in Surroundings /\ \E i \in 1..6 : Used(i)

(***************************************************************************)
(* The operators.                                                          *)
(***************************************************************************)
LEMMA DefaultType ==
    /\ "Lead" \in DOMAIN Default /\ "Port" \in DOMAIN Default
    /\ Default["Lead"] \in Int /\ Default["Port"] \in Int
    /\ DOMAIN Unset \subseteq DOMAIN Default
BY DEF Default, Unset

\* What a part says holds, and the rest stays.
LEMMA OverForms ==
    ASSUME NEW settings, NEW part, DOMAIN settings = DOMAIN Default,
           settings["Lead"] \in Int, settings["Port"] \in Int,
           \A s \in DOMAIN part \cap Numbers : part[s] \in Int
    PROVE  /\ DOMAIN Over(settings, part) = DOMAIN Default
           /\ Over(settings, part)["Lead"] \in Int /\ Over(settings, part)["Port"] \in Int
           /\ \A s \in DOMAIN Default :
                 Over(settings, part)[s] = IF s \in DOMAIN part THEN part[s]
                                                                ELSE settings[s]
<1>1. "Lead" \in Numbers /\ "Port" \in Numbers
  BY DEF Numbers
<1>2. \A s \in DOMAIN Default :
          Over(settings, part)[s] = IF s \in DOMAIN part THEN part[s] ELSE settings[s]
  BY DEF Over
<1>3. Over(settings, part)["Lead"] \in Int /\ Over(settings, part)["Port"] \in Int
  BY <1>1, <1>2, DefaultType
<1> QED BY <1>2, <1>3 DEF Over

\* Of the flags only those that are given and not empty go over the settings.
LEMMA OverFlagsForms ==
    ASSUME NEW settings, NEW part, DOMAIN settings = DOMAIN Default,
           settings["Lead"] \in Int, settings["Port"] \in Int,
           \A s \in DOMAIN part \cap Numbers : part[s] \in Int
    PROVE  /\ DOMAIN OverFlags(settings, part) = DOMAIN Default
           /\ OverFlags(settings, part)["Lead"] \in Int
           /\ OverFlags(settings, part)["Port"] \in Int
           /\ \A s \in DOMAIN Default :
                 OverFlags(settings, part)[s] =
                     IF s \in DOMAIN part /\ part[s] # Unset[s] THEN part[s]
                                                                ELSE settings[s]
<1> DEFINE some == [s \in Effective(part) |-> part[s]]
<1>1. OverFlags(settings, part) = Over(settings, some)
  BY DEF OverFlags
<1>2. DOMAIN some = Effective(part) /\ \A s \in DOMAIN some : some[s] = part[s]
  OBVIOUS
<1>3. \A s : s \in DOMAIN some <=> s \in DOMAIN part /\ part[s] # Unset[s]
  BY DEF Effective
<1> HIDE DEF some
<1>4. \A s \in DOMAIN some \cap Numbers : some[s] \in Int
  BY <1>2, <1>3
<1> QED BY <1>1, <1>2, <1>3, <1>4, OverForms

\* What was found out about a configuration is true as long as it stays.
LEMMA AskedSame ==
    ASSUME UNCHANGED <<file, flags>>, NEW s
    PROVE  Asked(s)' = Asked(s)
BY DEF Asked

LEMMA ValidatedSame ==
    ASSUME Validated, UNCHANGED <<file, flags, simulate, cfg>>
    PROVE  Validated'
<1>1. \A s \in DOMAIN Default : InForce(s)'
  BY AskedSame DEF Validated, InForce
<1>2. Valid(cfg) => Valid(cfg')
  OBVIOUS
<1> QED BY <1>1, <1>2 DEF Validated

LEMMA ValidForms ==
    ASSUME NEW c, Valid(c)
    PROVE  /\ SourceValid(c) /\ c.Options \in 2..9 /\ c.Duration > 0 /\ c.Lead >= 0
           /\ c.Enabled => c.Port \in 1..MaxPort
BY DEF Valid

LEMMA UsedSame ==
    ASSUME NEW i, Used(i), UNCHANGED <<cfg, around, paths>>
    PROVE  Used(i)'
<1>1. UNCHANGED Places(around) /\ UNCHANGED BothFiles(Places(around)[i])
  BY DEF Places, InModDir, InInstall, ModName, BothFiles
<1> QED BY <1>1 DEF Used

\* A catalog that parses has distinct ids and positive weights.
LEMMA ParsedSound ==
    ASSUME NEW c \in Catalogs, Parsed(c) # None,
           NEW i \in DOMAIN Parsed(c), NEW j \in DOMAIN Parsed(c)
    PROVE  /\ Parsed(c)[i].weight > 0
           /\ Parsed(c)[i].id = Parsed(c)[j].id => i = j
<1> DEFINE Bad == \/ \E k \in DOMAIN c : c[k].id = "" \/ c[k].label = ""
                  \/ \E k, l \in DOMAIN c : k # l /\ c[k].id = c[l].id
           Good == [k \in DOMAIN c |-> [c[k] EXCEPT
                       !.weight = IF @ <= 0 THEN 1 ELSE @,
                       !.category = IF @ = "" THEN "chaos" ELSE @]]
<1>1. c # Broken /\ ~Bad /\ Parsed(c) = Good
  BY DEF Parsed
<1>2. c \in Seq(Events)
  BY <1>1, StartupAssumption
<1>3. i \in DOMAIN c /\ j \in DOMAIN c
  BY <1>1
<1>4. c[i] \in Events /\ c[j] \in Events
  BY <1>2, <1>3
<1>5. Good[i] = [c[i] EXCEPT !.weight = IF @ <= 0 THEN 1 ELSE @,
                             !.category = IF @ = "" THEN "chaos" ELSE @]
  BY <1>3
<1>6. Good[j] = [c[j] EXCEPT !.weight = IF @ <= 0 THEN 1 ELSE @,
                             !.category = IF @ = "" THEN "chaos" ELSE @]
  BY <1>3
<1>7. ASSUME NEW e \in Events
      PROVE  LET g == [e EXCEPT !.weight = IF @ <= 0 THEN 1 ELSE @,
                                !.category = IF @ = "" THEN "chaos" ELSE @]
             IN  g.weight > 0 /\ g.id = e.id
  BY DEF Events
<1>8. Good[i].weight > 0 /\ Good[i].id = c[i].id /\ Good[j].id = c[j].id
  BY <1>4, <1>5, <1>6, <1>7
<1> HIDE DEF Good, Bad
<1> QED BY <1>1, <1>3, <1>8 DEF Bad

(***************************************************************************)
(* Every step keeps the invariant.                                         *)
(***************************************************************************)
LEMMA InitIInv == Init => IInv
BY DefaultType DEF Init, IInv, TypeOK

LEMMA LoadIInv == IInv /\ Load => IInv'
<1> SUFFICES ASSUME IInv, Load PROVE IInv'
  OBVIOUS
<1>1. TypeOK
  BY DEF IInv
<1>2. UNCHANGED <<file, flags, simulate>>
  BY DEF Load, Fail, Given
<1>3. CASE stage' = "failed" /\ cfg' = cfg
  BY <1>1, <1>2, <1>3 DEF IInv, TypeOK
<1>4. CASE stage' = "override" /\ file # Broken
           /\ cfg' = IF file = None THEN Default ELSE Over(Default, file)
  <2>1. file # None => /\ DOMAIN file \subseteq DOMAIN Default
                       /\ \A s \in DOMAIN file \cap Numbers : file[s] \in Int
    BY <1>1, <1>4, StartupAssumption DEF TypeOK
  <2>2. DOMAIN cfg' = DOMAIN Default /\ cfg'["Lead"] \in Int /\ cfg'["Port"] \in Int
    BY <1>4, <2>1, DefaultType, OverForms
  <2>3. Loaded'
    <3>1. CASE file = None
      BY <1>2, <1>4, <3>1 DEF Loaded
    <3>2. CASE file # None
      BY <1>2, <1>4, <2>1, <3>2, DefaultType, OverForms DEF Loaded
    <3> QED BY <3>1, <3>2
  <2> QED BY <1>1, <1>2, <1>4, <2>2, <2>3 DEF IInv, TypeOK
<1> QED BY <1>3, <1>4 DEF Load, Fail

LEMMA OverridesIInv == IInv /\ ApplyOverrides => IInv'
<1> SUFFICES ASSUME IInv, ApplyOverrides PROVE IInv'
  OBVIOUS
<1>1. TypeOK /\ Loaded
  BY DEF IInv, ApplyOverrides
<1>2. /\ UNCHANGED <<file, flags, simulate>> /\ stage' = "validate"
      /\ cfg' = OverFlags(cfg, flags)
  BY DEF ApplyOverrides, Given
<1>3. \A s \in DOMAIN flags \cap Numbers : flags[s] \in Int
  BY <1>1, StartupAssumption DEF TypeOK
<1>4. /\ DOMAIN cfg' = DOMAIN Default /\ cfg'["Lead"] \in Int /\ cfg'["Port"] \in Int
      /\ \A s \in DOMAIN Default :
            cfg'[s] = IF s \in DOMAIN flags /\ flags[s] # Unset[s] THEN flags[s]
                                                                  ELSE cfg[s]
  BY <1>1, <1>2, <1>3, OverFlagsForms DEF TypeOK
<1>5. \A s \in DOMAIN Default : cfg'[s] = Asked(s)
  BY <1>1, <1>4 DEF Loaded, Asked
<1>6. Overridden'
  BY <1>2, <1>5, AskedSame DEF Overridden
<1> QED BY <1>1, <1>2, <1>4, <1>6 DEF IInv, TypeOK

LEMMA ValidateIInv == IInv /\ Validate => IInv'
<1> SUFFICES ASSUME IInv, Validate PROVE IInv'
  OBVIOUS
<1>1. TypeOK /\ Overridden
  BY DEF IInv, Validate
<1>2. UNCHANGED <<file, flags, simulate>>
  BY DEF Validate, Fail, Given
<1>3. CASE stage' = "failed" /\ cfg' = cfg
  BY <1>1, <1>2, <1>3 DEF IInv, TypeOK
<1>4. CASE stage' = "catalog" /\ (simulate \/ Valid(cfg)) /\ cfg' = cfg
  <2>1. Validated
    BY <1>1, <1>4 DEF Overridden, InForce, Validated
  <2>2. Validated'
    BY <1>2, <1>4, <2>1, ValidatedSame
  <2> QED BY <1>1, <1>2, <1>4, <2>2 DEF IInv, TypeOK
<1>5. CASE /\ stage' = "catalog" /\ simulate /\ cfg.Port <= 0
           /\ cfg' = [cfg EXCEPT !.Port = 8777]
  <2>1. /\ DOMAIN cfg' = DOMAIN Default /\ cfg'["Port"] = 8777
        /\ \A s \in DOMAIN Default : s # "Port" => cfg'[s] = cfg[s]
    BY <1>1, <1>5, DefaultType DEF TypeOK
  <2>2. ASSUME NEW s \in DOMAIN Default PROVE InForce(s)'
    BY <1>1, <1>2, <1>5, <2>1, AskedSame, DefaultType DEF InForce, Overridden
  <2>3. Validated'
    BY <1>2, <1>5, <2>2 DEF Validated
  <2>4. cfg'["Lead"] \in Int
    BY <1>1, <2>1, DefaultType DEF TypeOK
  <2> QED BY <1>1, <1>2, <1>5, <2>1, <2>3, <2>4 DEF IInv, TypeOK
<1> QED BY <1>3, <1>4, <1>5 DEF Validate, Fail

LEMMA CatalogIInv == IInv /\ LoadCatalog => IInv'
<1> SUFFICES ASSUME IInv, LoadCatalog PROVE IInv'
  OBVIOUS
<1>1. TypeOK /\ Validated
  BY DEF IInv, LoadCatalog
<1>2. UNCHANGED <<file, flags, simulate, cfg>>
  BY DEF LoadCatalog, Fail, Given
<1>3. Validated'
  BY <1>1, <1>2, ValidatedSame
<1>4. CASE stage' = "failed"
  BY <1>1, <1>2, <1>4 DEF IInv, TypeOK
<1>5. CASE stage' = "resolve" /\ \E c \in Catalogs : Parsed(c) # None /\ catalog' = Parsed(c)
  <2>1. CatalogSound'
    BY <1>5, ParsedSound DEF CatalogSound
  <2> QED BY <1>1, <1>2, <1>3, <1>5, <2>1 DEF IInv, TypeOK
<1> QED BY <1>4, <1>5 DEF LoadCatalog, Fail

LEMMA ResolveIInv == IInv /\ Resolve => IInv'
<1> SUFFICES ASSUME IInv, Resolve PROVE IInv'
  OBVIOUS
<1>1. TypeOK /\ Validated /\ CatalogSound
  BY DEF IInv, Resolve
<1>2. UNCHANGED <<file, flags, simulate, cfg, catalog>>
  BY DEF Resolve, Fail, Given
<1>3. Validated' /\ CatalogSound'
  BY <1>1, <1>2, ValidatedSame DEF CatalogSound
<1>4. CASE stage' = "failed"
  BY <1>1, <1>2, <1>4 DEF IInv, TypeOK
<1>5. ASSUME NEW w \in Surroundings, NEW i \in DOMAIN Places(w), Places(w)[i] # None,
             \A j \in DOMAIN Places(w) : Places(w)[j] # None => i <= j,
             stage' = "ready", around' = w, paths' = BothFiles(Places(w)[i])
      PROVE  IInv'
  <2>1. DOMAIN Places(w) = 1..6
    BY DEF Places
  <2>2. Places(around)' = Places(w) /\ BothFiles(Places(w)[i])' = BothFiles(Places(w)[i])
    BY <1>2, <1>5 DEF Places, InModDir, InInstall, ModName, BothFiles
  <2>3. i \in 1..6 /\ \A j \in 1..i-1 : Places(w)[j] = None
    BY <1>5, <2>1
  <2>4. Used(i)'
    BY <1>5, <2>2, <2>3 DEF Used
  <2>5. \E k \in 1..6 : Used(k)'
    BY <2>3, <2>4
  <2> QED BY <1>1, <1>2, <1>3, <1>5, <2>5 DEF IInv, TypeOK
<1> QED BY <1>4, <1>5 DEF Resolve, Fail

LEMMA NextIInv == IInv /\ [Next]_vars => IInv'
<1>1. IInv /\ UNCHANGED vars => IInv'
  <2> SUFFICES ASSUME IInv, UNCHANGED vars PROVE IInv'
    OBVIOUS
  <2>1. UNCHANGED <<stage, file, flags, simulate, cfg, catalog, around, paths>>
    BY DEF vars
  <2>2. /\ TypeOK' /\ (Loaded => Loaded') /\ (CatalogSound => CatalogSound')
        /\ (Overridden => Overridden')
    BY <2>1, AskedSame DEF IInv, TypeOK, Loaded, Overridden, CatalogSound
  <2>3. Validated => Validated'
    BY <2>1, ValidatedSame
  <2>4. \A i \in 1..6 : Used(i) => Used(i)'
    BY <2>1, UsedSame
  <2> QED BY <2>1, <2>2, <2>3, <2>4 DEF IInv
<1> QED BY <1>1, LoadIInv, OverridesIInv, ValidateIInv, CatalogIInv, ResolveIInv DEF Next

LEMMA Invariance == Spec => []IInv
BY InitIInv, NextIInv, PTL DEF Spec

(***************************************************************************)
(* The theorems.                                                           *)
(***************************************************************************)

\* The types of run's variables: the configuration keeps its fields, and its
\* heads-up and its port are numbers (main.go, config.go).
THEOREM TypeCorrect == Spec => []TypeOK
<1>1. IInv => TypeOK
  BY DEF IInv
<1> QED BY <1>1, Invariance, PTL

\* What reaches the ready line of main.go is sound, whatever config.yaml, the flags
\* and events.json hold: a flag that says something is in force and an empty one
\* changes nothing (applyOverrides), and what Validate and Parse have looked at is what
\* the source, the machine and the picker get.
THEOREM NothingUnsoundStarts == Spec => []ReadyIsSound
<1>1. IInv => ReadyIsSound
  <2> SUFFICES ASSUME IInv, stage = "ready" PROVE ReadyIsSound
    BY DEF ReadyIsSound
  <2>1. Validated /\ CatalogSound /\ cfg["Lead"] \in Int
    BY DEF IInv, TypeOK
  <2>2. ASSUME ~simulate
        PROVE  /\ SourceComplete
               /\ cfg.Options \in 2..9 /\ cfg.Duration > 0 /\ cfg.Lead \in Nat
               /\ cfg.Enabled => cfg.Port \in 1..MaxPort
    <3>1. /\ SourceValid(cfg) /\ cfg.Options \in 2..9 /\ cfg.Duration > 0 /\ cfg.Lead >= 0
          /\ cfg.Enabled => cfg.Port \in 1..MaxPort
      BY <2>1, <2>2, ValidForms DEF Validated
    <3>2. cfg.Lead \in Nat
      BY <2>1, <3>1
    <3>3. SourceComplete
      BY <3>1 DEF SourceValid, SourceComplete, Blank
    <3> QED BY <3>1, <3>2, <3>3
  <2> QED BY <2>1, <2>2 DEF Validated, CatalogSound, ReadyIsSound
<1> QED BY <1>1, Invariance, PTL

\* A path that is not set is no file.
NoneIsNoFile == \A dir : StateIn(dir) # None

\* If there is a single install, that is the one detected.
LEMMA OneIsDetected ==
    ASSUME NEW w \in Surroundings, NEW g \in Detected(w), AutoDetect(w) # None
    PROVE  AutoDetect(w) = g
<1>1. IsFiniteSet(Detected(w))
  <2>1. IsFiniteSet(w.installs)
    BY StartupAssumption
  <2>2. Detected(w) \subseteq w.installs
    BY DEF Detected
  <2> QED BY <2>1, <2>2, FS_Subset
<1>2. Cardinality(Detected(w)) = 1 /\ AutoDetect(w) = CHOOSE i \in Detected(w) : TRUE
  BY DEF AutoDetect
<1>3. PICK i : Detected(w) = {i}
  BY <1>1, <1>2, FS_Singleton
<1> QED BY <1>2, <1>3

\* Whichever place is used, it is the mod's, if all that was said is true.
LEMMA TruePlace ==
    ASSUME NoneIsNoFile, TypeOK, around \in Surroundings, NEW i, Used(i),
           ModName = "Sub2Chaos", AllTrue(around),
           NoneSaid(around) => Game \in Detected(around)
    PROVE  Places(around)[i] = ModFile("chaos_state.json")
<1> DEFINE found == IF cfg.UseDiscovery THEN around.discovery ELSE None
<1>1. /\ cfg.BridgeFile # None => cfg.BridgeFile = ModFile("chaos_state.json")
      /\ cfg.ModDir # None => cfg.ModDir = <<Game, "Sub2Chaos">>
      /\ found # None => found = <<Game, "Sub2Chaos">>
      /\ cfg.GameDir # None => cfg.GameDir = Game
      /\ around.gameDirEnv # None => around.gameDirEnv = Game
  BY DEF AllTrue, HintedFiles, HintedDirs, HintedGames
<1>2. /\ Places(around)[1] = cfg.BridgeFile
      /\ Places(around)[2] = InModDir(cfg.ModDir)
      /\ Places(around)[3] = InInstall(cfg.GameDir)
      /\ Places(around)[4] = InInstall(around.gameDirEnv)
      /\ Places(around)[5] = InModDir(found)
      /\ Places(around)[6] = InInstall(AutoDetect(around))
  BY DEF Places
<1> HIDE DEF found
<1>3. ASSUME NEW dir
      PROVE  /\ InModDir(dir) = None <=> dir = None
             /\ InInstall(dir) = None <=> dir = None
             /\ dir = <<Game, "Sub2Chaos">> /\ dir # None
                  => InModDir(dir) = ModFile("chaos_state.json")
             /\ dir = Game /\ dir # None
                  => InInstall(dir) = ModFile("chaos_state.json")
  BY DEF NoneIsNoFile, InModDir, InInstall, StateIn, ModFile
<1>4. i \in 1..6 /\ Places(around)[i] # None
  BY DEF Used
<1>5. CASE i \in 1..5
  <2>1. i = 1 \/ i = 2 \/ i = 3 \/ i = 4 \/ i = 5
    BY <1>5
  <2> QED BY <1>1, <1>2, <1>3, <1>4, <2>1
<1>6. CASE i = 6
  <2>1. \A j \in 1..5 : Places(around)[j] = None
    BY <1>6 DEF Used
  <2>2. /\ cfg.BridgeFile = None /\ cfg.ModDir = None /\ cfg.GameDir = None
        /\ around.gameDirEnv = None /\ found = None
    BY <1>2, <1>3, <2>1
  <2>3. NoneSaid(around)
    BY <2>2 DEF NoneSaid, HintedFiles, HintedDirs, HintedGames, found
  <2>4. AutoDetect(around) # None
    BY <1>2, <1>3, <1>4, <1>6
  <2>5. AutoDetect(around) = Game
    BY <2>3, <2>4, OneIsDetected
  <2> QED BY <1>2, <1>3, <1>6, <2>4, <2>5
<1> QED
  <2>1. i \in 1..5 \/ i = 6
    BY <1>4
  <2> QED BY <1>5, <1>6, <2>1

\* Sidecar and mod use the same two files, whichever of the hints of paths.go wins,
\* if those are true; and without a hint, because autoDetectGameDir takes no install
\* when it finds several.
THEOREM FilesMeet == NoneIsNoFile => (Spec => []BothMeet)
<1> SUFFICES ASSUME NoneIsNoFile PROVE Spec => []BothMeet
  OBVIOUS
<1>1. IInv => BothMeet
  <2> SUFFICES ASSUME IInv, stage = "ready",
                      cfg.ModName \in {"", "Sub2Chaos"}, cfg.StatusFile = None,
                      AllTrue(around), NoneSaid(around) => Game \in Detected(around)
               PROVE  paths = [state  |-> ModFile("chaos_state.json"),
                               status |-> ModFile("chaos_status.json")]
    BY DEF BothMeet
  <2>1. TypeOK /\ around \in Surroundings
    BY DEF IInv
  <2>2. PICK i \in 1..6 : Used(i)
    BY DEF IInv
  <2>3. ModName = "Sub2Chaos"
    BY DEF ModName
  <2>4. Places(around)[i] = ModFile("chaos_state.json")
    BY <2>1, <2>2, <2>3, TruePlace
  <2>5. paths = [state |-> ModFile("chaos_state.json"),
                 status |-> StatusBeside(ModFile("chaos_state.json"))]
    BY <2>2, <2>4 DEF Used, BothFiles
  <2> QED BY <2>5 DEF StatusBeside, ModFile
<1> QED BY <1>1, Invariance, PTL
=============================================================================
