---------------------------- MODULE ProjectConfig ----------------------------
(***************************************************************************)
(* load_effective_config of rlab-core/src/config/load: the settings every  *)
(* command starts from, read from pyproject.toml, lab.toml and the         *)
(* environment one after the other, while the files may be edited, and the *)
(* paths of the project that ProjectPaths takes from them.                 *)
(*                                                                         *)
(* A file is a layer: a partial function from the settings it may name to  *)
(* their values.  Settings that are treated alike have one name here: runs *)
(* stands for artifacts, executable for runner_module (which pyproject has *)
(* not), params for env, seed for all that only lab.toml can set.          *)
(***************************************************************************)
EXTENDS FiniteSets, FiniteSetsExt, Functions, Naturals, TLC

CONSTANTS Depth,           \* directories 1 .. Depth, each within the one before
          DirName(_),      \* the name of a directory
          PyprojectFiles, LabFiles, Environments, Sources,
          Blank,           \* text that is empty when trimmed
          Outside,         \* a path that is not below the root
          BadBoolean,      \* neither true nor false
          DefaultPath, DefaultExecutable, DefaultCache, NoSeed, NoParams,
          MaxConfigEdits   \* bound on the edits of files

\* The settings that each layer may name; every directory has a name.
ASSUME LayerAssumption ==
  LET Common == {"name", "modules", "runs", "executable", "cache", "strict"}
  IN /\ \A l \in PyprojectFiles : DOMAIN l \subseteq Common \cup {"project"}
     /\ \A l \in LabFiles : DOMAIN l \subseteq Common \cup {"load", "registry_cache", "seed", "params"}
     /\ \A l \in Environments : DOMAIN l \subseteq {"runs", "executable", "cache", "strict"}

ASSUME DirectoryAssumption == Depth \in Nat \ {0} /\ \A d \in 1 .. Depth : DirName(d) # Blank

VARIABLES pyproject, lab,  \* the files of each directory
          git,             \* the directories that hold .git
          sources,         \* the packages and conventional modules of each
          load,            \* the command at work
          configEdits

configVars == <<pyproject, lab, git, sources, load, configEdits>>

Dirs == 1 .. Depth
Absent == [is |-> "absent"]
Broken == [is |-> "broken"]   \* does not parse, or has another schema_version
Whole(layer) == [is |-> "whole", layer |-> layer]

Files(layers) == {Absent, Broken} \cup {Whole(l) : l \in layers}

LayerOf(file) == IF file.is = "whole" THEN file.layer ELSE <<>>

Has(layer, setting) == setting \in DOMAIN layer

-----------------------------------------------------------------------------
(* The layers.                                                             *)

\* The registry cache goes where the cache goes.
InCache(cache) == <<cache, "registry.json">>

\* Mutant: the registry cache stays where it was.
SetCacheOnly(config, cache) == [config EXCEPT !.cache = cache]

SetCachePaths(config, cache) ==
  [config EXCEPT !.cache = cache, !.registry_cache = InCache(cache)]

Defaults(name) ==
  [name |-> name, modules |-> {}, runs |-> DefaultPath, executable |-> DefaultExecutable,
   cache |-> DefaultCache, registry_cache |-> InCache(DefaultCache),
   strict |-> FALSE, seed |-> NoSeed, params |-> NoParams]

\* Settings that a layer replaces as they are.
Apply(config, layer, settings) ==
  [s \in DOMAIN config |-> IF s \in settings /\ Has(layer, s) THEN layer[s] ELSE config[s]]

ApplyCache(config, layer) ==
  IF Has(layer, "cache") THEN SetCachePaths(config, layer.cache) ELSE config

OfPyproject(config, layer) ==
  Apply(ApplyCache(config, layer), layer, {"name", "modules", "runs", "strict", "executable"})

\* modules.load, then python.modules; paths.cache, then paths.registry_cache.
OfLab(config, layer) ==
  LET loaded == IF Has(layer, "load") THEN [config EXCEPT !.modules = layer.load] ELSE config
  IN Apply(ApplyCache(loaded, layer), layer, DOMAIN config \ {"cache"})

OfEnvironment(config, layer) ==
  Apply(ApplyCache(config, layer), layer, {"strict", "executable", "runs"})

InferName(file, dir) ==
  LET layer == LayerOf(file)
      Names(s) == Has(layer, s) /\ layer[s] # Blank
  IN CASE Names("name") -> layer.name
       [] ~Names("name") /\ Names("project") -> layer.project
       [] OTHER -> DirName(dir)

\* Packages and conventional modules of the root, and conventional modules of
\* the package under src that has the name of the project.
InferModules(dir, name) == {s \in sources[dir] : s[1] \in {"root", name}}

-----------------------------------------------------------------------------
(* The command.                                                            *)

Marked(dir) == pyproject[dir] # Absent \/ lab[dir] # Absent \/ dir \in git

\* The nearest directory with a marker, the current one where there is none.
FindRoot(cwd) ==
  IF \E d \in 1 .. cwd : Marked(d) THEN Max({d \in 1 .. cwd : Marked(d)}) ELSE cwd

NoCommand == [pc |-> "idle"]

ConfigInit ==
  /\ pyproject \in [Dirs -> Files(PyprojectFiles)]
  /\ lab \in [Dirs -> Files(LabFiles)]
  /\ git \in SUBSET Dirs
  /\ sources \in [Dirs -> Sources]
  /\ load = NoCommand
  /\ configEdits = 0

Keep == UNCHANGED <<pyproject, lab, git, sources, configEdits>>

\* given is the directory of --root, 0 where there is none.
Begin(cwd, given, environment) ==
  /\ load.pc = "idle"
  /\ load' = [pc |-> "name", cwd |-> cwd, given |-> given, environment |-> environment,
              root |-> IF given # 0 THEN given ELSE FindRoot(cwd),
              config |-> Defaults(Blank), clean |-> TRUE]
  /\ Keep

Continue(pc, config) == load' = [load EXCEPT !.pc = pc, !.config = config]

\* A step that ends the command when ok does not hold.
Step(from, to, ok, config) ==
  /\ load.pc = from
  /\ IF ok THEN Continue(to, config) ELSE load' = [load EXCEPT !.pc = "error"]
  /\ Keep

InferProjectName ==
  Step("name", "pyproject", pyproject[load.root] # Broken,
       Defaults(InferName(pyproject[load.root], load.root)))

ApplyPyproject ==
  Step("pyproject", "lab", pyproject[load.root] # Broken,
       OfPyproject(load.config, LayerOf(pyproject[load.root])))

ApplyLabToml ==
  Step("lab", "environment", lab[load.root] # Broken,
       OfLab(load.config, LayerOf(lab[load.root])))

ApplyEnvironment ==
  Step("environment", "modules",
       ~(Has(load.environment, "strict") /\ load.environment.strict = BadBoolean),
       OfEnvironment(load.config, load.environment))

ApplyInferredModules ==
  Step("modules", "validate", TRUE,
       IF load.config.modules # {} THEN load.config
       ELSE [load.config EXCEPT !.modules = InferModules(load.root, load.config.name)])

ValidateConfig ==
  Step("validate", "loaded",
       load.config.name # Blank /\ load.config.executable # Blank, load.config)

\* Every path is a child of the root; config show does not get here.
ResolvePaths ==
  Step("loaded", "resolved",
       /\ load.config.runs # Outside /\ load.config.cache # Outside
       /\ load.config.registry_cache[1] # Outside,
       load.config)

End ==
  /\ load.pc \in {"loaded", "resolved", "error"}
  /\ load' = NoCommand
  /\ Keep

\* What the files are between commands is up to ConfigInit.
EditConfig ==
  /\ configEdits < MaxConfigEdits /\ load.pc # "idle"
  /\ \/ \E file \in Files(PyprojectFiles) :
          /\ file # pyproject[load.root]
          /\ pyproject' = [pyproject EXCEPT ![load.root] = file]
          /\ UNCHANGED <<lab, git, sources>>
     \/ \E file \in Files(LabFiles) :
          /\ file # lab[load.root]
          /\ lab' = [lab EXCEPT ![load.root] = file]
          /\ UNCHANGED <<pyproject, git, sources>>
     \/ \E s \in Sources :
          /\ s # sources[load.root]
          /\ sources' = [sources EXCEPT ![load.root] = s]
          /\ UNCHANGED <<pyproject, lab, git>>
  /\ configEdits' = configEdits + 1
  /\ load' = [load EXCEPT !.clean = FALSE]

ConfigNext ==
  \/ \E cwd \in Dirs, given \in {0, 1}, environment \in Environments :
       Begin(cwd, given, environment)
  \/ InferProjectName \/ ApplyPyproject \/ ApplyLabToml \/ ApplyEnvironment
  \/ ApplyInferredModules \/ ValidateConfig \/ ResolvePaths
  \/ End
  \/ EditConfig

ConfigSpec == ConfigInit /\ [][ConfigNext]_configVars

-----------------------------------------------------------------------------
(* What the settings mean.                                                 *)

Layers == <<LayerOf(pyproject[load.root]), LayerOf(lab[load.root]), load.environment>>

\* The last of the layers that names a setting, 0 where none does.
LastLayer(setting) == Max({0} \cup {i \in DOMAIN Layers : Has(Layers[i], setting)})

Setting(setting, default) ==
  IF LastLayer(setting) = 0 THEN default ELSE Layers[LastLayer(setting)][setting]

ProjectName == Setting("name", InferName(pyproject[load.root], load.root))

\* A place of its own counts unless a later layer moves the whole cache.
RegistryCachePath ==
  IF Has(Layers[2], "registry_cache") /\ LastLayer("cache") # 3
  THEN Layers[2].registry_cache
  ELSE InCache(Setting("cache", DefaultCache))

NamedModules ==
  CASE Has(Layers[2], "modules") -> Layers[2].modules
    [] ~Has(Layers[2], "modules") /\ Has(Layers[2], "load") -> Layers[2].load
    [] OTHER -> Setting("modules", {})

EffectiveConfig ==
  [name |-> ProjectName,
   modules |-> IF NamedModules = {} THEN InferModules(load.root, ProjectName) ELSE NamedModules,
   runs |-> Setting("runs", DefaultPath), executable |-> Setting("executable", DefaultExecutable),
   cache |-> Setting("cache", DefaultCache), registry_cache |-> RegistryCachePath,
   strict |-> Setting("strict", FALSE), seed |-> Setting("seed", NoSeed),
   params |-> Setting("params", NoParams)]

Unusable ==
  \/ pyproject[load.root] = Broken \/ lab[load.root] = Broken
  \/ Has(load.environment, "strict") /\ load.environment.strict = BadBoolean
  \/ Blank \in {EffectiveConfig.name, EffectiveConfig.executable}

Escapes == Outside \in {EffectiveConfig.runs, EffectiveConfig.cache, RegistryCachePath[1]}

IsRoot(dir) ==
  /\ Marked(dir) \/ dir = load.cwd
  /\ \A d \in 1 .. load.cwd : Marked(d) => d <= dir

(* A command that no edit disturbed works in the nearest root, gives every *)
(* setting the value of the last layer that names it, with the modules and *)
(* the registry cache that follow from the others, and fails exactly when  *)
(* a layer it reads is broken, a text it needs is blank, or a path it      *)
(* resolves lies outside the project.                                      *)
SettingsAreNearest ==
  load.pc \in {"loaded", "resolved", "error"} /\ load.clean =>
    /\ load.root = load.given \/ IsRoot(load.root)
    /\ load.pc = "error" <=> (Unusable \/ (load.pc # "loaded" /\ Escapes))
    /\ load.pc # "error" => load.config = EffectiveConfig
=============================================================================
