--------------------------- MODULE LakeAttachment ---------------------------
(***************************************************************************)
(* How a process opens the lake (internal/ducklake/ducklake.go): the owner *)
(* duxd creates or attaches it read-write and writes its options, then the *)
(* reader of the queries attaches it read-only and checks them; a command  *)
(* line tool opens the reader only.  One process at a time: duxd has one   *)
(* owner of a lake and the README asks for one.                            *)
(*                                                                         *)
(* The catalog outlives the process.  Every step but the first may be the  *)
(* last: an error closes the runtime, the process dies or is told to stop. *)
(***************************************************************************)
EXTENDS Naturals

CONSTANTS
  Settings,     \* command lines: [owner, path, expire, delete, connections]
  Paths, Durations,
  None,
  MaxStarts     \* bound: processes in a behaviour

ASSUME SettingsAssumption ==
  /\ Settings # {}
  /\ Settings \subseteq [owner : BOOLEAN, path : Paths, expire : Durations, delete : Durations, connections : Nat]
ASSUME AttachmentNoneAssumption == None \notin Paths \cup Durations
ASSUME StartsAssumption == MaxStarts \in Nat

VARIABLES
  catalog,  \* [path, inline, expire, delete], path None when there is no catalog
  process,  \* [stage, cfg, configured], stage "down" when none runs
  starts

attachment == <<catalog, process, starts>>

DefaultMaxConnections == 5
MinMaxConnections == 2

\* Durations of zero are refused too and are not among the settings.
MaxConnections(cfg) == IF cfg.connections = 0 THEN DefaultMaxConnections ELSE cfg.connections

validateConfig(cfg) == cfg.connections = 0 \/ cfg.connections >= MinMaxConnections

Off == [stage |-> "down", cfg |-> CHOOSE cfg \in Settings : TRUE, configured |-> 0]
At(stage) == process' = [process EXCEPT !.stage = stage]

\* "default" is what DuckLake takes until the option is set.
NoCatalog == [path |-> None, inline |-> "default", expire |-> None, delete |-> None]

verifyDataPath(cfg) == catalog.path = cfg.path

verifySettings(cfg) ==
  /\ catalog.inline = "0" /\ catalog.expire = cfg.expire /\ catalog.delete = cfg.delete
  /\ verifyDataPath(cfg)

AttachmentInit == catalog = NoCatalog /\ process = Off /\ starts = 0

\* Until validateConfig and openDuckDB have succeeded nothing has happened.
Launch(cfg) ==
  /\ process.stage = "down" /\ starts < MaxStarts /\ starts' = starts + 1
  /\ validateConfig(cfg)
  /\ process' = [stage |-> IF cfg.owner THEN "pinned" ELSE "owned", cfg |-> cfg, configured |-> 0]
  /\ UNCHANGED catalog

\* A missing catalog is created with the configured data path.
AttachOwner ==
  /\ process.stage = "pinned"
  /\ catalog' = IF catalog.path # None THEN catalog
                ELSE [NoCatalog EXCEPT !.path = process.cfg.path, !.inline = "0"]
  /\ At("attached") /\ UNCHANGED starts

\* Mutant: the path is left to the check of the settings, after they are written.
CheckDataPath_Later == process.stage = "attached" /\ At("configuring") /\ UNCHANGED <<catalog, starts>>
CheckDataPath ==
  /\ process.stage = "attached" /\ verifyDataPath(process.cfg)
  /\ At("configuring") /\ UNCHANGED <<catalog, starts>>

\* Mutant: only options that are not set yet are written.
SetOption_IfUnset ==
  /\ process.stage = "configuring" /\ process.configured < 3
  /\ process' = [process EXCEPT !.configured = @ + 1]
  /\ catalog' = CASE process.configured = 0 -> [catalog EXCEPT !.inline = "0"]
                  [] process.configured = 1 -> [catalog EXCEPT !.expire = IF @ = None THEN process.cfg.expire ELSE @]
                  [] process.configured = 2 -> [catalog EXCEPT !.delete = IF @ = None THEN process.cfg.delete ELSE @]
  /\ UNCHANGED starts
\* Three calls of set_option, each a transaction of its own.
SetOption ==
  /\ process.stage = "configuring" /\ process.configured < 3
  /\ process' = [process EXCEPT !.configured = @ + 1]
  /\ catalog' = CASE process.configured = 0 -> [catalog EXCEPT !.inline = "0"]
                  [] process.configured = 1 -> [catalog EXCEPT !.expire = process.cfg.expire]
                  [] process.configured = 2 -> [catalog EXCEPT !.delete = process.cfg.delete]
  /\ UNCHANGED starts

Owned ==
  /\ process.stage = "configuring" /\ process.configured = 3 /\ verifySettings(process.cfg)
  /\ At("owned") /\ UNCHANGED <<catalog, starts>>

OpenReader ==
  /\ process.stage = "owned" /\ catalog.path # None /\ verifySettings(process.cfg)
  /\ At("serving") /\ UNCHANGED <<catalog, starts>>

Attach == AttachOwner \/ CheckDataPath \/ SetOption \/ Owned \/ OpenReader

Exit == process.stage # "down" /\ process' = Off /\ UNCHANGED <<catalog, starts>>

-----------------------------------------------------------------------------
AttachmentTypeOK ==
  /\ catalog \in [path : Paths \cup {None}, inline : {"default", "0"},
                  expire : Durations \cup {None}, delete : Durations \cup {None}]
  /\ process \in [stage : {"down", "pinned", "attached", "configuring", "owned", "serving"}, cfg : Settings, configured : 0 .. 3]
  /\ starts \in 0 .. MaxStarts

\* A process whose data path is not the lake's leaves its options alone, and
\* nothing changes the path once the catalog exists: a wrong --ducklake-data
\* cannot harm a lake, wherever the start fails or dies.
RefusedLeavesLake ==
  [][catalog.path # None /\ catalog' # catalog =>
       catalog'.path = catalog.path /\ process.cfg.path = catalog.path]_attachment

\* A duxd that has written its options is refused neither by its own check nor by
\* its reader's, whatever mixture of options earlier starts left when they died
\* between two calls of set_option.
ConfiguredPasses == process.cfg.owner /\ process.configured = 3 => verifySettings(process.cfg)
=============================================================================
