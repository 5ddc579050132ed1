--------------------------- MODULE CantorEngineMC ---------------------------
(***************************************************************************)
(* The staged engine for TLC, in one of three settings: one thread with    *)
(* two backends and files that change between loads; the same with files   *)
(* that also change under a loader, for CODES; and two threads, some with  *)
(* a part of the components only.                                          *)
(***************************************************************************)
EXTENDS CantorEngine

CONSTANT First            (* the thread that works alone                   *)

VARIABLE setting

ASSUME SettingAssumption == EngineAssumption /\ First \in Threads

Careless == INSTANCE CantorEngine WITH ReplaceDuringLoad <- TRUE
Short == INSTANCE CantorEngine WITH Backends <- {"cpu"}, MaxVersion <- 1, Units <- 1

settingVars == <<setting, vars>>

SettingInit == setting \in {"alone", "careless", "threads"} /\ Init

(* A host that works alone has all components.                             *)
WorksAlone ==
  /\ \A t \in Threads \ {First} : ~context'[t].open
  /\ context'[First].paths \in {{}, Roles}

SettingNext ==
  /\ \/ setting = "alone" /\ Next /\ WorksAlone
     \/ setting = "careless" /\ Careless!Next /\ WorksAlone
          /\ call'[First].stage \in {"none", "CODES"}
     \/ setting = "threads" /\ Short!Next
  /\ UNCHANGED setting

SettingSpec == SettingInit /\ [][SettingNext]_settingVars
=============================================================================
