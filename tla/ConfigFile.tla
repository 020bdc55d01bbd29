------------------------------ MODULE ConfigFile ------------------------------
(***************************************************************************)
(* The configuration file on the flash file system: what Save leaves in it *)
(* step by step, and what Load makes of it after a restart.                *)
(*                                                                         *)
(* A configuration is the Wi-Fi network to join (SSID and password) and    *)
(* the time zone (both names and offsets).  The text of the file is        *)
(* abstracted to whether it is a whole JSON object and whether it is       *)
(* longer than Load accepts.                                               *)
(*                                                                         *)
(* Source: shared/config_file.cpp, and load_config and save_config of      *)
(* weather_station_base/weather_station_base_class.cpp.                    *)
(***************************************************************************)

CONSTANTS
    Creds,         \* pairs of SSID and password
    BigCreds,      \* those whose file is longer than the 1024 bytes of Load
    DefaultCred,   \* k_default_host_ssid, k_default_host_password
    Zones,         \* standard and daylight rules, with non-empty names
    DefaultZone,   \* k_default_tz_std_name and the other defaults
    NoZone,        \* a file with an empty or missing zone name
    Absent,        \* there is no file
    Cut,           \* the file is a proper prefix of a JSON object
    Failed         \* Load returned false

VARIABLE file      \* "/ws_config.json"

-----------------------------------------------------------------------------
Config == [wifi : Creds, zone : Zones]
FileConfig == [wifi : Creds, zone : Zones \cup {NoZone}]

DefaultConfig == [wifi |-> DefaultCred, zone |-> DefaultZone]

FileTypeOK == file \in FileConfig \cup {Absent, Cut}

\* Load accepts the file: it exists, is not too large and is an object.
Loadable == file \in FileConfig /\ file.wifi \notin BigCreds

\* What Load can return.  The buffer is as long as the file and is not
\* terminated, so the parser runs past the end of a file that is cut short:
\* what it finds there is undefined, and can be the rest of an object.
LoadResults ==
    CASE Loadable   -> {file}
      [] file = Cut ->
           {c \in FileConfig : c.wifi \notin BigCreds} \cup {Failed}
      [] OTHER      -> {Failed}

\* Mutant of Loaded: the zone is taken over without looking at its names.
Loaded_AnyZone(result) ==
    IF result = Failed THEN DefaultConfig ELSE result

\* load_config on the members the constructor left: a file that does not load
\* changes nothing, and one with an empty zone name leaves the zone alone.
Loaded(result) ==
    IF result = Failed
      THEN DefaultConfig
      ELSE [wifi |-> result.wifi,
            zone |-> IF result.zone = NoZone THEN DefaultZone ELSE result.zone]

-----------------------------------------------------------------------------
\* Save, up to SPIFFS.open(_, "w"): the open truncates the file at once.
OpenForWrite == file' = Cut

\* Save, the one write of the whole text and its count, c being what is saved.
WriteFile(c, complete) == file' = IF complete THEN c ELSE Cut
=============================================================================
