---------------------------- MODULE ConfigStore ----------------------------
(***************************************************************************)
(* The configuration datastore of config/config.c over the files of        *)
(* config/config_utils.c: a table of attributes in RAM, each with a dirty  *)
(* flag, and one file per attribute.  This module has the store's state    *)
(* and operations; ShadowDecoder gives them callers.                       *)
(*                                                                         *)
(* A file has a value, no contents, or does not exist.  The file system    *)
(* (LittleFS, external) makes a write durable when the file is closed, and *)
(* before that a reset leaves the old contents.  sub_topic and the serial  *)
(* number, which nothing but provisioning writes, and the ICCID entry,     *)
(* which has no file, are left out.                                        *)
(***************************************************************************)
EXTENDS Integers

CONSTANTS EMPTY,        \* the contents of a file without bytes
          MISSING,      \* the contents of a file that does not exist
          Topics,       \* strings a topic may be
          DefaultTopic  \* PUB_TOPIC_DEFAULT_VAL

\* No value is mistaken for the contents of a file without one.
ASSUME ContentsAssumption ==
    /\ EMPTY \notin Int \cup Topics /\ MISSING \notin Int \cup Topics
    /\ EMPTY # MISSING
    /\ DefaultTopic \in Topics

VARIABLES cache,        \* device_config: the value of each attribute
          is_new_val,   \* device_config: its dirty flag
          flash         \* the file of each attribute

storeVars == <<cache, is_new_val, flash>>

Intervals  == {"conf_interval", "daq_interval", "pub_interval"}
Int16Attrs == Intervals \cup {"sensor_type", "app_type"}
Attrs      == Int16Attrs \cup {"config_version", "topic"}

Int16 == {v \in Int : v >= -32768 /\ v <= 32767}

ValuesOf(a) == IF a \in Int16Attrs THEN Int16
               ELSE IF a = "config_version" THEN Int ELSE Topics

StoreTypeOK ==
    /\ \A a \in Attrs : cache[a] \in ValuesOf(a)
    /\ is_new_val \in [Attrs -> BOOLEAN]
    /\ \A a \in Attrs : flash[a] \in {EMPTY, MISSING} \/ flash[a] \in ValuesOf(a)
    /\ DOMAIN cache = Attrs /\ DOMAIN flash = Attrs

\* The defaults the table is filled with before the files are read.
Default(a) == IF a \in Intervals THEN 60
              ELSE IF a \in {"sensor_type", "app_type"} THEN 1
              ELSE IF a = "config_version" THEN 0 ELSE DefaultTopic

\* What a boot makes of a file that exists.  An empty one leaves a string at
\* its default, but a number is taken from the zeroed buffer.
Loaded(a, contents) ==
    IF contents # EMPTY THEN contents
    ELSE IF a = "topic" THEN DefaultTopic ELSE 0

\* Mutant of ToInt16: no conversion.
ToInt(v) == v

\* The conversion of an int to the int16_t parameter of config_set_int16.
ToInt16(v) == ((v + 32768) % 65536) - 32768

\* read_file and is_file_exists both abort on a file that does not exist.
FilesExist == \A a \in Attrs : flash[a] # MISSING

\* Mutant of config_init: the walk at its end finds every flag set, and writes
\* what the table had before the files were read.
config_init_rewrites ==
    /\ FilesExist
    /\ cache' = [a \in Attrs |-> Default(a)]
    /\ is_new_val' = [a \in Attrs |-> FALSE]
    /\ flash' = [a \in Attrs |-> Default(a)]

\* config_init when every file exists: defaults, then the files.  The walk at
\* its end, meant to write missing files, finds no dirty flag and writes none.
config_init ==
    /\ FilesExist
    /\ cache' = [a \in Attrs |-> Loaded(a, flash[a])]
    /\ is_new_val' = [a \in Attrs |-> FALSE]
    /\ UNCHANGED flash

\* config_set_int16 and config_set_int.
config_set(a, v, is_new) ==
    /\ cache' = [cache EXCEPT ![a] = v]
    /\ is_new_val' = [is_new_val EXCEPT ![a] = is_new]
    /\ UNCHANGED flash

\* Mutants of the next operator: the write is left for later, and the flag is
\* left set.
config_save_deferred(a) ==
    /\ is_new_val' = [is_new_val EXCEPT ![a] = FALSE]
    /\ UNCHANGED <<cache, flash>>

config_save_still_dirty(a) ==
    /\ flash' = [flash EXCEPT ![a] = cache[a]]
    /\ UNCHANGED <<cache, is_new_val>>

\* config_save_attribute_to_file, when save_to_file returns: only a dirty
\* attribute is written.
config_save_attribute_to_file(a) ==
    /\ flash' = IF is_new_val[a] THEN [flash EXCEPT ![a] = cache[a]] ELSE flash
    /\ is_new_val' = [is_new_val EXCEPT ![a] = FALSE]
    /\ UNCHANGED cache
=============================================================================
