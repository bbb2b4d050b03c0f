-------------------------- MODULE MCShadowDecoder --------------------------
(***************************************************************************)
(* The decoder with a few changes by the operator: intervals inside and    *)
(* outside the limits, types accepted and refused, and a topic.            *)
(***************************************************************************)
EXTENDS ShadowDecoder, TLC

CONSTANTS t0, t1    \* topics: the default and another

MCTopics == {t0, t1}

\* A provisioned device: every file there, and the version's file empty.
MCProvisioned ==
    {[a \in Attrs |-> IF a = "config_version" THEN EMPTY ELSE Default(a)],
     [a \in Attrs |-> IF a = "topic" THEN EMPTY
                      ELSE IF a = "daq_interval" THEN 300 ELSE Default(a)]}

\* A device whose firmware knows an attribute the provisioning did not.
MCUnprovisioned ==
    {[a \in Attrs |-> IF a = "app_type" THEN MISSING ELSE Default(a)]}

MCPatches ==
    {"conf_interval" :> 30 @@ "app_type" :> 2,
     "daq_interval" :> 90000 @@ "sensor_type" :> 4,
     "conf_interval" :> 3600 @@ "sensor_type" :> 0 @@ "pub_interval" :> 20000,
     "sensor_type" :> 258,
     "topic" :> t1 @@ "app_type" :> 3}

\* An interval of twelve hours, and the topic alone.
MCLongPatches  == {"pub_interval" :> 20000, "pub_interval" :> 43200}
MCTopicPatches == {"topic" :> t1 @@ "app_type" :> 3}
=============================================================================
