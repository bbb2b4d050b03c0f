--------------------------- MODULE ShadowDecoder ---------------------------
(***************************************************************************)
(* The device shadow's way into the datastore: encoding/aws_decoding.c     *)
(* applies the desired attributes of a shadow message one by one, setting  *)
(* each in RAM and saving it to its file before it looks at the next.      *)
(*                                                                         *)
(* The cloud (external) keeps the desired attributes and their version,    *)
(* merges what an operator changes and sends the document.  The device     *)
(* never reports its state, so every message carries all of it, and asks   *)
(* for it once per boot.  A reset may fall between any two steps.          *)
(***************************************************************************)
EXTENDS ConfigStore, Sequences

CONSTANTS EnumBits,     \* width of an enum in the build (8 under AAPCS)
          Provisioned,  \* the files a device may start its life with
          Patches,      \* what an operator may change at once
          MaxVersion,   \* bound: changes by the operator
          MaxFaults     \* bound: resets and lost sessions from outside

ASSUME BoundsAssumption == MaxVersion \in Nat /\ MaxFaults \in Nat

\* Any files, with any contents the store can write.  No message was decoded
\* yet, so none of them has a version.
ASSUME ProvisionedAssumption ==
    \A files \in Provisioned :
        /\ DOMAIN files = Attrs
        /\ \A a \in Attrs : files[a] \in {EMPTY, MISSING} \/ files[a] \in ValuesOf(a)
        /\ files["config_version"] \in {EMPTY, MISSING, 0}

\* What an operator changes is some attributes, but not the version, which the
\* shadow service counts.  A number may be any: it stands for the valueint that
\* cJSON (external) makes of it, which saturates at the ends of an int before
\* any of the conversions below.
ASSUME PatchAssumption ==
    \A p \in Patches :
        /\ DOMAIN p # {} /\ DOMAIN p \subseteq Attrs \ {"config_version"}
        /\ \A a \in DOMAIN p : p[a] \in IF a = "topic" THEN Topics ELSE Int

VARIABLES up,           \* FALSE between a reset and the next boot
          pc,           \* where the device is
          msg,          \* the message being decoded
          pos,          \* index in Order of the attribute being decoded
          online,       \* the session with the cloud is up
          net,          \* messages on their way to the device
          desired,      \* the shadow's desired attributes (external)
          version,      \* the shadow's version (external)
          faults,       \* resets and lost sessions so far
          before,       \* history: the files when the message came
          origin        \* history: the version that wrote each file

cloudVars == <<net, desired, version>>
vars == <<storeVars, up, pc, msg, pos, online, cloudVars, faults, before, origin>>

MINUTE_SECONDS == 60
DAY_SECONDS    == 86400

\* Mutant of Order: the version is saved after what it covers.
OrderVersionLast ==
    <<"conf_interval", "daq_interval", "pub_interval", "sensor_type", "topic",
      "app_type", "config_version">>

\* The order aws_decode_shadow_values takes the attributes in.
Order == <<"config_version", "conf_interval", "daq_interval", "pub_interval",
           "sensor_type", "topic", "app_type">>

\* A shadow message: the version and a function from some attributes.
Message(v, d) == [version |-> v, attributes |-> d]
NoMessage == Message(0, <<>>)

Init ==
    /\ flash \in Provisioned
    /\ cache = [a \in Attrs |-> Default(a)]
    /\ is_new_val = [a \in Attrs |-> FALSE]
    /\ up = TRUE
    /\ pc = "boot"
    /\ msg = NoMessage
    /\ pos = 0
    /\ online = FALSE
    /\ net = <<>>
    /\ desired = <<>>
    /\ version = 0
    /\ faults = 0
    /\ before = flash
    /\ origin = [a \in Attrs |-> 0]

TypeOK ==
    /\ StoreTypeOK
    /\ up \in BOOLEAN
    /\ pc \in {"boot", "offline", "idle", "set", "save"}
    /\ online \in BOOLEAN
    /\ pos \in 0 .. Len(Order)
    /\ version \in 0 .. MaxVersion
    /\ faults \in 0 .. MaxFaults
    /\ origin \in [Attrs -> 0 .. MaxVersion]

-----------------------------------------------------------------------------
(* What becomes of one attribute.                                          *)

Least(a) == IF a = "daq_interval" THEN 1 ELSE MINUTE_SECONDS

\* The protection against intervals too short or too long.
Clamp(a, v) == IF v < Least(a) THEN Least(a)
               ELSE IF v > DAY_SECONDS THEN DAY_SECONDS ELSE v

\* The cast to an enum, before the comparison with its first and last member.
ToEnum(v) == v % 2^EnumBits

\* The attributes of the document the decoder acts on.  EXT_SENSOR_INVALID
\* and APP_ID_NUM are 5.
Accepted(a, v) == a \in {"sensor_type", "app_type"} => ToEnum(v) > 0 /\ ToEnum(v) < 5

\* The value it puts in the store.
Decoded(a, v) == IF a \in Intervals THEN ToInt16(Clamp(a, v))
                 ELSE IF a \in {"sensor_type", "app_type"} THEN ToInt16(v) ELSE v

\* The attributes of message m that reach the store, with their values.
Present(m, a) == \/ a = "config_version" /\ m.version > 0
                 \/ a \in DOMAIN m.attributes /\ Accepted(a, m.attributes[a])

Value(m, a) == IF a = "config_version" THEN m.version
                                       ELSE Decoded(a, m.attributes[a])

-----------------------------------------------------------------------------
\* erabort, power loss: RAM, session and messages under way are gone.
erabort ==
    /\ up' = FALSE
    /\ pc' = "boot"
    /\ msg' = NoMessage
    /\ pos' = 0
    /\ online' = FALSE
    /\ net' = <<>>
    /\ UNCHANGED <<storeVars, desired, version, before, origin>>

(* The device between resets.                                              *)

\* config_init; a missing file aborts.
Load ==
    /\ up /\ pc = "boot"
    /\ \/ /\ config_init
          /\ pc' = "offline"
          /\ UNCHANGED <<up, msg, pos, online, cloudVars, faults, before, origin>>
       \/ ~FilesExist /\ erabort /\ UNCHANGED faults

\* Mutant of GetShadow: the connector waits for changes and asks for nothing.
SubscribeOnly ==
    /\ up /\ pc = "offline"
    /\ pc' = "idle"
    /\ online' = TRUE
    /\ net' = <<>>
    /\ UNCHANGED <<storeVars, up, msg, pos, desired, version, faults, before, origin>>

\* The connector becomes READY, asks for the shadow and gets it.
GetShadow ==
    /\ up /\ pc = "offline"
    /\ pc' = "idle"
    /\ online' = TRUE
    /\ net' = <<Message(version, desired)>>
    /\ UNCHANGED <<storeVars, up, msg, pos, desired, version, faults, before, origin>>

\* aws_decode_shadow_msg: a message without attributes is discarded.
aws_decode_shadow_msg ==
    /\ up /\ pc = "idle" /\ net # <<>>
    /\ net' = Tail(net)
    /\ \/ /\ DOMAIN Head(net).attributes # {}
          /\ msg' = Head(net)
          /\ pc' = "set"
          /\ pos' = 1
          /\ before' = flash
       \/ /\ DOMAIN Head(net).attributes = {}
          /\ UNCHANGED <<msg, pc, pos, before>>
    /\ UNCHANGED <<storeVars, up, online, desired, version, faults, origin>>

\* Move on to the next attribute, or end the message after the last.
NextAttribute ==
    /\ \/ pos < Len(Order) /\ pos' = pos + 1 /\ pc' = "set" /\ UNCHANGED msg
       \/ pos = Len(Order) /\ pos' = 0 /\ pc' = "idle" /\ msg' = NoMessage

Skip ==
    /\ up /\ pc = "set"
    /\ ~Present(msg, Order[pos])
    /\ NextAttribute
    /\ UNCHANGED <<storeVars, up, online, cloudVars, faults, before, origin>>

\* The store is given the value.  For the topic that is config_set_str, which
\* falls through to the erabort meant for a bad index.
Set ==
    /\ up /\ pc = "set"
    /\ Present(msg, Order[pos])
    /\ \/ /\ Order[pos] # "topic"
          /\ config_set(Order[pos], Value(msg, Order[pos]), TRUE)
          /\ pc' = "save"
          /\ UNCHANGED <<up, msg, pos, online, cloudVars, faults, before, origin>>
       \/ Order[pos] = "topic" /\ erabort /\ UNCHANGED faults

Save ==
    /\ up /\ pc = "save"
    /\ config_save_attribute_to_file(Order[pos])
    /\ origin' = IF is_new_val[Order[pos]]
                    THEN [origin EXCEPT ![Order[pos]] = msg.version] ELSE origin
    /\ NextAttribute
    /\ UNCHANGED <<up, online, cloudVars, faults, before>>

aws_decode_shadow_values == Skip \/ Set \/ Save

-----------------------------------------------------------------------------
(* Around the device.                                                      *)

\* An operator changes desired attributes; the cloud sends the document if
\* the device is subscribed.
Change ==
    /\ version < MaxVersion
    /\ \E p \in Patches :
          desired' = [a \in DOMAIN p \cup DOMAIN desired |->
                         IF a \in DOMAIN p THEN p[a] ELSE desired[a]]
    /\ version' = version + 1
    /\ net' = IF online THEN Append(net, Message(version', desired')) ELSE net
    /\ UNCHANGED <<storeVars, up, pc, msg, pos, online, faults, before, origin>>

\* The session is lost, with what was under way.  The message in hand is
\* decoded to its end; the connector does not connect again.
LoseSession ==
    /\ online /\ faults < MaxFaults
    /\ faults' = faults + 1
    /\ online' = FALSE
    /\ net' = <<>>
    /\ UNCHANGED <<storeVars, up, pc, msg, pos, desired, version, before, origin>>

\* Power loss, or an erabort of another module or of the file system.
Reset ==
    /\ up /\ faults < MaxFaults
    /\ faults' = faults + 1
    /\ erabort

Boot == ~up /\ up' = TRUE
        /\ UNCHANGED <<storeVars, pc, msg, pos, online, cloudVars, faults, before, origin>>

Device == Load \/ aws_decode_shadow_msg \/ aws_decode_shadow_values

Next == Device \/ GetShadow \/ Change \/ LoseSession \/ Reset \/ Boot

\* The device runs and boots.  Spec leaves the network free to keep it
\* offline; OnlineSpec assumes that it connects.
Spec == Init /\ [][Next]_vars /\ WF_vars(Device) /\ WF_vars(Boot)
OnlineSpec == Spec /\ WF_vars(GetShadow)

-----------------------------------------------------------------------------
(* Properties.                                                             *)

\* In the middle of a message, and so wherever a reset may leave the files,
\* what was decoded so far is durable and nothing after it was touched: a
\* reset leaves a prefix of the message, in the order of the decoder.
DurablePrefix ==
    (up /\ pc \in {"set", "save"}) =>
        \A i \in 1 .. Len(Order) :
            flash[Order[i]] = IF i < pos /\ Present(msg, Order[i])
                                THEN Value(msg, Order[i]) ELSE before[Order[i]]

\* Between messages the firmware runs on what a reboot would load: no value
\* was set and left unsaved, and no dirty flag is left to save later.
RebootInvisible ==
    (up /\ pc \in {"offline", "idle"}) =>
        \A a \in Attrs : ~is_new_val[a] /\ cache[a] = Loaded(a, flash[a])

\* No attribute a message wrote to flash is newer than the version in flash:
\* the version is saved first, so a reset in the middle of a message leaves
\* the stored version ahead of some attributes but never behind one.
VersionCoversAttributes ==
    \A a \in Attrs : origin[a] > 0 => flash["config_version"] \in origin[a] .. MaxVersion

\* The files have every desired attribute the decoder accepts.
InSync ==
    \A a \in Attrs : Present(Message(version, desired), a) =>
                         flash[a] = Value(Message(version, desired), a)

\* A device that stays online ends up with the desired configuration, however
\* resets cut earlier messages short and whatever changed while it was away.
Converges == <>[]online => <>[]InSync

\* The version in hand counts as sent until it is saved, which is the first
\* thing the decoder does with a message.
InHand == IF pc \in {"set", "save"} /\ pos = 1 THEN <<msg.version>> ELSE <<>>

\* The versions on their way to the files.
Sent == InHand \o [i \in 1 .. Len(net) |-> net[i].version]

\* The version in the files; a device without one has none yet.
Stored == IF flash["config_version"] \in {EMPTY, MISSING} THEN 0
                                                         ELSE flash["config_version"]

Sync == INSTANCE ShadowSync WITH
            net     <- Sent,
            desired <- version,
            stored  <- Stored

\* The decoder, over files and resets, implements the abstract exchange: the
\* version in the files follows the versions the cloud sent, one by one
\* and never backwards, and no message of a lasting session is left unapplied.
ImplementsSync == Sync!Spec

\* The device never goes back to an older version, whatever resets, sessions
\* and changes come between: within a session versions come in order, and a
\* session starts with the version of the moment.
NoStepBack == [][Stored' >= Stored]_vars

\* "protect against too short or too long intervals" (aws_decoding.c:64, 86,
\* 108): the intervals the firmware runs on are between the limits.
IntervalsInRange ==
    \A a \in Intervals : cache[a] >= Least(a) /\ cache[a] <= DAY_SECONDS

\* "aborts if index out of range" (config.c:474): a topic, whose index is in
\* range, is stored once it is desired.
TopicStored ==
    ("topic" \in DOMAIN desired) ~>
        ("topic" \in DOMAIN desired /\ flash["topic"] = desired["topic"])

\* "file does not exist or is empty, value still set to default" (config.c:185),
\* "return 0 if no config file exist" (config_utils.c:188): a boot gets past the
\* configuration whatever files there are.
BootCompletes == (pc = "boot") ~> (up /\ pc # "boot")
=============================================================================
