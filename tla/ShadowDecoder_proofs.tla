------------------------ MODULE ShadowDecoder_proofs ------------------------
(***************************************************************************)
(* Proofs about the way of the shadow into the files, for any number of    *)
(* changes, resets and lost sessions, any provisioned files and any        *)
(* desired attributes.                                                     *)
(*                                                                         *)
(* The argument: versions never decrease along the way from the files over *)
(* the message in hand and the messages under way to the cloud (Ordered),  *)
(* and the table in RAM differs from the files by the attribute about to   *)
(* be saved and no other (Pending, Clean).                                 *)
(***************************************************************************)
EXTENDS ShadowDecoder, SequenceTheorems, TLAPS

\* The desired attributes a document may have.
Desires ==
    {d \in UNION {[D -> Int \cup Topics] : D \in SUBSET (Attrs \ {"config_version"})} :
        \A a \in DOMAIN d : d[a] \in IF a = "topic" THEN Topics ELSE Int}

\* The documents of the cloud: the first one, version 0, has no attributes.
Docs == {m \in [version : 0 .. MaxVersion, attributes : Desires] :
            DOMAIN m.attributes = {} <=> m.version = 0}

Decoding == pc \in {"set", "save"}

\* What is on its way are documents of the cloud.
Documents == /\ msg \in Docs
             /\ net \in Seq(Docs)
             /\ Message(version, desired) \in Docs

\* Where the device may be.
Control ==
    /\ Decoding => up /\ pos \in 1 .. Len(Order) /\ msg.version > 0
    /\ ~up => pc = "boot"
    /\ pc \in {"boot", "offline"} => ~online
    /\ ~online => net = <<>>

\* The versions, from the files to the cloud.
Ordered ==
    /\ 0 <= Stored /\ Stored <= version
    /\ Decoding => Stored <= msg.version /\ msg.version <= version
    /\ \A i \in 1 .. Len(net) :
          /\ Stored <= net[i].version /\ net[i].version <= version
          /\ Decoding => msg.version <= net[i].version
    /\ \A i, j \in 1 .. Len(net) : i < j => net[i].version <= net[j].version

\* What was set is what is about to be saved ...
Pending ==
    pc = "save" => /\ Present(msg, Order[pos])
                   /\ is_new_val[Order[pos]]
                   /\ cache[Order[pos]] = Value(msg, Order[pos])

\* ... and everything else in RAM is what a boot would load.
Clean ==
    (up /\ pc # "boot") =>
        \A a \in Attrs : ~(pc = "save" /\ a = Order[pos]) =>
                             ~is_new_val[a] /\ cache[a] = Loaded(a, flash[a])

IInv == /\ TypeOK /\ Documents /\ Control /\ Ordered
        /\ Pending /\ Clean /\ DurablePrefix /\ VersionCoversAttributes

-----------------------------------------------------------------------------
(* The attributes and their order.                                         *)

\* Every index of Order has an attribute of its own, the first the version.
LEMMA OrderFacts ==
    /\ Len(Order) = 7
    /\ \A i \in 1 .. 7 : Order[i] \in Attrs
    /\ \A i, j \in 1 .. 7 : Order[i] = Order[j] => i = j
    /\ Order[1] = "config_version"
<1>1. Len(Order) = 7
  BY DEF Order
<1>2. /\ Order[1] = "config_version" /\ Order[2] = "conf_interval"
      /\ Order[3] = "daq_interval"   /\ Order[4] = "pub_interval"
      /\ Order[5] = "sensor_type"    /\ Order[6] = "topic"
      /\ Order[7] = "app_type"
  BY DEF Order
<1>3. \A i \in 1 .. 7 : i = 1 \/ i = 2 \/ i = 3 \/ i = 4 \/ i = 5 \/ i = 6 \/ i = 7
  OBVIOUS
<1>4. \A i \in 1 .. 7 : Order[i] \in Attrs
  BY <1>2, <1>3 DEF Attrs, Int16Attrs, Intervals
<1>5. ASSUME NEW i \in 1 .. 7, NEW j \in 1 .. 7, Order[i] = Order[j]
      PROVE  i = j
  BY <1>2, <1>3, <1>5
<1> QED BY <1>1, <1>2, <1>4, <1>5

\* A file with a value is told from one without.
LEMMA ValuesAreContents ==
    ASSUME NEW a \in Attrs, NEW v \in ValuesOf(a)
    PROVE  v # EMPTY /\ v # MISSING
BY ContentsAssumption DEF ValuesOf, Int16

\* The conversion gives a value of the type, whatever it is given.
LEMMA ToInt16Type == ASSUME NEW v \in Int PROVE ToInt16(v) \in Int16
<1> DEFINE w == v + 32768
           r == w % 65536
<1>1. w \in Int
  OBVIOUS
<1>2. ToInt16(v) = r - 32768
  BY DEF ToInt16
<1> HIDE DEF w
<1>3. r \in Int /\ 0 <= r /\ r <= 65535
  BY <1>1
<1> HIDE DEF r
<1> QED BY <1>2, <1>3 DEF Int16

\* The value a document has for an attribute fits the store.
LEMMA ValueTyped ==
    ASSUME NEW m \in Docs, NEW a \in Attrs, Present(m, a)
    PROVE  Value(m, a) \in ValuesOf(a)
<1>1. CASE a = "config_version"
  <2>1. m.version \in Int
    BY DEF Docs
  <2> QED BY <1>1, <2>1 DEF Value, ValuesOf, Int16Attrs, Intervals
<1>2. CASE a # "config_version"
  <2>1. /\ a \in DOMAIN m.attributes
        /\ m.attributes[a] \in IF a = "topic" THEN Topics ELSE Int
    BY <1>2 DEF Present, Docs, Desires
  <2>2. CASE a = "topic"
    BY <1>2, <2>1, <2>2 DEF Value, Decoded, ValuesOf, Int16Attrs, Intervals
  <2>3. CASE a # "topic"
    <3>1. a \in Int16Attrs
      BY <1>2, <2>3 DEF Attrs
    <3>2. m.attributes[a] \in Int /\ Clamp(a, m.attributes[a]) \in Int
      BY <2>1, <2>3 DEF Clamp, Least, MINUTE_SECONDS, DAY_SECONDS
    <3>3. Decoded(a, m.attributes[a]) \in Int16
      BY <3>1, <3>2, ToInt16Type DEF Decoded, Int16Attrs
    <3> QED BY <1>2, <3>1, <3>3 DEF Value, ValuesOf
  <2> QED BY <2>2, <2>3
<1> QED BY <1>1, <1>2

\* The document of a shadow nobody wrote to, and no message.
LEMMA NoMessageIsDoc == Message(0, <<>>) \in Docs /\ <<>> \in Desires
<1>1. DOMAIN <<>> = {}
  OBVIOUS
<1>2. <<>> \in [{} -> Int \cup Topics]
  OBVIOUS
<1>3. <<>> \in Desires
  BY <1>1, <1>2 DEF Desires
<1>4. 0 \in 0 .. MaxVersion
  BY BoundsAssumption
<1> QED BY <1>1, <1>3, <1>4 DEF Docs, Message

\* What an operator makes of the desired attributes is one more document.
LEMMA MergeIsDoc ==
    ASSUME NEW p \in Patches, NEW d \in Desires, NEW v \in 1 .. MaxVersion
    PROVE  Message(v, [a \in DOMAIN p \cup DOMAIN d |->
                          IF a \in DOMAIN p THEN p[a] ELSE d[a]]) \in Docs
<1> DEFINE D == DOMAIN p \cup DOMAIN d
           e == [a \in D |-> IF a \in DOMAIN p THEN p[a] ELSE d[a]]
<1>1. /\ D # {} /\ D \subseteq Attrs \ {"config_version"}
      /\ \A a \in DOMAIN p : p[a] \in IF a = "topic" THEN Topics ELSE Int
      /\ \A a \in DOMAIN d : d[a] \in IF a = "topic" THEN Topics ELSE Int
  BY PatchAssumption DEF Desires
<1>2. \A a \in D : e[a] \in IF a = "topic" THEN Topics ELSE Int
  BY <1>1
<1>3. e \in [D -> Int \cup Topics]
  BY <1>2
<1>4. e \in Desires /\ DOMAIN e # {}
  BY <1>1, <1>2, <1>3 DEF Desires
<1>5. v \in 0 .. MaxVersion /\ v # 0
  BY BoundsAssumption
<1> HIDE DEF e
<1>6. Message(v, e) \in Docs
  BY <1>4, <1>5 DEF Docs, Message
<1> QED BY <1>6 DEF e

\* What a boot reads is fit for the table.
LEMMA LoadedTyped ==
    ASSUME TypeOK, FilesExist, NEW a \in Attrs
    PROVE  Loaded(a, flash[a]) \in ValuesOf(a)
<1>1. flash[a] = EMPTY \/ flash[a] \in ValuesOf(a)
  BY DEF TypeOK, StoreTypeOK, FilesExist
<1>2. CASE flash[a] # EMPTY
  BY <1>1, <1>2 DEF Loaded
<1>3. CASE flash[a] = EMPTY
  BY <1>3, ContentsAssumption
  DEF Loaded, ValuesOf, Attrs, Int16Attrs, Intervals, Int16
<1> QED BY <1>2, <1>3

-----------------------------------------------------------------------------
(* The inductive invariant holds at first.                                 *)

LEMMA InitHolds == Init => IInv
<1> SUFFICES ASSUME Init PROVE IInv
  OBVIOUS
<1>1. /\ DOMAIN flash = Attrs
      /\ \A a \in Attrs : flash[a] \in {EMPTY, MISSING} \/ flash[a] \in ValuesOf(a)
      /\ flash["config_version"] \in {EMPTY, MISSING, 0}
  BY ProvisionedAssumption DEF Init
<1>2. \A a \in Attrs : cache[a] \in ValuesOf(a)
  BY ContentsAssumption
  DEF Init, Default, ValuesOf, Attrs, Int16Attrs, Intervals, Int16
<1>3. TypeOK
  <2>1. StoreTypeOK
    BY <1>1, <1>2 DEF Init, StoreTypeOK
  <2>2. pos \in 0 .. Len(Order) /\ pc \in {"boot", "offline", "idle", "set", "save"}
    BY OrderFacts DEF Init
  <2>3. origin \in [Attrs -> 0 .. MaxVersion] /\ version \in 0 .. MaxVersion
    BY BoundsAssumption DEF Init
  <2>4. up \in BOOLEAN /\ online \in BOOLEAN
    BY Zenon DEF Init
  <2>5. faults \in 0 .. MaxFaults
    BY BoundsAssumption DEF Init
  <2> QED BY <2>1, <2>2, <2>3, <2>4, <2>5 DEF TypeOK
<1>4. Documents
  BY NoMessageIsDoc DEF Init, Documents, NoMessage
<1>5. Control /\ Pending /\ Clean /\ DurablePrefix
  BY DEF Init, Control, Pending, Clean, DurablePrefix, Decoding
<1>6. Ordered
  BY <1>1 DEF Init, Ordered, Decoding, Stored
<1>7. VersionCoversAttributes
  BY DEF Init, VersionCoversAttributes
<1> QED BY <1>3, <1>4, <1>5, <1>6, <1>7 DEF IInv

-----------------------------------------------------------------------------
(* Every step preserves it, one lemma for each.                            *)

\* A reset: nothing but the files and the cloud is left.
LEMMA ErabortStep ==
    ASSUME IInv, erabort, faults' \in 0 .. MaxFaults
    PROVE  IInv'
<1>1. TypeOK'
  <2>1. up' \in BOOLEAN /\ online' \in BOOLEAN
    BY Zenon DEF erabort
  <2>2. StoreTypeOK'
    BY DEF IInv, TypeOK, StoreTypeOK, erabort, storeVars
  <2>3. pos' \in 0 .. Len(Order) /\ pc' \in {"boot", "offline", "idle", "set", "save"}
    BY OrderFacts DEF erabort
  <2> QED BY <2>1, <2>2, <2>3 DEF IInv, TypeOK, erabort
<1>2. Documents'
  BY NoMessageIsDoc DEF IInv, Documents, NoMessage, Message, erabort
<1>3. Control' /\ Pending' /\ Clean' /\ DurablePrefix'
  BY DEF Control, Pending, Clean, DurablePrefix, Decoding, erabort
<1>4. Ordered' /\ VersionCoversAttributes'
  BY DEF IInv, Ordered, VersionCoversAttributes, Stored, Decoding, erabort, storeVars
<1> QED BY <1>1, <1>2, <1>3, <1>4 DEF IInv

\* A boot that finds its files: the table is what they hold.
LEMMA LoadStep ==
    ASSUME IInv, Load, ~erabort
    PROVE  IInv'
<1>1. /\ up /\ pc = "boot" /\ config_init /\ pc' = "offline"
      /\ UNCHANGED <<up, msg, pos, online, cloudVars, faults, before, origin>>
  BY DEF Load
<1>2. TypeOK'
  <2>1. \A a \in Attrs : cache'[a] \in ValuesOf(a)
    BY <1>1, LoadedTyped DEF config_init, IInv
  <2>2. StoreTypeOK'
    BY <1>1, <2>1 DEF config_init, IInv, TypeOK, StoreTypeOK
  <2> QED BY <1>1, <2>2 DEF IInv, TypeOK, cloudVars
<1>3. Documents'
  BY <1>1 DEF IInv, Documents, Message, cloudVars
<1>4. Control' /\ Pending' /\ DurablePrefix'
  BY <1>1 DEF IInv, Control, Pending, DurablePrefix, Decoding, cloudVars
<1>5. Clean'
  BY <1>1 DEF Clean, config_init
<1>6. Ordered' /\ VersionCoversAttributes'
  BY <1>1 DEF IInv, Ordered, VersionCoversAttributes, Stored, Decoding, cloudVars,
              config_init
<1> QED BY <1>2, <1>3, <1>4, <1>5, <1>6 DEF IInv

\* A session begins with the document of the moment.
LEMMA GetShadowStep ==
    ASSUME IInv, GetShadow
    PROVE  IInv'
<1> USE DEF GetShadow
<1>1. TypeOK'
  <2>1. online' \in BOOLEAN
    BY Zenon
  <2>2. StoreTypeOK'
    BY DEF IInv, TypeOK, StoreTypeOK, storeVars
  <2> QED BY <2>1, <2>2 DEF IInv, TypeOK
<1>2. Documents'
  BY DEF IInv, Documents, Message
<1>3. Control' /\ Pending' /\ DurablePrefix'
  BY DEF IInv, Control, Pending, DurablePrefix, Decoding
<1>4. Clean'
  BY DEF IInv, Clean, storeVars
<1>5. Len(net') = 1 /\ net'[1].version = version
  BY DEF Message
<1>6. Ordered'
  <2>1. Stored' = Stored /\ version' = version /\ version \in Int /\ ~Decoding'
    BY DEF IInv, TypeOK, Stored, Decoding, storeVars
  <2>2. \A i \in 1 .. Len(net') : i = 1
    BY <1>5
  <2>3. \A i \in 1 .. Len(net') : net'[i].version = version
    BY <1>5, <2>2
  <2> HIDE DEF GetShadow
  <2> QED BY <2>1, <2>2, <2>3 DEF IInv, Ordered
<1>7. VersionCoversAttributes'
  BY DEF IInv, VersionCoversAttributes, storeVars
<1> QED BY <1>1, <1>2, <1>3, <1>4, <1>6, <1>7 DEF IInv

\* The next message is taken in hand, if it has something to decode.
LEMMA DecodeMsgStep ==
    ASSUME IInv, aws_decode_shadow_msg
    PROVE  IInv'
<1> USE DEF aws_decode_shadow_msg
<1>1. /\ net \in Seq(Docs) /\ net # <<>> /\ Head(net) \in Docs /\ Head(net) = net[1]
      /\ Tail(net) \in Seq(Docs) /\ Len(Tail(net)) = Len(net) - 1
      /\ \A i \in 1 .. Len(net) - 1 : Tail(net)[i] = net[i + 1]
      /\ Len(net) \in Nat /\ Len(net) >= 1
  BY HeadTailProperties, EmptySeq DEF IInv, Documents
<1>2. DOMAIN Head(net).attributes # {} => Head(net).version > 0
  BY <1>1 DEF Docs
<1>3. TypeOK'
  <2>1. StoreTypeOK'
    BY DEF IInv, TypeOK, StoreTypeOK, storeVars
  <2>2. pos' \in 0 .. Len(Order)
    BY OrderFacts DEF IInv, TypeOK
  <2> QED BY <2>1, <2>2 DEF IInv, TypeOK
<1>4. Documents'
  BY <1>1 DEF IInv, Documents, Message
<1>5. Control'
  BY <1>1, <1>2, OrderFacts DEF IInv, Control, Decoding
<1>6. Pending' /\ Clean'
  BY DEF IInv, Pending, Clean, storeVars
<1>7. DurablePrefix'
  BY OrderFacts DEF IInv, DurablePrefix, storeVars
<1>8. Ordered'
  <2>1. Stored' = Stored /\ version' = version
    BY DEF Stored, storeVars
  <2>2. \A i \in 1 .. Len(net') : net'[i] = net[i + 1] /\ i + 1 \in 1 .. Len(net)
    BY <1>1
  <2>3. \A i, j \in 1 .. Len(net') : i < j => net'[i].version <= net'[j].version
    BY <1>1, <2>2 DEF IInv, Ordered
  <2>4. \A i \in 1 .. Len(net') :
           /\ Stored <= net'[i].version /\ net'[i].version <= version
           /\ Head(net).version <= net'[i].version
    BY <1>1, <2>2 DEF IInv, Ordered
  <2>5. Stored <= Head(net).version /\ Head(net).version <= version
    BY <1>1 DEF IInv, Ordered
  <2> QED BY <2>1, <2>3, <2>4, <2>5 DEF IInv, Ordered, Decoding
<1>9. VersionCoversAttributes'
  BY DEF IInv, VersionCoversAttributes, storeVars
<1> QED BY <1>3, <1>4, <1>5, <1>6, <1>7, <1>8, <1>9 DEF IInv

\* Where the decoder goes after an attribute.
LEMMA NextAttributeFacts ==
    ASSUME IInv, Decoding, NextAttribute
    PROVE  /\ pos' \in 0 .. Len(Order) /\ pc' \in {"set", "idle"}
           /\ msg' \in Docs
           /\ pc' = "set" => /\ pos' = pos + 1 /\ pos' \in 1 .. Len(Order)
                             /\ msg' = msg
<1>1. pos \in 1 .. Len(Order) /\ Len(Order) = 7
  BY OrderFacts DEF IInv, Control
<1>2. msg \in Docs /\ NoMessage \in Docs
  BY NoMessageIsDoc DEF IInv, Documents, NoMessage
<1> QED BY <1>1, <1>2 DEF NextAttribute

\* What a message in hand is and where the decoder is in it.
LEMMA DecodingFacts ==
    ASSUME IInv, Decoding
    PROVE  /\ up /\ pos \in 1 .. 7 /\ msg.version > 0 /\ msg \in Docs
           /\ Order[pos] \in Attrs
           /\ \A i \in 1 .. 7 :
                 flash[Order[i]] = IF i < pos /\ Present(msg, Order[i])
                                     THEN Value(msg, Order[i]) ELSE before[Order[i]]
BY OrderFacts DEF IInv, Control, Documents, DurablePrefix, Decoding

\* An attribute the message does not have, or not with a value for the store.
LEMMA SkipStep ==
    ASSUME IInv, Skip
    PROVE  IInv'
<1>1. /\ Decoding /\ NextAttribute /\ pc = "set" /\ ~Present(msg, Order[pos])
      /\ UNCHANGED <<storeVars, up, online, cloudVars, faults, before, origin>>
  BY DEF Skip, Decoding
<1>2. TypeOK'
  <2>1. StoreTypeOK'
    BY <1>1 DEF IInv, TypeOK, StoreTypeOK, storeVars
  <2> QED BY <1>1, <2>1, NextAttributeFacts DEF IInv, TypeOK, cloudVars
<1>3. Documents'
  BY <1>1, NextAttributeFacts DEF IInv, Documents, Message, cloudVars
<1>4. Control' /\ Pending'
  BY <1>1, NextAttributeFacts DEF IInv, Control, Pending, Decoding, cloudVars
<1>5. Clean'
  BY <1>1, NextAttributeFacts DEF IInv, Clean, Control, Decoding, storeVars
<1>6. DurablePrefix'
  <2>1. ASSUME pc' = "set", NEW i \in 1 .. 7
        PROVE  flash'[Order[i]] = IF i < pos' /\ Present(msg', Order[i])
                                    THEN Value(msg', Order[i]) ELSE before'[Order[i]]
    <3>1. msg' = msg /\ pos' = pos + 1 /\ flash' = flash /\ before' = before
      BY <1>1, <2>1, NextAttributeFacts DEF storeVars
    <3>2. i < pos' /\ Present(msg, Order[i]) <=> i < pos /\ Present(msg, Order[i])
      BY <1>1, <3>1, DecodingFacts
    <3> QED BY <1>1, <3>1, <3>2, DecodingFacts
  <2> QED BY <1>1, <2>1, OrderFacts, NextAttributeFacts DEF DurablePrefix
<1>7. Ordered'
  BY <1>1, NextAttributeFacts DEF IInv, Ordered, Stored, Decoding, storeVars, cloudVars
<1>8. VersionCoversAttributes'
  BY <1>1 DEF IInv, VersionCoversAttributes, storeVars
<1> QED BY <1>2, <1>3, <1>4, <1>5, <1>6, <1>7, <1>8 DEF IInv

\* An attribute set in RAM is the one about to be saved.
LEMMA SetStep ==
    ASSUME IInv, Set, ~erabort
    PROVE  IInv'
<1> DEFINE a == Order[pos]
<1>1. /\ Decoding /\ pc = "set" /\ Present(msg, a) /\ pc' = "save"
      /\ config_set(a, Value(msg, a), TRUE)
      /\ UNCHANGED <<flash, up, msg, pos, online, cloudVars, faults, before, origin>>
  BY DEF Set, Decoding, config_set
<1>2. a \in Attrs /\ Value(msg, a) \in ValuesOf(a) /\ up
  BY <1>1, DecodingFacts, ValueTyped
<1>3. /\ DOMAIN cache' = Attrs
      /\ is_new_val' \in [Attrs -> BOOLEAN]
      /\ \A b \in Attrs : cache'[b] = IF b = a THEN Value(msg, a) ELSE cache[b]
      /\ \A b \in Attrs : b # a => is_new_val'[b] = is_new_val[b]
      /\ is_new_val'[a]
  BY <1>1, <1>2 DEF config_set, IInv, TypeOK, StoreTypeOK
<1>4. TypeOK'
  <2>1. StoreTypeOK'
    BY <1>1, <1>2, <1>3 DEF IInv, TypeOK, StoreTypeOK
  <2> QED BY <1>1, <2>1 DEF IInv, TypeOK, cloudVars
<1>5. Documents' /\ Control'
  BY <1>1 DEF IInv, Documents, Control, Decoding, Message, cloudVars
<1>6. Pending'
  BY <1>1, <1>2, <1>3 DEF Pending
<1>7. Clean'
  BY <1>1, <1>2, <1>3 DEF IInv, Clean
<1>8. DurablePrefix'
  BY <1>1, <1>2 DEF IInv, DurablePrefix
<1>9. Ordered' /\ VersionCoversAttributes'
  BY <1>1 DEF IInv, Ordered, Stored, Decoding, cloudVars, VersionCoversAttributes
<1> QED BY <1>4, <1>5, <1>6, <1>7, <1>8, <1>9 DEF IInv

\* What saving an attribute writes.  The version is the first that is saved.
LEMMA SaveFacts ==
    ASSUME IInv, Save
    PROVE  /\ Decoding /\ NextAttribute /\ Present(msg, Order[pos])
           /\ DOMAIN flash' = Attrs
           /\ \A b \in Attrs : flash'[b] = IF b = Order[pos] THEN Value(msg, b)
                                                           ELSE flash[b]
           /\ flash'["config_version"] = msg.version
           /\ pos = 1 => Stored' = msg.version
           /\ pos # 1 => Stored' = Stored /\ Stored = msg.version
<1>1. /\ Decoding /\ NextAttribute /\ Present(msg, Order[pos]) /\ is_new_val[Order[pos]]
      /\ cache[Order[pos]] = Value(msg, Order[pos])
      /\ config_save_attribute_to_file(Order[pos])
  BY DEF Save, Decoding, IInv, Pending
<1>2. /\ DOMAIN flash' = Attrs
      /\ \A b \in Attrs : flash'[b] = IF b = Order[pos] THEN Value(msg, b) ELSE flash[b]
  BY <1>1, DecodingFacts
  DEF config_save_attribute_to_file, IInv, TypeOK, StoreTypeOK
<1>3. "config_version" \in Attrs
  BY DEF Attrs
<1>4. msg.version \in Int /\ msg.version > 0
  BY <1>1, DecodingFacts DEF Docs
<1>5. \A n \in Int : n # EMPTY /\ n # MISSING
  BY ContentsAssumption
<1>6. CASE pos = 1
  <2>1. flash'["config_version"] = msg.version
    BY <1>2, <1>3, <1>6, OrderFacts DEF Value
  <2> QED BY <1>1, <1>2, <1>4, <1>5, <1>6, <2>1 DEF Stored
<1>7. CASE pos # 1
  <2>1. Order[pos] # "config_version" /\ 1 < pos
    BY <1>1, <1>7, OrderFacts, DecodingFacts
  <2>2. Present(msg, "config_version")
    BY <1>4 DEF Present
  <2>3. flash[Order[1]] = Value(msg, Order[1])
    BY <1>1, <2>1, <2>2, OrderFacts, DecodingFacts
  <2>4. flash["config_version"] = msg.version
    BY <2>3, OrderFacts DEF Value
  <2>5. flash'["config_version"] = msg.version
    BY <1>2, <1>3, <2>1, <2>4
  <2> QED BY <1>1, <1>2, <1>4, <1>5, <1>7, <2>4, <2>5 DEF Stored
<1> QED BY <1>6, <1>7

\* An attribute saved is as durable as the message says.
LEMMA SaveStep ==
    ASSUME IInv, Save
    PROVE  IInv'
<1> DEFINE a == Order[pos]
<1>1. /\ Decoding /\ NextAttribute /\ pc = "save" /\ Present(msg, a)
      /\ is_new_val[a] /\ cache[a] = Value(msg, a)
      /\ is_new_val' = [is_new_val EXCEPT ![a] = FALSE]
      /\ origin' = [origin EXCEPT ![a] = msg.version]
      /\ UNCHANGED <<cache, up, online, cloudVars, faults, before>>
  BY DEF Save, Decoding, IInv, Pending, config_save_attribute_to_file
<1>2. /\ up /\ a \in Attrs /\ msg \in Docs /\ Value(msg, a) \in ValuesOf(a)
      /\ msg.version \in 1 .. MaxVersion
  <2>1. msg.version \in 0 .. MaxVersion /\ msg.version > 0
    BY <1>1, DecodingFacts DEF Docs
  <2> QED BY <1>1, <2>1, DecodingFacts, ValueTyped, BoundsAssumption
<1>3. /\ DOMAIN flash' = Attrs
      /\ \A b \in Attrs : flash'[b] = IF b = a THEN Value(msg, a) ELSE flash[b]
      /\ flash'["config_version"] = msg.version
  BY SaveFacts
<1>4. is_new_val' \in [Attrs -> BOOLEAN] /\ origin' \in [Attrs -> 0 .. MaxVersion]
  BY <1>1, <1>2, BoundsAssumption DEF IInv, TypeOK, StoreTypeOK
<1>5. TypeOK'
  <2>1. StoreTypeOK'
    BY <1>1, <1>2, <1>3, <1>4 DEF IInv, TypeOK, StoreTypeOK
  <2> QED BY <1>1, <1>4, <2>1, NextAttributeFacts DEF IInv, TypeOK, cloudVars
<1>6. Documents'
  BY <1>1, NextAttributeFacts DEF IInv, Documents, Message, cloudVars
<1>7. Control' /\ Pending'
  BY <1>1, NextAttributeFacts DEF IInv, Control, Pending, Decoding, cloudVars
<1>8. Clean'
  <2>1. ASSUME NEW b \in Attrs
        PROVE  ~is_new_val'[b] /\ cache'[b] = Loaded(b, flash'[b])
    <3>1. CASE b = a
      <4>1. ~is_new_val'[b]
        BY <1>1, <1>2, <3>1 DEF IInv, TypeOK, StoreTypeOK
      <4>2. flash'[b] = cache'[b] /\ flash'[b] # EMPTY
        BY <1>1, <1>2, <1>3, <3>1, ValuesAreContents
      <4> QED BY <4>1, <4>2 DEF Loaded
    <3>2. CASE b # a
      <4>1. is_new_val'[b] = is_new_val[b] /\ flash'[b] = flash[b]
        BY <1>1, <1>2, <1>3, <3>2 DEF IInv, TypeOK, StoreTypeOK
      <4>2. ~is_new_val[b] /\ cache[b] = Loaded(b, flash[b])
        BY <1>1, <1>2, <3>2 DEF IInv, Clean
      <4> QED BY <1>1, <4>1, <4>2
    <3> QED BY <3>1, <3>2
  <2> QED BY <2>1 DEF Clean
<1>9. DurablePrefix'
  <2>1. ASSUME pc' = "set", NEW i \in 1 .. 7
        PROVE  flash'[Order[i]] = IF i < pos' /\ Present(msg', Order[i])
                                    THEN Value(msg', Order[i]) ELSE before'[Order[i]]
    <3>1. msg' = msg /\ pos' = pos + 1 /\ before' = before /\ pos \in 1 .. 7
      BY <1>1, <2>1, NextAttributeFacts, DecodingFacts
    <3>2. CASE i = pos
      BY <1>1, <1>2, <1>3, <3>1, <3>2
    <3>3. CASE i # pos
      <4>1. flash'[Order[i]] = flash[Order[i]]
        BY <1>3, <3>1, <3>3, OrderFacts
      <4>2. i < pos' <=> i < pos
        BY <3>1, <3>3
      <4> QED BY <1>1, <3>1, <4>1, <4>2, DecodingFacts
    <3> QED BY <3>2, <3>3
  <2> QED BY <1>1, <2>1, OrderFacts, NextAttributeFacts DEF DurablePrefix
<1>10. Ordered'
  <2>1. Stored' = msg.version /\ version' = version /\ net' = net
    BY <1>1, SaveFacts DEF cloudVars
  <2>2. Decoding' => msg' = msg
    BY <1>1, NextAttributeFacts DEF Decoding
  <2> QED BY <1>1, <1>2, <2>1, <2>2 DEF IInv, Ordered
<1>11. VersionCoversAttributes'
  <2>1. ASSUME NEW b \in Attrs, origin'[b] > 0
        PROVE  msg.version \in origin'[b] .. MaxVersion
    <3>1. CASE b = a
      BY <1>1, <1>2, <3>1, BoundsAssumption DEF IInv, TypeOK
    <3>2. CASE b # a
      <4>1. origin'[b] = origin[b] /\ origin[b] \in 0 .. MaxVersion
        BY <1>1, <1>2, <3>2 DEF IInv, TypeOK
      <4>2. flash["config_version"] \in origin[b] .. MaxVersion
        BY <2>1, <4>1 DEF IInv, VersionCoversAttributes
      <4>3. Stored = flash["config_version"]
        BY <4>1, <4>2, ContentsAssumption, BoundsAssumption DEF Stored
      <4>4. Stored <= msg.version
        BY <1>1 DEF IInv, Ordered
      <4> QED BY <1>2, <4>1, <4>2, <4>3, <4>4, BoundsAssumption
    <3> QED BY <3>1, <3>2
  <2> QED BY <1>3, <2>1 DEF VersionCoversAttributes
<1> QED BY <1>5, <1>6, <1>7, <1>8, <1>9, <1>10, <1>11 DEF IInv

\* An operator's change is the newest document.
LEMMA ChangeStep ==
    ASSUME IInv, Change
    PROVE  IInv'
<1> DEFINE m == Message(version', desired')
<1>1. /\ version' = version + 1 /\ version < MaxVersion
      /\ net' = IF online THEN Append(net, m) ELSE net
      /\ UNCHANGED <<storeVars, up, pc, msg, pos, online, faults, before, origin>>
  BY DEF Change
<1>2. /\ version \in 0 .. MaxVersion /\ version' \in 1 .. MaxVersion
      /\ net \in Seq(Docs) /\ msg \in Docs
  BY <1>1, BoundsAssumption DEF IInv, TypeOK, Documents
<1>3. m \in Docs
  <2>1. desired \in Desires
    BY DEF IInv, Documents, Docs, Message
  <2>2. PICK p \in Patches :
            desired' = [a \in DOMAIN p \cup DOMAIN desired |->
                           IF a \in DOMAIN p THEN p[a] ELSE desired[a]]
    BY DEF Change
  <2> QED BY <1>2, <2>1, <2>2, MergeIsDoc
<1>4. m.version = version'
  BY DEF Message
<1> HIDE DEF m
<1>5. /\ net' \in Seq(Docs) /\ Len(net) \in Nat
      /\ Len(net') = IF online THEN Len(net) + 1 ELSE Len(net)
      /\ \A i \in 1 .. Len(net) : net'[i] = net[i] /\ net[i] \in Docs
      /\ online => net'[Len(net) + 1] = m
  BY <1>1, <1>2, <1>3, AppendProperties
<1>6. TypeOK'
  <2>1. StoreTypeOK'
    BY <1>1 DEF IInv, TypeOK, StoreTypeOK, storeVars
  <2>2. version' \in 0 .. MaxVersion
    BY <1>2, BoundsAssumption
  <2> QED BY <1>1, <2>1, <2>2 DEF IInv, TypeOK
<1>7. Documents'
  BY <1>1, <1>2, <1>3, <1>5 DEF Documents, m, Message
<1>8. Control' /\ Pending'
  BY <1>1 DEF IInv, Control, Pending, Decoding, storeVars
<1>9. Clean' /\ DurablePrefix' /\ VersionCoversAttributes'
  BY <1>1 DEF IInv, Clean, DurablePrefix, VersionCoversAttributes, storeVars
<1>10. Ordered'
  <2>1. /\ Stored' = Stored /\ Decoding' = Decoding /\ msg' = msg /\ msg.version \in Int
        /\ 0 <= Stored /\ Stored <= version /\ Stored \in Int
    <3>1. Stored \in Int
      BY DEF IInv, TypeOK, StoreTypeOK, Stored, ValuesOf, Attrs, Int16Attrs, Intervals
    <3> QED BY <1>1, <1>2, <3>1 DEF IInv, Ordered, Stored, Decoding, storeVars, Docs
  <2>2. \A i \in 1 .. Len(net) : net[i].version \in Int
    BY <1>5 DEF Docs
  <2>3. Decoding => Stored <= msg.version /\ msg.version <= version
    BY DEF IInv, Ordered
  <2>4. ASSUME NEW i \in 1 .. Len(net')
        PROVE  /\ Stored <= net'[i].version /\ net'[i].version <= version'
               /\ Decoding => msg.version <= net'[i].version
    <3>1. CASE i \in 1 .. Len(net)
      BY <1>1, <1>2, <1>5, <2>1, <2>2, <3>1 DEF IInv, Ordered
    <3>2. CASE i \notin 1 .. Len(net)
      <4>1. net'[i] = m
        BY <1>5, <2>4, <3>2
      <4> QED BY <1>1, <1>2, <1>4, <2>1, <2>3, <4>1
    <3> QED BY <3>1, <3>2
  <2>5. ASSUME NEW i \in 1 .. Len(net'), NEW j \in 1 .. Len(net'), i < j
        PROVE  net'[i].version <= net'[j].version
    <3>1. i \in 1 .. Len(net) /\ net'[i] = net[i]
      BY <1>5, <2>5
    <3>2. CASE j \in 1 .. Len(net)
      BY <1>5, <2>5, <3>1, <3>2 DEF IInv, Ordered
    <3>3. CASE j \notin 1 .. Len(net)
      <4>1. net'[j] = m
        BY <1>5, <2>5, <3>3
      <4>2. net[i].version <= version
        BY <3>1 DEF IInv, Ordered
      <4> QED BY <1>1, <1>2, <1>4, <2>2, <3>1, <4>1, <4>2
    <3> QED BY <3>2, <3>3
  <2> QED BY <1>1, <1>2, <2>1, <2>3, <2>4, <2>5 DEF Ordered
<1> QED BY <1>6, <1>7, <1>8, <1>9, <1>10 DEF IInv

\* A session ends; what the decoder has in hand stays.
LEMMA LoseSessionStep ==
    ASSUME IInv, LoseSession
    PROVE  IInv'
<1> USE DEF LoseSession
<1>1. TypeOK'
  <2>1. online' \in BOOLEAN
    BY Zenon
  <2>2. faults' \in 0 .. MaxFaults
    BY BoundsAssumption DEF IInv, TypeOK
  <2>3. StoreTypeOK'
    BY DEF IInv, TypeOK, StoreTypeOK, storeVars
  <2> QED BY <2>1, <2>2, <2>3 DEF IInv, TypeOK
<1>2. Documents' /\ Control' /\ Pending'
  BY DEF IInv, Documents, Control, Pending, Decoding, Message, storeVars
<1>3. Clean' /\ DurablePrefix' /\ VersionCoversAttributes'
  BY DEF IInv, Clean, DurablePrefix, VersionCoversAttributes, storeVars
<1>4. Ordered'
  BY DEF IInv, Ordered, Stored, Decoding, storeVars
<1> QED BY <1>1, <1>2, <1>3, <1>4 DEF IInv

\* The device boots again.
LEMMA BootStep ==
    ASSUME IInv, Boot
    PROVE  IInv'
<1> USE DEF Boot
<1>1. TypeOK'
  <2>1. up' \in BOOLEAN
    BY Zenon
  <2>2. StoreTypeOK'
    BY DEF IInv, TypeOK, StoreTypeOK, storeVars
  <2> QED BY <2>1, <2>2 DEF IInv, TypeOK, cloudVars
<1>2. pc = "boot"
  BY DEF IInv, Control
<1>3. Documents' /\ Control' /\ Pending' /\ Clean' /\ DurablePrefix'
  BY <1>2 DEF IInv, Documents, Control, Pending, Clean, DurablePrefix, Decoding,
              Message, cloudVars
<1>4. Ordered' /\ VersionCoversAttributes'
  BY DEF IInv, Ordered, Stored, Decoding, VersionCoversAttributes, storeVars, cloudVars
<1> QED BY <1>1, <1>3, <1>4 DEF IInv

\* The resets of the device's own making and those from outside.
LEMMA ResetStep ==
    ASSUME IInv, \/ Load /\ erabort
                 \/ Set /\ erabort
                 \/ Reset
    PROVE  IInv'
<1>1. erabort
  BY DEF Reset
<1>2. faults' = faults \/ (faults < MaxFaults /\ faults' = faults + 1)
  BY DEF Load, Set, Reset
<1>3. faults' \in 0 .. MaxFaults
  BY <1>2, BoundsAssumption DEF IInv, TypeOK
<1> QED BY <1>1, <1>3, ErabortStep

\* A step in which nothing happens.
LEMMA StutterStep ==
    ASSUME IInv, UNCHANGED vars
    PROVE  IInv'
<1> USE DEF vars, storeVars, cloudVars
<1>1. TypeOK'
  BY DEF IInv, TypeOK, StoreTypeOK
<1>2. Documents' /\ Control' /\ Pending' /\ Clean'
  BY DEF IInv, Documents, Control, Pending, Clean, Decoding, Message
<1>3. DurablePrefix' /\ Ordered' /\ VersionCoversAttributes'
  BY DEF IInv, DurablePrefix, Ordered, Stored, Decoding, VersionCoversAttributes
<1> QED BY <1>1, <1>2, <1>3 DEF IInv

LEMMA NextHolds == IInv /\ [Next]_vars => IInv'
<1> SUFFICES ASSUME IInv, [Next]_vars PROVE IInv'
  OBVIOUS
<1>1. CASE Load
  BY <1>1, LoadStep, ResetStep
<1>2. CASE aws_decode_shadow_msg
  BY <1>2, DecodeMsgStep
<1>3. CASE Skip
  BY <1>3, SkipStep
<1>4. CASE Set
  BY <1>4, SetStep, ResetStep
<1>5. CASE Save
  BY <1>5, SaveStep
<1>6. CASE GetShadow
  BY <1>6, GetShadowStep
<1>7. CASE Change
  BY <1>7, ChangeStep
<1>8. CASE LoseSession
  BY <1>8, LoseSessionStep
<1>9. CASE Reset
  BY <1>9, ResetStep
<1>10. CASE Boot
  BY <1>10, BootStep
<1>11. CASE UNCHANGED vars
  BY <1>11, StutterStep
<1> QED BY <1>1, <1>2, <1>3, <1>4, <1>5, <1>6, <1>7, <1>8, <1>9, <1>10, <1>11
        DEF Next, Device, aws_decode_shadow_values

-----------------------------------------------------------------------------
(* What follows for every behaviour.                                       *)

LEMMA Invariance == Spec => []IInv
<1> QED BY InitHolds, NextHolds, PTL DEF Spec

\* The table and the files keep their types, whatever values are desired.
THEOREM TypeCorrect == Spec => []TypeOK
<1>1. IInv => TypeOK
  BY DEF IInv
<1> QED BY <1>1, Invariance, PTL

\* A reset leaves a prefix of the message in the files.
THEOREM PrefixIsDurable == Spec => []DurablePrefix
<1>1. IInv => DurablePrefix
  BY DEF IInv
<1> QED BY <1>1, Invariance, PTL

\* Between messages a reboot changes nothing.
THEOREM RebootChangesNothing == Spec => []RebootInvisible
<1>1. IInv => RebootInvisible
  BY DEF IInv, Clean, RebootInvisible
<1> QED BY <1>1, Invariance, PTL

\* No attribute in the files is newer than the version in the files.
THEOREM VersionCovers == Spec => []VersionCoversAttributes
<1>1. IInv => VersionCoversAttributes
  BY DEF IInv
<1> QED BY <1>1, Invariance, PTL

\* Only Save writes files, so the version in them changes with its first one.
LEMMA StoredKept ==
    ASSUME IInv, [Next]_vars, ~Save
    PROVE  Stored' = Stored
BY DEF Next, Device, Load, config_init, erabort, aws_decode_shadow_msg,
       aws_decode_shadow_values, Skip, Set, config_set, GetShadow, Change,
       LoseSession, Reset, Boot, vars, storeVars, Stored

\* The device never goes back to an older version.
THEOREM NeverOlder == Spec => NoStepBack
<1>1. IInv /\ [Next]_vars => Stored' >= Stored
  <2> SUFFICES ASSUME IInv, [Next]_vars PROVE Stored' >= Stored
    OBVIOUS
  <2>1. Stored \in Int
    BY DEF IInv, TypeOK, StoreTypeOK, Stored, ValuesOf, Attrs, Int16Attrs, Intervals
  <2>2. CASE Save
    <3>1. Decoding /\ Stored' = msg.version /\ msg.version \in Int
      BY <2>2, SaveFacts, DecodingFacts DEF Docs
    <3> QED BY <2>1, <3>1 DEF IInv, Ordered
  <2>3. CASE ~Save
    BY <2>1, <2>3, StoredKept
  <2> QED BY <2>2, <2>3
<1> QED BY <1>1, Invariance, PTL DEF Spec, NoStepBack

-----------------------------------------------------------------------------
(* When the limits of the intervals do what they are there for.            *)

\* An interval within the limits that an int16_t can hold.
Fits(a, v) == v \in Int /\ Least(a) <= v /\ v <= 32767

\* The operator desires no interval above what an int16_t can hold (any number
\* below is fine), and the files were provisioned with intervals, not empty.
Moderate ==
    /\ \A p \in Patches : \A a \in DOMAIN p \cap Intervals : p[a] <= 32767
    /\ \A files \in Provisioned : \A a \in Intervals :
           files[a] = MISSING \/ Fits(a, files[a])

\* A document of this kind.
Short(d) == \A a \in DOMAIN d \cap Intervals : d[a] <= 32767

\* All documents are, and so the table and the files stay within the limits.
Limited ==
    /\ Short(desired) /\ Short(msg.attributes)
    /\ \A i \in 1 .. Len(net) : Short(net[i].attributes)
    /\ \A a \in Intervals : Fits(a, cache[a])
    /\ \A a \in Intervals : flash[a] = MISSING \/ Fits(a, flash[a])

LEMMA NoneIsShort == Short(<<>>) /\ Short(NoMessage.attributes)
<1>1. DOMAIN <<>> = {}
  OBVIOUS
<1> QED BY <1>1 DEF Short, NoMessage, Message

\* The conversion leaves what is below the limit of the type alone.
LEMMA ClampFits ==
    ASSUME NEW a \in Intervals, NEW v \in Int, v <= 32767
    PROVE  Fits(a, ToInt16(Clamp(a, v)))
<1> DEFINE c == Clamp(a, v)
<1>1. Least(a) = 1 \/ Least(a) = 60
  BY DEF Least, MINUTE_SECONDS
<1>2. c \in Int /\ Least(a) <= c /\ c <= 32767
  BY <1>1 DEF Clamp, DAY_SECONDS
<1> HIDE DEF c
<1>3. ToInt16(c) = c
  <2> DEFINE w == c + 32768
  <2>1. w \in Int /\ 0 <= w /\ w <= 65535
    BY <1>1, <1>2
  <2> HIDE DEF w
  <2>2. w % 65536 = w
    BY <2>1
  <2>3. ToInt16(c) = w - 32768
    BY <2>2 DEF ToInt16, w
  <2> QED BY <1>2, <2>3 DEF w
<1> QED BY <1>2, <1>3 DEF Fits, c

\* Every step keeps the limits.
LEMMA LimitedStep == Moderate /\ IInv /\ Limited /\ [Next]_vars => Limited'
<1> SUFFICES ASSUME Moderate, IInv, Limited, [Next]_vars PROVE Limited'
  OBVIOUS
<1>1. /\ net \in Seq(Docs) /\ Len(net) \in Nat
      /\ \A i \in 1 .. Len(net) : Short(net[i].attributes)
      /\ Short(desired) /\ Short(msg.attributes)
  BY DEF IInv, Documents, Limited
<1>2. ASSUME UNCHANGED storeVars
      PROVE  /\ \A a \in Intervals : Fits(a, cache'[a])
             /\ \A a \in Intervals : flash'[a] = MISSING \/ Fits(a, flash'[a])
  BY <1>2 DEF Limited, storeVars
<1>3. CASE erabort
  BY <1>1, <1>2, <1>3, NoneIsShort DEF erabort, Limited
<1>4. CASE Load /\ ~erabort
  <2>1. config_init /\ FilesExist /\ UNCHANGED <<flash, msg, net, desired>>
    BY <1>4 DEF Load, config_init, cloudVars
  <2>2. ASSUME NEW a \in Intervals PROVE Fits(a, cache'[a])
    <3>1. a \in Attrs
      BY DEF Attrs, Int16Attrs
    <3>2. Fits(a, flash[a])
      BY <2>1, <3>1 DEF FilesExist, Limited
    <3>3. flash[a] # EMPTY
      BY <3>2, ContentsAssumption DEF Fits
    <3>4. cache'[a] = flash[a]
      BY <2>1, <3>1, <3>3 DEF config_init, Loaded
    <3> QED BY <3>2, <3>4
  <2> QED BY <2>1, <2>2 DEF Limited
<1>5. CASE aws_decode_shadow_msg
  <2>1. /\ net # <<>> /\ net' = Tail(net)
        /\ msg' = msg \/ msg' = Head(net)
        /\ UNCHANGED <<storeVars, desired>>
    BY <1>5 DEF aws_decode_shadow_msg
  <2>2. /\ Head(net) = net[1] /\ 1 \in 1 .. Len(net)
        /\ Len(net') = Len(net) - 1
        /\ \A i \in 1 .. Len(net') : net'[i] = net[i + 1] /\ i + 1 \in 1 .. Len(net)
    BY <1>1, <2>1
  <2> QED BY <1>1, <1>2, <2>1, <2>2 DEF Limited
<1>6. CASE Skip
  <2>1. /\ msg' = msg \/ msg' = NoMessage
        /\ UNCHANGED <<storeVars, net, desired>>
    BY <1>6 DEF Skip, NextAttribute, cloudVars
  <2> QED BY <1>1, <1>2, <2>1, NoneIsShort DEF Limited
<1>7. CASE Set /\ ~erabort
  <2> DEFINE b == Order[pos]
  <2>1. /\ Present(msg, b) /\ config_set(b, Value(msg, b), TRUE) /\ Decoding
        /\ UNCHANGED <<flash, msg, net, desired>>
    BY <1>7 DEF Set, config_set, cloudVars, Decoding
  <2>2. ASSUME NEW a \in Intervals PROVE Fits(a, cache'[a])
    <3>1. a \in Attrs /\ a # "config_version" /\ a # "topic"
      BY DEF Attrs, Int16Attrs, Intervals
    <3>2. CASE a = b
      <4>1. a \in DOMAIN msg.attributes /\ msg \in Docs
        BY <2>1, <3>1, <3>2, DecodingFacts DEF Present
      <4>2. msg.attributes[a] \in Int
        BY <3>1, <4>1 DEF Docs, Desires
      <4>3. msg.attributes[a] <= 32767
        BY <1>1, <4>1 DEF Short
      <4>4. Value(msg, a) = ToInt16(Clamp(a, msg.attributes[a]))
        BY <3>1 DEF Value, Decoded
      <4>5. cache'[a] = Value(msg, a)
        BY <2>1, <3>1, <3>2 DEF config_set, IInv, TypeOK, StoreTypeOK
      <4> QED BY <4>2, <4>3, <4>4, <4>5, ClampFits
    <3>3. CASE a # b
      <4>1. cache'[a] = cache[a]
        BY <2>1, <3>1, <3>3 DEF config_set, IInv, TypeOK, StoreTypeOK
      <4> QED BY <4>1 DEF Limited
    <3> QED BY <3>2, <3>3
  <2> QED BY <1>1, <2>1, <2>2 DEF Limited
<1>8. CASE Save
  <2>1. /\ msg' = msg \/ msg' = NoMessage
        /\ UNCHANGED <<cache, net, desired>>
    BY <1>8 DEF Save, NextAttribute, cloudVars, config_save_attribute_to_file
  <2>2. ASSUME NEW a \in Intervals PROVE flash'[a] = MISSING \/ Fits(a, flash'[a])
    <3>1. a \in Attrs
      BY DEF Attrs, Int16Attrs
    <3>2. flash'[a] = flash[a] \/ flash'[a] = cache[a]
      BY <1>8, <3>1 DEF Save, config_save_attribute_to_file, IInv, TypeOK, StoreTypeOK
    <3> QED BY <3>2 DEF Limited
  <2> QED BY <1>1, <2>1, <2>2, NoneIsShort DEF Limited
<1>9. CASE GetShadow
  <2>1. /\ Len(net') = 1 /\ net'[1].attributes = desired
        /\ UNCHANGED <<storeVars, msg, desired>>
    BY <1>9 DEF GetShadow, Message
  <2>2. \A i \in 1 .. Len(net') : i = 1
    BY <2>1
  <2> QED BY <1>1, <1>2, <2>1, <2>2 DEF Limited
<1>10. CASE Change
  <2>1. PICK p \in Patches :
            desired' = [a \in DOMAIN p \cup DOMAIN desired |->
                           IF a \in DOMAIN p THEN p[a] ELSE desired[a]]
    BY <1>10 DEF Change
  <2>2. Short(desired')
    BY <1>1, <2>1 DEF Short, Moderate
  <2> DEFINE m == Message(version', desired')
  <2>3. /\ net' = IF online THEN Append(net, m) ELSE net
        /\ UNCHANGED <<storeVars, msg>>
    BY <1>10 DEF Change
  <2>4. m.attributes = desired'
    BY DEF Message
  <2>5. \A i \in 1 .. Len(net') : net'[i] = m \/ (i \in 1 .. Len(net) /\ net'[i] = net[i])
    <3> HIDE DEF m
    <3> QED BY <1>1, <2>3
  <2> HIDE DEF m
  <2> QED BY <1>1, <1>2, <2>2, <2>3, <2>4, <2>5 DEF Limited
<1>11. CASE LoseSession
  BY <1>1, <1>2, <1>11 DEF LoseSession, Limited
<1>12. CASE Boot \/ UNCHANGED vars
  BY <1>1, <1>2, <1>12 DEF Boot, vars, cloudVars, storeVars, Limited
<1> QED BY <1>3, <1>4, <1>5, <1>6, <1>7, <1>8, <1>9, <1>10, <1>11, <1>12
        DEF Next, Device, aws_decode_shadow_values, Reset

\* The protection "against too short or too long intervals" (aws_decoding.c:64,
\* 86, 108) works for what an int16_t can hold: only numbers above its largest,
\* and empty files, get around it.
THEOREM ModerateInRange == Moderate => (Spec => []IntervalsInRange)
<1> SUFFICES ASSUME Moderate PROVE Spec => []IntervalsInRange
  OBVIOUS
<1>1. Init => Limited
  <2> SUFFICES ASSUME Init PROVE Limited
    OBVIOUS
  <2>1. desired = <<>> /\ msg = NoMessage /\ net = <<>> /\ flash \in Provisioned
    BY DEF Init
  <2>2. ASSUME NEW a \in Intervals PROVE Fits(a, cache[a])
    <3>1. cache[a] = 60
      BY DEF Init, Default, Attrs, Int16Attrs
    <3> QED BY <3>1 DEF Fits, Least, MINUTE_SECONDS
  <2>3. Short(desired) /\ Short(msg.attributes)
    BY <2>1, NoneIsShort
  <2> QED BY <2>1, <2>2, <2>3 DEF Limited, Moderate
<1>2. IInv /\ Limited /\ [Next]_vars => Limited'
  BY LimitedStep
<1>3. Limited => IntervalsInRange
  <2> SUFFICES ASSUME Limited, NEW a \in Intervals
               PROVE  cache[a] >= Least(a) /\ cache[a] <= DAY_SECONDS
    BY DEF IntervalsInRange
  <2>1. Least(a) \in Int
    BY DEF Least, MINUTE_SECONDS
  <2> QED BY <2>1 DEF Limited, Fits, DAY_SECONDS
<1> QED BY <1>1, <1>2, <1>3, Invariance, PTL DEF Spec

-----------------------------------------------------------------------------
(* The steps of the abstract exchange.                                     *)

\* The versions of a sequence of documents.
Versions(q) == [i \in 1 .. Len(q) |-> q[i].version]

LEMMA VersionsType ==
    ASSUME NEW q \in Seq(Docs)
    PROVE  /\ Versions(q) \in Seq(Int)
           /\ Len(Versions(q)) = Len(q)
           /\ \A i \in 1 .. Len(q) : Versions(q)[i] = q[i].version
<1>1. Len(q) \in Nat /\ \A i \in 1 .. Len(q) : q[i].version \in Int
  BY DEF Docs
<1> QED BY <1>1 DEF Versions

LEMMA VersionsOfNone == Versions(<<>>) = <<>>
BY DEF Versions

\* What a document at the end adds.
LEMMA VersionsAppend ==
    ASSUME NEW q \in Seq(Docs), NEW d \in Docs
    PROVE  Versions(Append(q, d)) = Append(Versions(q), d.version)
<1> DEFINE s == Versions(Append(q, d))
           t == Append(Versions(q), d.version)
<1>1. d.version \in Int /\ Len(q) \in Nat
  BY DEF Docs
<1>2. /\ Append(q, d) \in Seq(Docs) /\ Len(Append(q, d)) = Len(q) + 1
      /\ \A i \in 1 .. Len(q) : Append(q, d)[i] = q[i]
      /\ Append(q, d)[Len(q) + 1] = d
  BY AppendProperties
<1>3. /\ t \in Seq(Int) /\ Len(t) = Len(q) + 1
      /\ \A i \in 1 .. Len(q) : t[i] = q[i].version
      /\ t[Len(q) + 1] = d.version
  BY <1>1, VersionsType, AppendProperties
<1>4. /\ s \in Seq(Int) /\ Len(s) = Len(q) + 1
      /\ \A i \in 1 .. Len(q) + 1 : s[i] = Append(q, d)[i].version
  BY <1>2, VersionsType
<1> HIDE DEF s, t
<1>5. \A i \in 1 .. Len(q) + 1 : i \in 1 .. Len(q) \/ i = Len(q) + 1
  BY <1>1
<1>6. ASSUME NEW i \in 1 .. Len(s) PROVE s[i] = t[i]
  <2>1. i \in 1 .. Len(q) + 1 /\ s[i] = Append(q, d)[i].version
    BY <1>4
  <2>2. CASE i \in 1 .. Len(q)
    BY <1>2, <1>3, <2>1, <2>2
  <2>3. CASE i = Len(q) + 1
    BY <1>2, <1>3, <2>1, <2>3
  <2> QED BY <1>5, <2>1, <2>2, <2>3
<1>7. s = t
  BY <1>3, <1>4, <1>6, SeqEqual
<1> QED BY <1>7 DEF s, t

\* The first document's version comes first.
LEMMA VersionsHead ==
    ASSUME NEW q \in Seq(Docs), q # <<>>
    PROVE  /\ Versions(q) # <<>> /\ Head(Versions(q)) = Head(q).version
           /\ Tail(Versions(q)) = Versions(Tail(q))
<1> DEFINE s == Tail(Versions(q))
           t == Versions(Tail(q))
<1>1. Len(q) \in Nat /\ Len(q) >= 1 /\ Head(q) = q[1]
  BY EmptySeq
<1>2. /\ Versions(q) # <<>> /\ Head(Versions(q)) = Head(q).version
      /\ Versions(q) \in Seq(Int) /\ Len(Versions(q)) = Len(q)
      /\ \A i \in 1 .. Len(q) : Versions(q)[i] = q[i].version
  BY <1>1, VersionsType, EmptySeq
<1>3. /\ Tail(q) \in Seq(Docs) /\ Len(Tail(q)) = Len(q) - 1
      /\ \A i \in 1 .. Len(Tail(q)) : Tail(q)[i] = q[i + 1]
  BY HeadTailProperties
<1>4. /\ t \in Seq(Int) /\ Len(t) = Len(q) - 1
      /\ \A i \in 1 .. Len(q) - 1 : t[i] = Tail(q)[i].version
  BY <1>3, VersionsType
<1>5. /\ s \in Seq(Int) /\ Len(s) = Len(q) - 1
      /\ \A i \in 1 .. Len(q) - 1 : s[i] = Versions(q)[i + 1]
  BY <1>2, HeadTailProperties
<1> HIDE DEF s, t
<1>6. ASSUME NEW i \in 1 .. Len(s) PROVE s[i] = t[i]
  <2>1. i \in 1 .. Len(q) - 1 /\ i + 1 \in 1 .. Len(q) /\ i \in 1 .. Len(Tail(q))
    BY <1>1, <1>3, <1>5
  <2>2. s[i] = Versions(q)[i + 1] /\ Versions(q)[i + 1] = q[i + 1].version
    BY <1>2, <1>5, <2>1
  <2>3. t[i] = Tail(q)[i].version /\ Tail(q)[i] = q[i + 1]
    BY <1>3, <1>4, <2>1
  <2> QED BY <2>2, <2>3
<1>7. s = t
  BY <1>4, <1>5, <1>6, SeqEqual
<1> QED BY <1>2, <1>7 DEF s, t

\* A version put in front of others: what is first, what is left, and that one
\* added at the end stays there.
LEMMA InFront ==
    ASSUME NEW x \in Int, NEW s \in Seq(Int), NEW y \in Int
    PROVE  /\ <<x>> \o s \in Seq(Int)
           /\ <<x>> \o s # <<>> /\ Head(<<x>> \o s) = x /\ Tail(<<x>> \o s) = s
           /\ Append(<<x>> \o s, y) = <<x>> \o Append(s, y)
<1> DEFINE t == <<x>> \o s
<1>1. <<x>> \in Seq(Int) /\ Len(<<x>>) = 1 /\ <<x>>[1] = x /\ Len(s) \in Nat
  OBVIOUS
<1>2. /\ t \in Seq(Int) /\ Len(t) = 1 + Len(s)
      /\ \A i \in 1 .. 1 + Len(s) : t[i] = IF i <= 1 THEN <<x>>[i] ELSE s[i - 1]
  BY <1>1, ConcatProperties
<1> HIDE DEF t
<1>3. t # <<>> /\ Head(t) = x
  BY <1>1, <1>2, EmptySeq
<1>4. Tail(t) = s
  <2>1. /\ Tail(t) \in Seq(Int) /\ Len(Tail(t)) = Len(s)
        /\ \A i \in 1 .. Len(s) : Tail(t)[i] = t[i + 1]
    BY <1>1, <1>2, <1>3, HeadTailProperties
  <2>2. ASSUME NEW i \in 1 .. Len(s) PROVE Tail(t)[i] = s[i]
    <3>1. i + 1 \in 1 .. 1 + Len(s) /\ ~(i + 1 <= 1) /\ (i + 1) - 1 = i
      BY <1>1
    <3>2. t[i + 1] = s[i]
      BY <1>2, <3>1
    <3> QED BY <2>1, <3>2
  <2> QED BY <2>1, <2>2, SeqEqual
<1>5. Append(t, y) = <<x>> \o Append(s, y)
  <2>1. Append(t, y) = t \o <<y>> /\ Append(s, y) = s \o <<y>>
    BY <1>2, AppendIsConcat
  <2>2. <<y>> \in Seq(Int)
    OBVIOUS
  <2>3. t \o <<y>> = <<x>> \o (s \o <<y>>)
    BY <1>1, <2>2, ConcatAssociative DEF t
  <2> QED BY <2>1, <2>3
<1> QED BY <1>2, <1>3, <1>4, <1>5 DEF t

\* A sequence is its head in front of its tail.
LEMMA HeadAndTail ==
    ASSUME NEW s \in Seq(Int), s # <<>>
    PROVE  <<Head(s)>> \o Tail(s) = s
<1> DEFINE x == Head(s)
           t == <<x>> \o Tail(s)
<1>1. /\ Len(s) \in Nat /\ Len(s) >= 1 /\ x = s[1] /\ x \in Int
      /\ Tail(s) \in Seq(Int) /\ Len(Tail(s)) = Len(s) - 1
      /\ \A i \in 1 .. Len(s) - 1 : Tail(s)[i] = s[i + 1]
  BY HeadTailProperties, EmptySeq
<1> HIDE DEF x
<1>2. <<x>> \in Seq(Int) /\ Len(<<x>>) = 1 /\ <<x>>[1] = x
  BY <1>1
<1>3. /\ t \in Seq(Int) /\ Len(t) = Len(s)
      /\ \A i \in 1 .. Len(s) : t[i] = IF i <= 1 THEN <<x>>[i] ELSE Tail(s)[i - 1]
  BY <1>1, <1>2, ConcatProperties
<1>4. \A i \in 1 .. Len(s) : t[i] = s[i]
  BY <1>1, <1>2, <1>3
<1> HIDE DEF t
<1>5. t = s
  BY <1>3, <1>4, SeqEqual
<1> QED BY <1>5 DEF t, x

\* What is on its way, by where the decoder is.
SentIs == /\ Versions(net) \in Seq(Int) /\ msg.version \in Int
          /\ ~(Decoding /\ pos = 1) => Sent = Versions(net)
          /\ Decoding /\ pos = 1 => Sent = <<msg.version>> \o Versions(net)

LEMMA SentFacts == IInv => SentIs
<1> SUFFICES ASSUME IInv PROVE SentIs
  OBVIOUS
<1>1. Versions(net) \in Seq(Int) /\ msg.version \in Int
  <2>1. net \in Seq(Docs) /\ msg \in Docs
    BY DEF IInv, Documents
  <2>2. Versions(net) \in Seq(Int)
    BY <2>1, VersionsType
  <2> QED BY <2>1, <2>2 DEF Docs
<1>2. Sent = InHand \o Versions(net)
  BY DEF Sent, Versions
<1>3. ASSUME Decoding, pos = 1
      PROVE  Sent = <<msg.version>> \o Versions(net)
  BY <1>2, <1>3 DEF InHand, Decoding
<1>4. ASSUME ~(Decoding /\ pos = 1)
      PROVE  Sent = Versions(net)
  <2>1. InHand = <<>>
    BY <1>4 DEF InHand, Decoding
  <2> QED BY <1>1, <1>2, <2>1, ConcatEmptySeq
<1> QED BY <1>1, <1>3, <1>4 DEF SentIs

\* Where the decoder is after an attribute that was not the first.
LEMMA PastFirst ==
    ASSUME IInv, Decoding, NextAttribute
    PROVE  ~(Decoding' /\ pos' = 1)
<1>1. pos \in 1 .. 7 /\ Len(Order) = 7
  BY OrderFacts, DecodingFacts
<1> QED BY <1>1 DEF NextAttribute, Decoding

\* A step of the decoder is a step of the exchange, or leaves it alone.
LEMMA StepSyncs == IInv /\ [Next]_vars => [Sync!Next]_(Sync!vars)
<1> SUFFICES ASSUME IInv, [Next]_vars PROVE [Sync!Next]_(Sync!vars)
  OBVIOUS
<1>0. SentIs /\ SentIs'
  BY NextHolds, SentFacts, PTL
<1>1. CASE erabort
  <2>1. Versions(net') = <<>> /\ ~Decoding'
    BY <1>1, VersionsOfNone DEF erabort, Decoding
  <2>2. Sent' = <<>>
    BY <1>0, <2>1 DEF SentIs
  <2> QED BY <1>1, <2>2 DEF erabort, Sync!Next, Sync!End, Stored, storeVars
<1>2. CASE UNCHANGED vars
  <2>1. UNCHANGED <<online, Sent, version, Stored>>
    BY <1>2 DEF vars, storeVars, cloudVars, Sent, InHand, Stored
  <2> QED BY <2>1 DEF Sync!vars
<1>3. CASE Load /\ ~erabort
  <2>1. pc' = "offline" /\ pc = "boot" /\ UNCHANGED <<online, net, version, flash>>
    BY <1>3 DEF Load, config_init, cloudVars
  <2>2. Sent' = Sent /\ Stored' = Stored
    BY <2>1 DEF Sent, InHand, Stored
  <2> QED BY <2>1, <2>2 DEF Sync!vars
<1>4. CASE aws_decode_shadow_msg
  <2> DEFINE h == Head(net)
  <2>1. /\ net \in Seq(Docs) /\ net # <<>> /\ h \in Docs /\ net' = Tail(net)
        /\ ~Decoding /\ Tail(net) \in Seq(Docs) /\ h = net[1] /\ 1 \in 1 .. Len(net)
        /\ UNCHANGED <<online, version, flash>>
    BY <1>4, HeadTailProperties, EmptySeq
    DEF aws_decode_shadow_msg, IInv, Documents, Decoding, storeVars
  <2>2. /\ Sent = Versions(net) /\ Versions(net) \in Seq(Int) /\ Versions(net) # <<>>
        /\ Head(Versions(net)) = h.version /\ Tail(Versions(net)) = Versions(net')
    BY <1>0, <2>1, VersionsHead DEF SentIs
  <2>3. Stored' = Stored
    BY <2>1 DEF Stored
  <2>4. CASE DOMAIN h.attributes # {}
    <3>1. Decoding' /\ pos' = 1 /\ msg' = h
      BY <1>4, <2>4 DEF aws_decode_shadow_msg, Decoding
    <3>2. Sent' = <<Head(Versions(net))>> \o Tail(Versions(net))
      BY <1>0, <2>2, <3>1 DEF SentIs
    <3>3. Sent' = Sent
      BY <2>2, <3>2, HeadAndTail
    <3> QED BY <2>1, <2>3, <3>3 DEF Sync!vars
  <2>5. CASE DOMAIN h.attributes = {}
    <3>1. ~Decoding'
      BY <1>4, <2>1, <2>5 DEF aws_decode_shadow_msg, Decoding
    <3>2. Sent' = Tail(Sent) /\ Sent # <<>> /\ Head(Sent) = h.version
      BY <1>0, <2>2, <3>1 DEF SentIs
    <3>3. Stored = h.version
      <4>1. h.version = 0
        BY <2>1, <2>5 DEF Docs
      <4>2. 0 <= Stored /\ Stored <= h.version /\ Stored \in Int
        BY <2>1 DEF IInv, Ordered, TypeOK, StoreTypeOK, Stored, ValuesOf, Attrs,
                    Int16Attrs, Intervals
      <4> QED BY <4>1, <4>2
    <3> QED BY <2>1, <2>3, <3>2, <3>3 DEF Sync!Next, Sync!Accept
  <2> QED BY <2>4, <2>5
<1>5. CASE Skip
  <2>1. /\ Decoding /\ NextAttribute /\ UNCHANGED <<online, net, version, flash>>
        /\ ~Present(msg, Order[pos])
    BY <1>5 DEF Skip, Decoding, storeVars, cloudVars
  <2>2. pos # 1
    BY <2>1, DecodingFacts, OrderFacts DEF Present
  <2>3. ~(Decoding' /\ pos' = 1)
    BY <2>1, PastFirst
  <2>4. Sent' = Sent /\ Stored' = Stored
    BY <1>0, <2>1, <2>2, <2>3 DEF SentIs, Stored
  <2> QED BY <2>1, <2>4 DEF Sync!vars
<1>6. CASE Set /\ ~erabort
  <2>1. /\ pc = "set" /\ pc' = "save"
        /\ UNCHANGED <<pos, msg, online, net, version, flash>>
    BY <1>6 DEF Set, config_set, cloudVars
  <2>2. Sent' = Sent /\ Stored' = Stored
    BY <2>1 DEF Sent, InHand, Stored
  <2> QED BY <2>1, <2>2 DEF Sync!vars
<1>7. CASE Save
  <2>1. Decoding /\ NextAttribute /\ UNCHANGED <<online, net, version>>
    BY <1>7 DEF Save, Decoding, cloudVars
  <2>2. ~(Decoding' /\ pos' = 1)
    BY <2>1, PastFirst
  <2>3. Sent' = Versions(net)
    BY <1>0, <2>1, <2>2 DEF SentIs
  <2>4. CASE pos = 1
    <3>1. Sent = <<msg.version>> \o Versions(net) /\ msg.version \in Int
      BY <1>0, <2>1, <2>4 DEF SentIs
    <3>2. Sent # <<>> /\ Head(Sent) = msg.version /\ Tail(Sent) = Versions(net)
      BY <1>0, <3>1, InFront DEF SentIs
    <3>3. Stored' = msg.version
      BY <1>7, <2>4, SaveFacts
    <3> QED BY <2>1, <2>3, <3>2, <3>3 DEF Sync!Next, Sync!Accept
  <2>5. CASE pos # 1
    <3>1. Sent = Versions(net) /\ Stored' = Stored
      BY <1>0, <1>7, <2>5, SaveFacts DEF SentIs
    <3> QED BY <2>1, <2>3, <3>1 DEF Sync!vars
  <2> QED BY <2>4, <2>5
<1>8. CASE GetShadow
  <2>1. /\ ~Decoding /\ ~Decoding' /\ ~online /\ online' /\ net = <<>>
        /\ net' = Append(<<>>, Message(version, desired)) /\ UNCHANGED <<version, flash>>
    BY <1>8 DEF GetShadow, Decoding, IInv, Control, storeVars
  <2>2. Versions(net') = <<version>>
    <3>1. Message(version, desired) \in Docs /\ <<>> \in Seq(Docs)
      BY DEF IInv, Documents
    <3>2. Message(version, desired).version = version
      BY DEF Message
    <3>3. Versions(net') = Append(Versions(<<>>), version)
      BY <2>1, <3>1, <3>2, VersionsAppend
    <3>4. version \in Int /\ <<>> \in Seq(Int) /\ <<version>> \in Seq(Int)
      BY DEF IInv, TypeOK
    <3>5. Append(<<>>, version) = <<version>>
      BY <3>4, AppendIsConcat, ConcatEmptySeq
    <3> QED BY <3>3, <3>5, VersionsOfNone
  <2>3. Sent = <<>> /\ Sent' = <<version>> /\ Stored' = Stored
    BY <1>0, <2>1, <2>2, VersionsOfNone DEF SentIs, Stored
  <2> QED BY <1>8, <2>1, <2>3 DEF GetShadow, Sync!Next, Sync!Begin
<1>9. CASE Change
  <2> DEFINE m == Message(version', desired')
  <2>1. /\ version' = version + 1
        /\ net' = IF online THEN Append(net, m) ELSE net
        /\ UNCHANGED <<pc, pos, msg, online, flash>>
    BY <1>9 DEF Change, storeVars
  <2>2. net \in Seq(Docs) /\ m \in Docs /\ m.version = version' /\ version' \in Int
    <3>1. IInv'
      BY NextHolds
    <3> QED BY <3>1 DEF IInv, Documents, Message, TypeOK
  <2> HIDE DEF m
  <2>3. Stored' = Stored /\ Decoding' = Decoding
    BY <2>1 DEF Stored, Decoding
  <2>4. Sent' = IF online THEN Append(Sent, version') ELSE Sent
    <3>1. CASE ~online
      BY <2>1, <3>1 DEF Sent, InHand
    <3>2. CASE online
      <4>1. Versions(net') = Append(Versions(net), version')
        BY <2>1, <2>2, <3>2, VersionsAppend
      <4>2. CASE Decoding /\ pos = 1
        <5>1. Sent' = <<msg.version>> \o Append(Versions(net), version')
          BY <1>0, <2>1, <2>3, <4>1, <4>2 DEF SentIs
        <5>2. /\ Sent = <<msg.version>> \o Versions(net)
              /\ msg.version \in Int /\ Versions(net) \in Seq(Int)
          BY <1>0, <4>2 DEF SentIs
        <5>3. Append(<<msg.version>> \o Versions(net), version') = Sent'
          BY <2>2, <5>1, <5>2, InFront
        <5> QED BY <3>2, <5>2, <5>3
      <4>3. CASE ~(Decoding /\ pos = 1)
        BY <1>0, <2>1, <2>3, <3>2, <4>1, <4>3 DEF SentIs
      <4> QED BY <4>2, <4>3
    <3> QED BY <3>1, <3>2
  <2> QED BY <2>1, <2>3, <2>4 DEF Sync!Next, Sync!Change
<1>10. CASE LoseSession
  <2>1. /\ net' = <<>> /\ online' = FALSE /\ UNCHANGED <<pc, pos, msg, version, flash>>
    BY <1>10 DEF LoseSession, storeVars
  <2>2. Decoding' = Decoding /\ Stored' = Stored /\ Versions(net') = <<>>
    BY <2>1, VersionsOfNone DEF Decoding, Stored
  <2>3. CASE Decoding /\ pos = 1
    <3>1. Sent # <<>> /\ Head(Sent) = msg.version
      BY <1>0, <2>3, InFront DEF SentIs
    <3>2. Sent' = <<Head(Sent)>>
      <4>1. Sent' = <<msg.version>> \o <<>>
        BY <1>0, <2>1, <2>2, <2>3 DEF SentIs
      <4>2. <<msg.version>> \in Seq(Int)
        BY <1>0 DEF SentIs
      <4> QED BY <3>1, <4>1, <4>2, ConcatEmptySeq
    <3> QED BY <2>1, <2>2, <3>1, <3>2 DEF Sync!Next, Sync!End
  <2>4. CASE ~(Decoding /\ pos = 1)
    <3>1. Sent' = <<>>
      BY <1>0, <2>1, <2>2, <2>4 DEF SentIs
    <3> QED BY <2>1, <2>2, <3>1 DEF Sync!Next, Sync!End
  <2> QED BY <2>3, <2>4
<1>11. CASE Boot
  <2>1. UNCHANGED <<online, Sent, version, Stored>>
    BY <1>11 DEF Boot, storeVars, cloudVars, Sent, InHand, Stored
  <2> QED BY <2>1 DEF Sync!vars
<1> QED BY <1>1, <1>2, <1>3, <1>4, <1>5, <1>6, <1>7, <1>8, <1>9, <1>10, <1>11
        DEF Next, Device, aws_decode_shadow_values, Reset

\* The decoder, the store and the session implement the steps of the abstract
\* exchange: whole versions, in the order in which they were sent.
THEOREM StepsSync == Spec => Sync!Init /\ [][Sync!Next]_(Sync!vars)
<1>1. Init => Sync!Init
  <2> SUFFICES ASSUME Init PROVE Sync!Init
    OBVIOUS
  <2>1. IInv /\ SentIs
    BY InitHolds, SentFacts
  <2>2. Sent = <<>>
    BY <2>1, VersionsOfNone DEF Init, SentIs, Decoding
  <2>3. Stored = 0
    BY ProvisionedAssumption DEF Init, Stored
  <2> QED BY <2>2, <2>3 DEF Init, Sync!Init
<1>2. IInv /\ [Next]_vars => [Sync!Next]_(Sync!vars)
  BY StepSyncs
<1> QED BY <1>1, <1>2, Invariance, PTL DEF Spec
=============================================================================
