--------------------------- MODULE MCDeviceService ---------------------------
(***************************************************************************)
(* Instances of DeviceService for TLC.                                     *)
(***************************************************************************)
EXTENDS DeviceService, TLC

CONSTANTS d1, d2, t1, t2, t3, raw1, gen1

\* raw1 is t1 as it may be typed in, with a dash in it.
MCTopics == {t1, t2, t3, raw1, gen1}
MCNorm == [t \in MCTopics |-> IF t = raw1 THEN t1 ELSE t]

On(t) == [on |-> TRUE, topic |-> t]
Off == [on |-> FALSE, topic |-> NoTopic]

\* Each device has topics of its own; the second may leave it to the hub.
OwnTopics == (d1 :> {On(raw1), On(t2), Off}) @@ (d2 :> {On(t3), On(NoTopic), Off})

\* Both devices may have the same topic.
SharedTopics == (d1 :> {On(t1), On(t2), Off}) @@ (d2 :> {On(t1), On(NoTopic)})

=============================================================================
