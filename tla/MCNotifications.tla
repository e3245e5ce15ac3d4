-------------------------- MODULE MCNotifications ---------------------------
(* Instances of Notifications for TLC. *)
EXTENDS Notifications

CONSTANTS p1, p2

OnePartition == {p1}
TwoPartitions == {p1, p2}

\* How many signals each partition gets.
OneSignal == [p \in Partitions |-> 1]
TwoSignals == [p \in Partitions |-> 2]
TwoAndOne == [p \in Partitions |-> IF p = p1 THEN 2 ELSE 1]

FirstIsUndecodable == {<<p1, 1>>}
AllDecode == {}
=============================================================================
