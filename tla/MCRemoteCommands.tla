--------------------------- MODULE MCRemoteCommands ---------------------------
(* Every command of grn that the modules below describe; commands of the   *)
(* same shape are one command here.                                        *)
EXTENDS RemoteCommands

Relational  == INSTANCE VdbRelational
Memorystore == INSTANCE VdbMemorystore
Kafka       == INSTANCE VdbKafka
Postgresql  == INSTANCE VdbPostgresql
Vserver     == INSTANCE VserverCommands
Vks         == INSTANCE VksCommands
Agentbase   == INSTANCE AgentbaseCommands

AllCommands ==
    Relational!All \cup Memorystore!All \cup Kafka!All \cup Postgresql!All
    \cup Vserver!All \cup Vks!All \cup Agentbase!All

(* Their real run checks the flags again, or the volume it would resize,   *)
(* after the point where a dry run has ended.                              *)
UnpredictedCommands == {Vserver!ServerCreate, Vserver!VolumeCreate, Vserver!VolumeResize}
===============================================================================
