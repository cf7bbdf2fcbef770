---------------------------- MODULE MCWorldSave ----------------------------
(* One or two objects, an item of a storage area and one of the world, and   *)
(* the files that hold something, for the runs of WorldSave.                 *)
EXTENDS WorldSave

CONSTANTS s1, s2
MCHome == [s \in Serials |-> IF s = s1 THEN "storage" ELSE "items"]

Filled(file) == file \in {"objects", "storage", "guilds"} \cup { MCHome[s] : s \in Serials }
MCSaveFiles == SelectSeq(SaveContext, Filled)
=============================================================================
