---------------------------- MODULE MCKmiDefines ----------------------------
(* Instances of KmiDefines for TLC: five modules in chunks of two make two full *)
(* chunks, a short one and two workers.                                         *)
EXTENDS KmiDefines, TLC

MCModules == <<"a.ko", "b.ko", "c.ko", "d.ko", "e.ko">>
MCHeader  == {"autoconf.h", "b.h"}
MCDepsOf  == [f \in {VmLinux} \cup {MCModules[i] : i \in 1 .. 5} |->
                IF f \in {"a.ko", "c.ko"} THEN MCHeader ELSE {"autoconf.h"}]
=============================================================================
