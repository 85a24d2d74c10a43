----------------------------- MODULE MCCollector -----------------------------
(* Small instance of Collector: one or two files per collector, two        *)
(* contents, lists long enough for a failure between two files, and a      *)
(* product whose type has a "." in it.                                     *)
EXTENDS Collector

CONSTANTS resources, properties, dotted, certificates, apps, cores, b1, b2

MCNames == {resources, properties, dotted, certificates, apps, cores}
MCBodies == {b1, b2}
File(n, b) == [name |-> n, body |-> b]

MCOpsManagerLists ==
  {<<>>, <<File(dotted, b1)>>}
         \cup {<<File(resources, b)>> : b \in MCBodies}
         \cup {<<File(resources, b), File(properties, c)>> : b, c \in MCBodies}
MCCredhubLists == {<<File(certificates, b)>> : b \in MCBodies}
MCUsageLists == {<<File(apps, b1)>>, <<File(apps, b2), File(cores, b1)>>}
MCCoreLists == {<<File(cores, b)>> : b \in MCBodies}
=============================================================================
