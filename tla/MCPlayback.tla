---- MODULE MCPlayback ----
EXTENDS Playback
CONSTANTS fajr, f, g
Conf(all, default, own, iqama) ==
    [use_global_for_all |-> all, default_file |-> default,
     per_prayer |-> [p \in Prayers |-> own], iqama_file |-> NoName,
     iqama_per_prayer |-> [p \in Prayers |-> iqama]]
MCAssignments == {Conf(FALSE, f, g, NoName), Conf(TRUE, f, g, g)}
====
