---------------------------- MODULE MCBacktester ----------------------------
(***************************************************************************)
(* One backtest and one simulated broker, with every source, both maps,    *)
(* both kinds of exit condition and none, and every kind of destination.   *)
(***************************************************************************)
EXTENDS Backtester

CONSTANTS s1, s2

Def(source, start, map, dest, n, t) ==
    [source |-> source, start_time |-> start, map |-> map, dest |-> dest,
     max_tick_n |-> n, max_timestamp |-> t]

MCDefinitions ==
    {Def("Random", 0, "FastMap", "Sink", 2, None), Def("Random", 0, "LiveMap", "Sink", None, 3),
     Def("Random", 0, "FastMap", "SimBroker", 0, None), Def("Random", 0, "FastMap", "Sink", None, None),
     Def("Flatfile", 0, "FastMap", "Sink", None, None), Def("Flatfile", 2, "LiveMap", "Sink", 0, None),
     Def("Flatfile", 3, "FastMap", "Sink", None, 2),
     Def("Redis", 0, "FastMap", "Sink", None, None), Def("Postgres", 1, "LiveMap", "Sink", None, None)}

MCRawStreams == {[source |-> "Flatfile", start_time |-> 0]}
=============================================================================
