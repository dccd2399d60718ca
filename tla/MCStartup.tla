------------------------------ MODULE MCStartup ------------------------------
(* Startup with the arguments main.cpp:43-94 declares (those that no        *)
(* decision depends on are left out), command lines of up to three elements *)
(* after the name of the program, and a few rule files.                     *)
EXTENDS Startup

Opt(n) == [kind |-> "long", of |-> n]
Letters(s) == [kind |-> "short", of |-> s]

MCArguments == {"command", "verbose", "help", "version", "force-remove-semaphore", "reload",
                "benchmark-count", "manual-scanning", "action", "sub-action"}
MCLongNames == [n \in MCArguments \ {"command", "action", "sub-action"} |-> n]
MCShortNames == [v |-> "verbose", h |-> "help"]
MCPositionals == <<"command", "action", "sub-action">>
MCValued == {"benchmark-count"}

Elements == {Word("start"), Word("dump"), Word("debug"), Word("rules"), Word("1"),
             Opt("reload"), Opt("force-remove-semaphore"), Opt("benchmark-count"), Opt("manual-scanning"),
             Letters(<<"v", "h">>), Letters(<<>>), Opt("bogus")}
Often == {Word("start"), Word("dump"), Word("rules"), Word("1"),
          Opt("force-remove-semaphore"), Opt("benchmark-count")}
UpTo(n, elements) == UNION {[1..k -> elements] : k \in 0..n}
MCArgvs == {<<Word("ananicy-cpp-ng")>> \o s : s \in UpTo(2, Elements) \cup UpTo(3, Often)}

Line(r) == [brackets |-> TRUE, before |-> 0, after |-> <<>>, rule |-> r]
Around(before, r, after) == [brackets |-> TRUE, before |-> before, after |-> after, rule |-> r]

Game == [type |-> "Game", nice |-> "-5", ioclass |-> "idle", sched |-> Null]
Doom == [name |-> "doom", type |-> "Game", nice |-> Null, oom |-> "100"]
DoomToo == [name |-> "doom", type |-> "Tool"]
Quake == [name |-> "quake", type |-> "Game"]
Odd == [name |-> "odd", type |-> NotString]
Slice(quota) == [cgroup |-> "games", CPUQuota |-> quota]

MCFileKind == [games |-> "rules", more |-> "rules", kinds |-> "types", groups |-> "cgroups"]

MCDirectories ==
    {[games |-> <<Line(DoomToo), Line(Doom)>>, kinds |-> <<Line(Game)>>,
      groups |-> <<Line(Slice("half"))>>],
     [games |-> <<Around(1, DoomToo, <<" ">>), Around(0, Doom, <<" ", "#">>),
                  Around(1, Quake, <<"#">>)>>,
      kinds |-> <<Line(Game)>>, groups |-> <<Line(Slice(NotString))>>],
     [games |-> <<Line(Odd)>>],
     [games |-> <<Line(Doom)>>, more |-> <<Line(DoomToo)>>]}
=============================================================================
