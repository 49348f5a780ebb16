-------------------------- MODULE MCStatisticsSync --------------------------
(* Instances of StatisticsSync: "today" is a hot range over one day,        *)
(* "all" a heavy range over every day.                                      *)
EXTENDS StatisticsSync, TLC

\* Workers are interchangeable in the runs of safety properties.
WorkerSymmetry == Permutations(Workers)

NoRanges == {}
MCHot    == {"today"}
MCHeavy  == {"all"}
MCWindow == [r \in Hot \cup Heavy |->
                [t \in 1..LastDay |-> IF r = "today" THEN {t} ELSE 1..LastDay]]

\* Program points at which a live pass may outlive its lease: all but the
\* range aggregate, which is assumed to finish within a lease it just renewed.
MCSlowAt == Points \ {"plan", "ranges", "collect", "late", "lateBuilt"}

\* No aggregate in progress when the day turns.
MCMidnightAt == Points \ {"fill", "filled", "collect", "late", "lateBuilt",
                          "publish"}
AllPoints == Points
=============================================================================
