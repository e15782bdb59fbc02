---------------------------- MODULE MCSafeUpdate ----------------------------
\* Sites, releases and faults for TLC.
EXTENDS SafeUpdate

Sound == [v \in Versions |-> "good"]
SecondIs(q) == [Sound EXCEPT ![2] = q]

Common ==
  [quality |-> Sound, migration |-> "none", wporg |-> TRUE, ignored |-> FALSE, faults |-> {},
   kinds |-> {"plugin"}, events |-> 3]

\* Every release and every kind of migration, with either way back.
Releases ==
  {[Common EXCEPT !.quality = SecondIs(q), !.migration = m, !.wporg = w,
                  !.faults = {"package", "flaky"}, !.events = 2] :
     q \in {"good", "gateway", "visual", "log"}, m \in {"none", "dbdelta", "direct", "later"},
     w \in BOOLEAN}

\* What may go wrong under way, one thing or two.
Accidents ==
  {[Common EXCEPT !.quality = SecondIs(q), !.migration = "dbdelta", !.wporg = w, !.faults = f] :
     q \in {"good", "visual"}, w \in BOOLEAN,
     f \in {{"crash", "lost"}, {"died", "download"}, {"lost", "download"}, {"crash", "died"}}}
    \cup {[Common EXCEPT !.quality = SecondIs(q), !.migration = "dbdelta", !.wporg = FALSE,
                         !.faults = {"copy", "rename", "package"}] : q \in {"good", "visual"}}

Others ==
  {[Common EXCEPT !.kinds = {"theme", "plugin"}, !.quality = SecondIs(q), !.faults = {"lost"}] :
     q \in {"good", "gateway", "visual", "log"}}
    \cup {[Common EXCEPT !.ignored = TRUE]}

MCSites == Releases \cup Accidents \cup Others
=============================================================================
