------------------------- MODULE MCNotificationSync -------------------------
(* Small instances of NotificationSync for TLC. *)
EXTENDS NotificationSync, TLC

\* Two instances in one run.  Either different jobs run side by side, every
\* user is registered, and no midnight passes; or runs of a single job may
\* overlap, users register late, and either a midnight passes or something
\* fails, while the transactions have one end only.
SideBySide == ~overlapped /\ token = Users /\ registering = {} /\ resets = 0
Unused(j) == events[j] = {} /\ point[j] = NoPoint
OneJob ==
  /\ \A i, j \in Jobs : i # j => Unused(i) \/ Unused(j)
  /\ \A v, w \in Workers : job[v] = job[w] \/ NoJob \in {job[v], job[w]}
  /\ \A j \in Jobs : \A e, f \in events[j] : e[4] = f[4]
  /\ fails + resets <= 1
Scenario == SideBySide \/ OneJob

\* No action or property tells two workers apart, two ends, or two jobs that
\* are both or neither CoinJobs.  The liveness run declares no symmetry.
Symmetry == Permutations(Workers) \cup Permutations(Ends)
JobSymmetry == Symmetry \cup Permutations(Jobs)

=============================================================================
