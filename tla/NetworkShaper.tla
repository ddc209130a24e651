----------------------------- MODULE NetworkShaper -----------------------------
(***************************************************************************)
(* NetworkShaper (client/network): the bandwidth cap that an experiment's  *)
(* profile puts in force, and the sleep that makes a download respect it.  *)
(* Units of time and of data are chosen such that every delay is whole.    *)
(***************************************************************************)
EXTENDS Integers, Sequences, FiniteSetsExt

CONSTANTS Timeline,   \* the profile's steps, [t, cap], sorted by t; a cap of 0 is none
          Sizes       \* the sizes of segments

ASSUME TimelineAssumption ==
  /\ Timeline \in Seq([t : Nat, cap : Nat]) /\ Timeline # << >>
  /\ \A i, j \in 1..Len(Timeline) : i <= j => Timeline[i].t <= Timeline[j].t
  /\ Sizes \subseteq Nat
  /\ \A i \in 1..Len(Timeline), n \in Sizes :
       Timeline[i].cap # 0 => n % Timeline[i].cap = 0

\* The cap is taken before the time is compared (a fault).
PassedNext(elapsed) ==
  {i \in 1..Len(Timeline) : \A k \in 1..(i - 1) : elapsed >= Timeline[k].t}

\* The steps the loop of current_cap_bps gets through: it breaks at the first one
\* that is still to come.
Passed(elapsed) ==
  {i \in 1..Len(Timeline) : \A k \in 1..i : elapsed >= Timeline[k].t}

\* current_cap_bps: the first step's cap before that step, too.
Cap(elapsed) ==
  Timeline[IF Passed(elapsed) = {} THEN 1 ELSE Max(Passed(elapsed))].cap

\* apply_download_delay: what is missing to the time n takes at the cap.
DownloadDelay(n, took, elapsed) ==
  LET cap == Cap(elapsed) IN
  IF cap = 0 \/ took >= n \div cap THEN 0 ELSE (n \div cap) - took
=============================================================================
