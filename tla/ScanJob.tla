------------------------------- MODULE ScanJob -------------------------------
(***************************************************************************)
(* What a scan task promises its callers, without buckets, goroutines,     *)
(* hashes or a cache: it collects candidate files once, classifies each    *)
(* candidate at most once and never takes a classification back, runs to   *)
(* the end unless Stop is called, and after Stop classifies at most the    *)
(* one file it was working on.  Module Task implements this.               *)
(***************************************************************************)
EXTENDS Naturals

CONSTANT Files

VARIABLES phase, candidates, classified, stopped, late

jobVars == <<phase, candidates, classified, stopped, late>>

JobInit ==
    /\ phase = "none" /\ stopped = FALSE /\ late = 0
    /\ candidates = {} /\ classified = {}

\* A new task, or a restart of the server.
Reset(p) ==
    /\ phase' = p /\ stopped' = FALSE /\ late' = 0
    /\ candidates' = {} /\ classified' = {}

Begin == phase \in {"none", "finished"} /\ Reset("collecting")

Collect ==
    /\ phase = "collecting" /\ phase' = "classifying"
    /\ candidates' \in SUBSET Files
    /\ UNCHANGED <<classified, stopped, late>>

Classify(f) ==
    /\ phase = "classifying" /\ f \in candidates \ classified
    /\ stopped => late = 0
    /\ classified' = classified \cup {f}
    /\ late' = IF stopped THEN 1 ELSE 0
    /\ UNCHANGED <<phase, candidates, stopped>>

Finished ==
    /\ phase = "classifying" /\ phase' = "finished"
    /\ stopped \/ classified = candidates
    /\ UNCHANGED <<candidates, classified, stopped, late>>

StopJob ==
    /\ phase # "none" /\ stopped' = TRUE
    /\ UNCHANGED <<phase, candidates, classified, late>>

Lost == Reset("none")

JobNext == Begin \/ Collect \/ (\E f \in Files : Classify(f)) \/ Finished
           \/ StopJob \/ Lost

JobSpec == JobInit /\ [][JobNext]_jobVars
==============================================================================
