------------------------------ MODULE MCSession ------------------------------
(* Session on small instances; the .cfg files choose among these values. *)
EXTENDS Session, TLC

CONSTANTS p1, p2, p3, base, data, sub, x, y, asc, desc, mid, q1, q2

\* base/data/p1, base/data/sub/p2, base/data/sub/p3
MCUp == [e \in Paths \cup Dirs |-> CASE e \in {p2, p3} -> sub [] e \in {p1, sub} -> data
                                     [] OTHER -> base]
MCAbove == [e \in Paths \cup Dirs |-> CASE e \in {p2, p3} -> {sub, data, base}
                                        [] e \in {p1, sub} -> {data, base}
                                        [] e = data -> {base} [] OTHER -> {}]
Rank == [p \in Paths |-> CASE p = p1 -> 1 [] p = p2 -> 2 [] OTHER -> 3]
\* Rule sets that disagree about every group of two.
First(rs) == CASE rs = asc -> <<1, 2, 3>> [] rs = desc -> <<3, 2, 1>> [] OTHER -> <<2, 3, 1>>
MCKeep == [rs \in RuleSets |-> [g \in SUBSET Paths \ {{}} |->
              CHOOSE p \in g : \A o \in g : First(rs)[Rank[p]] <= First(rs)[Rank[o]]]]
MCBytes == [g \in Contents |-> 3]
MCInitial == [p \in Paths |-> x]
\* Nothing but Confirm reads the rules, so that they may as well change while neither
\* request nor scan is at work, and be settled before the confirm.
RulesEarly ==
    /\ page' # page => ~running /\ \A q \in Requests : r[q].pc = "idle"
    /\ changes > 0 /\ calls' # calls =>
          posts = <<>> /\ ~timer /\ form = ruleSet /\ rivals = {ruleSet}

\* The loop of a cleanup has read the directories of the scan and looks at no results:
\* a scan may as well go on before or after it.  It is the first scan that is stopped.
ScanElsewhere ==
    /\ scan' # scan => \A q \in Requests : r[q].pc # "clean"
    /\ scans > 1 /\ running /\ ~running' => toVisit = {}
\* One complication at a time: two requests served at once (and no scan with them), a
\* second scan, a request during the first, trouble, a change of the rules, or two free
\* blocks instead of three (not where the target is missing: then nothing is checked).
Served == {q \in Requests : r[q].pc # "idle"}
OneComplication ==
    /\ Cardinality({i \in 1..6 : CASE i = 1 -> trouble > 0 [] i = 2 -> scans > 1
                     [] i = 3 -> changes > 0 [] i = 4 -> Served = Requests
                     [] i = 5 -> scans = 1 /\ running /\ Served # {}
                     [] i = 6 -> free = 2}) <= 1
    /\ ~(running /\ Served = Requests)
    /\ calls = 0 /\ targets = {} => free = 3
Interchangeable == Permutations(Requests)
MCScans == {{data}, {sub}}
=============================================================================
