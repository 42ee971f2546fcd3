-------------------------------- MODULE Page --------------------------------
(***************************************************************************)
(* How the rules get from the web page to the server: the controls of the  *)
(* page call updateRules on every change, for the keep directories only    *)
(* when 400 ms passed without another change, and each call is a POST of   *)
(* its own that nobody waits for: it may overtake an earlier one and it    *)
(* may be lost.  The server keeps what came last.                          *)
(***************************************************************************)
EXTENDS Naturals, Sequences

CONSTANTS
    RuleSets,    \* what the controls can be set to
    Unset,       \* the zero value of rules.RuleSet, before the first POST
    Shown,       \* what the controls show when the page has been loaded
    MaxChanges   \* bound of the model

ASSUME PageAssumption ==
    /\ Unset \in RuleSets /\ Shown \in RuleSets
    /\ MaxChanges \in Nat

VARIABLES
    form,      \* the controls
    timer,     \* the timeout of debounce is running
    posts,     \* the POSTs on their way to /api/rules
    ruleSet,   \* RouterState.ruleSet
    changes,   \* the number of changes and reloads so far
    rivals     \* history: the rules of the page's last POST, of those that were
               \* under way with it, and what the server had when one was lost

pageVars == <<form, timer, posts, ruleSet, changes, rivals>>

PageInit ==
    /\ form = Shown /\ ruleSet = Unset
    /\ timer = FALSE /\ posts = <<>> /\ changes = 0 /\ rivals = {}

Posted(rs) ==
    /\ posts' = Append(posts, rs)
    /\ rivals' = {rs} \cup {posts[i] : i \in DOMAIN posts}

\* Wrong: the timer of the keep directories posts what was shown when it was set.
UpdateBeforeChange(rs) == Posted(form)

\* updateRules reads the controls and posts them.
UpdateRules(rs) == Posted(rs)

Another == changes < MaxChanges /\ changes' = changes + 1

Change(rs) == Another /\ rs # form /\ form' = rs

\* A select or a check box.
ChangeAtOnce(rs) == Change(rs) /\ UpdateRules(rs) /\ UNCHANGED <<timer, ruleSet>>

\* The field of the keep directories; typing on starts the timer anew.
ChangeDebounced(rs) ==
    Change(rs) /\ timer' = TRUE /\ UNCHANGED <<posts, ruleSet, rivals>>

TimerFires ==
    /\ timer /\ timer' = FALSE
    /\ UpdateRules(form)
    /\ UNCHANGED <<form, ruleSet, changes>>

\* Loading the page anew resets the controls, drops the timer and posts nothing.
Reload ==
    /\ changes > 0 /\ Another
    /\ form' = Shown /\ timer' = FALSE /\ rivals' = {}
    /\ UNCHANGED <<posts, ruleSet>>

Without(i) == posts' = SubSeq(posts, 1, i - 1) \o SubSeq(posts, i + 1, Len(posts))

\* The handler of /api/rules.
Deliver(i) ==
    /\ i \in DOMAIN posts /\ Without(i)
    /\ ruleSet' = posts[i]
    /\ UNCHANGED <<form, timer, changes, rivals>>

\* The POST does not reach the server; fetch is not tried again.
Lose(i) ==
    /\ i \in DOMAIN posts /\ Without(i)
    /\ rivals' = IF rivals = {} THEN {} ELSE rivals \cup {ruleSet}
    /\ UNCHANGED <<form, timer, ruleSet, changes>>

PageNext == \/ \E rs \in RuleSets : ChangeAtOnce(rs) \/ ChangeDebounced(rs)
            \/ TimerFires \/ Reload
            \/ \E i \in DOMAIN posts : Deliver(i) \/ Lose(i)

PageTypeOK ==
    /\ form \in RuleSets /\ ruleSet \in RuleSets
    /\ timer \in BOOLEAN /\ posts \in Seq(RuleSets) /\ changes \in Nat
    /\ rivals \subseteq RuleSets

\* Once a change has been made and nothing is on its way, the page shows rules that
\* it has posted, and the server applies these or the rules of a POST that was under
\* way at the same time, or what it had when a POST was lost: never rules that were
\* settled before, and never a state of the controls in the middle of a change.
RulesSettle == rivals # {} /\ ~timer /\ posts = <<>> => form \in rivals /\ ruleSet \in rivals
=============================================================================
