------------------------------- MODULE RuleMatcher -------------------------------
(***************************************************************************)
(* RuleMatcher, a list of rules that every add_rule appends to and sorts   *)
(* by priority, and ModeManager, which asks it in RULES mode.  What a rule *)
(* matches (suffix, keyword, network, port, final) is a set of targets.    *)
(***************************************************************************)
EXTENDS Integers, Sequences, Functions

CONSTANTS
  Targets,
  Covers,      \* pattern to the targets its rule matches
  Final,       \* the pattern of the default list's last rule, "final"
  Priorities,  \* what callers pass; add_rule's default is 0
  MaxRules,    \* bound on the list
  MaxAdded,    \* bound on the rules added since the last clear
  MaxDecided   \* bound on the decisions counted

VARIABLES
  mode,      \* _mode
  rules,     \* _rules
  added,     \* (history) rules added since the last clear
  decisions  \* _stats: proxied and direct requests

vars == <<mode, rules, added, decisions>>

Patterns == DOMAIN Covers
Rule(p, isProxy, n, serial) ==
  [pattern |-> p, proxy |-> isProxy, priority |-> n, serial |-> serial]

\* Faulty: sorted ascending and reversed, so equal priorities change places.
InsertReversed(list, rule) ==
  LET n == CHOOSE n \in 0..Len(list) :
             \A i \in DOMAIN list : i <= n <=> list[i].priority > rule.priority
  IN SubSeq(list, 1, n) \o <<rule>> \o SubSeq(list, n + 1, Len(list))

\* append, and a stable sort with reverse=True of a list that was in order: the
\* rule goes behind the n rules that are not below it.
Insert(list, rule) ==
  LET n == CHOOSE n \in 0..Len(list) :
             \A i \in DOMAIN list : i <= n <=> list[i].priority >= rule.priority
  IN SubSeq(list, 1, n) \o <<rule>> \o SubSeq(list, n + 1, Len(list))

\* The default list: everything at priority 0, with "final" in the end.
Init ==
  /\ mode = "rules"
  /\ \E p \in Patterns \ {Final} :
       rules = <<Rule(p, TRUE, 0, 0), Rule(Final, FALSE, 0, 1)>>
  /\ added = 2
  /\ decisions = [proxied |-> 0, direct |-> 0]

\* ModeManager adds at priority 0.
AddRule(p, isProxy, n) ==
  /\ Len(rules) < MaxRules /\ added < MaxAdded
  /\ rules' = Insert(rules, Rule(p, isProxy, n, added))
  /\ added' = added + 1
  /\ UNCHANGED <<mode, decisions>>

\* The first rule with the pattern, whichever it is.
RemoveRule(p) ==
  \E i \in DOMAIN rules :
    /\ rules[i].pattern = p
    /\ \A j \in 1..(i - 1) : rules[j].pattern # p
    /\ rules' = SubSeq(rules, 1, i - 1) \o SubSeq(rules, i + 1, Len(rules))
    /\ UNCHANGED <<mode, added, decisions>>

\* load_rules over two entries: one without a priority gets 1000 - i.
LoadRules(p, q, n) ==
  /\ rules' = Insert(<<Rule(p, TRUE, 1000, 0)>>, Rule(q, FALSE, n, 1))
  /\ added' = 2
  /\ UNCHANGED <<mode, decisions>>

ClearRules ==
  /\ rules' = <<>>
  /\ added' = 0
  /\ UNCHANGED <<mode, decisions>>

SetMode(m) == mode' = m /\ UNCHANGED <<rules, added, decisions>>

\* match: the first that matches decides, and direct when none does.
Match(t) ==
  \E i \in DOMAIN rules :
    /\ t \in Covers[rules[i].pattern] /\ rules[i].proxy
    /\ \A j \in 1..(i - 1) : t \notin Covers[rules[j].pattern]

ShouldProxy(t) ==
  LET proxied == mode = "global" \/ (mode = "rules" /\ Match(t)) IN
  /\ decisions.proxied + decisions.direct < MaxDecided
  /\ decisions' = IF proxied THEN [decisions EXCEPT !.proxied = @ + 1]
                  ELSE [decisions EXCEPT !.direct = @ + 1]
  /\ UNCHANGED <<mode, rules, added>>

Next ==
  \/ \E p \in Patterns, isProxy \in BOOLEAN, n \in Priorities \cup {0} : AddRule(p, isProxy, n)
  \/ \E p, q \in Patterns, n \in Priorities \cup {999} : LoadRules(p, q, n)
  \/ \E p \in Patterns : RemoveRule(p)
  \/ ClearRules
  \/ \E m \in {"global", "rules", "direct"} : SetMode(m)
  \/ \E t \in Targets : ShouldProxy(t)

\* "Higher priority rules first", and among equals the one added first, after any
\* history of additions, removals and loads: the rule that decides about a target
\* is the best of all that cover it.
BestRuleDecides ==
  \A t \in Targets :
    LET covering == {r \in Range(rules) : t \in Covers[r.pattern]}
        Better(r, s) == r.priority > s.priority \/ (r.priority = s.priority /\ r.serial < s.serial)
    IN Match(t) <=> \E r \in covering : r.proxy /\ \A s \in covering \ {r} : Better(r, s)
=============================================================================
