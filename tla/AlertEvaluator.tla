---------------------------- MODULE AlertEvaluator ----------------------------
(***************************************************************************)
(* AlertEvaluator: what one evaluation of the alert rules, made every      *)
(* second on the workers then listed, does to the state kept for each rule *)
(* and worker, and the alerts it raises.                                   *)
(*                                                                         *)
(* Of a metric only whether it is over the rule's threshold is kept, of    *)
(* the time only the evaluations until a cool-down ends, of violations no  *)
(* more than it takes to trigger.                                          *)
(***************************************************************************)
EXTENDS Integers, FiniteSets, SequencesExt

CONSTANTS Rules, Workers,
          Duration,   \* violations in a row that trigger
          Cooldown,   \* evaluations until it may trigger again
          None        \* "no state"

ASSUME AlertAssumption == Duration \in Nat \ {0} /\ Cooldown \in Nat

Subjects == Rules \X Workers
RuleOf(s) == s[1]
WorkerOf(s) == s[2]

Calm == [violations |-> 0, triggered |-> FALSE, cooldown |-> 0]
States == [violations : 0..Duration, triggered : BOOLEAN, cooldown : 0..Cooldown]

Lower(n) == IF n = 0 THEN 0 ELSE n - 1

\* A rule's verdict on a worker whose metric is over the threshold, or not.
Violated(st) ==
    LET n == IF st.violations < Duration THEN st.violations + 1 ELSE Duration
    IN IF ~st.triggered /\ n >= Duration /\ st.cooldown = 0
       THEN [violations |-> n, triggered |-> TRUE, cooldown |-> Cooldown]
       ELSE [st EXCEPT !.violations = n]
Respected(st) == [st EXCEPT !.violations = 0, !.triggered = FALSE]

\* States that no enabled rule and listed worker need are dropped.
Evaluated(states, enabled, listed, over) ==
    [s \in Subjects |->
        IF RuleOf(s) \notin enabled \/ WorkerOf(s) \notin listed THEN None
        ELSE LET st == IF states[s] = None THEN Calm
                       ELSE [states[s] EXCEPT !.cooldown = Lower(@)]
             IN IF s \in over THEN Violated(st) ELSE Respected(st)]

IsTriggered(st) == IF st = None THEN FALSE ELSE st.triggered

\* A worker that is gone resolves its alerts; a rule that is gone does not.
Resolves(s, enabled, listed) == RuleOf(s) \in enabled

\* The alerts of the evaluation that turned states into newStates, in some order of subjects.
Raised(states, newStates, enabled, listed) ==
    LET triggered == {s \in Subjects : IsTriggered(newStates[s]) /\ ~IsTriggered(states[s])}
        resolved == {s \in Subjects : /\ IsTriggered(states[s]) /\ ~IsTriggered(newStates[s])
                                      /\ Resolves(s, enabled, listed)}
    IN SetToSeq({[subject |-> s, type |-> "triggered"] : s \in triggered}
                \cup {[subject |-> s, type |-> "resolved"] : s \in resolved})
=============================================================================
