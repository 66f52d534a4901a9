--------------------------------- MODULE Dsl ---------------------------------
(***************************************************************************)
(* dsl: a workflow that interprets a tree of activities, sequences and     *)
(* parallel blocks, which pass values on in variables.                     *)
(*                                                                         *)
(* A tree is the set of its activities, each at its place: the path to it, *)
(* from the root, as the numbers of the elements and branches.  The places *)
(* of the parallel blocks are given; at the others there are sequences.    *)
(*                                                                         *)
(* External: an attempt that is lost is made again with the same arguments *)
(* (nothing shows); the answers of activities come in any order.           *)
(***************************************************************************)
EXTENDS Integers, Sequences

CONSTANT Trees           \* what may be asked for

ActivityStatement(place, name, arguments, result) ==
  [place |-> place, name |-> name, arguments |-> arguments, result |-> result]

workflow1 ==
  [variables |-> {"arg1", "arg2"}, parallel |-> {},
   activities |-> {
     ActivityStatement(<<1>>, "activity1", <<"arg1">>, "result1"),
     ActivityStatement(<<2>>, "activity2", <<"result1">>, "result2"),
     ActivityStatement(<<3>>, "activity3", <<"arg2", "result2">>, "result3")}]
workflow2 ==
  [variables |-> {"arg1", "arg2", "arg3"}, parallel |-> {<<2>>},
   activities |-> {
     ActivityStatement(<<1>>, "activity1", <<"arg1">>, "result1"),
     ActivityStatement(<<2, 1, 1>>, "activity2", <<"result1">>, "result2"),
     ActivityStatement(<<2, 1, 2>>, "activity3", <<"arg2", "result2">>, "result3"),
     ActivityStatement(<<2, 2, 1>>, "activity4", <<"result1">>, "result4"),
     ActivityStatement(<<2, 2, 2>>, "activity5", <<"arg3", "result4">>, "result5"),
     ActivityStatement(<<3>>, "activity3", <<"result3", "result5">>, "result6")}]

VARIABLES
  root,                  \* the tree
  variables,             \* the value of each variable
  scheduled, answered,   \* activities, with the arguments they were given
  returned

vars == <<root, variables, scheduled, answered, returned>>

\* execute_statement awaits the elements of a sequence one after the other, and
\* the branches of a parallel block together: a has returned before b is called
\* if it is in an earlier element of a sequence that has both.
Before(tree, a, b) ==
  \E n \in DOMAIN a.place \cap DOMAIN b.place :
    LET sequence == SubSeq(a.place, 1, n - 1)
    IN  /\ SubSeq(b.place, 1, n - 1) = sequence /\ sequence \notin tree.parallel
        /\ a.place[n] < b.place[n]

\* What the trees of the sample are careful about: no variable is set twice, and
\* what an activity reads is given or set before it.
WritesOnce(tree) ==
  \A a \in tree.activities :
    a.result # "" => /\ a.result \notin tree.variables
                     /\ \A b \in tree.activities : b.result = a.result => b = a
ReadsWhatIsSet(tree) ==
  \A b \in tree.activities : \A n \in DOMAIN b.arguments :
    \/ b.arguments[n] \in tree.variables
    \/ b.arguments[n] # "" /\ \E a \in tree.activities :
                                Before(tree, a, b) /\ a.result = b.arguments[n]

Init ==
  /\ root \in Trees
  /\ variables = [v \in root.variables |-> <<v>>]
  /\ scheduled = {} /\ answered = {} /\ returned = FALSE

get(env, arg) == IF arg \in DOMAIN env THEN env[arg] ELSE <<"">>
Arguments(a, env) == [n \in DOMAIN a.arguments |-> get(env, a.arguments[n])]
Result(a, arguments) == <<a.name, arguments>>
Store(env, a, value) ==
  IF a.result = "" THEN env
  ELSE [v \in DOMAIN env \cup {a.result} |-> IF v = a.result THEN value ELSE env[v]]

Done == {s.activity : s \in answered}

\* Arguments are read when the activity is called.
Call(a) ==
  /\ \A s \in scheduled \cup answered : s.activity # a
  /\ \A b \in root.activities : Before(root, b, a) => b \in Done
  /\ scheduled' = scheduled \cup {[activity |-> a, arguments |-> Arguments(a, variables)]}
  /\ UNCHANGED <<root, variables, answered, returned>>

Answer(s) ==
  /\ scheduled' = scheduled \ {s} /\ answered' = answered \cup {s}
  /\ variables' = Store(variables, s.activity, Result(s.activity, s.arguments))
  /\ UNCHANGED <<root, returned>>

Return == /\ root.activities \subseteq Done /\ ~returned /\ returned' = TRUE
          /\ UNCHANGED <<root, variables, scheduled, answered>>

Progress == \/ \E a \in root.activities : Call(a)
            \/ \E s \in scheduled : Answer(s)
            \/ Return
Next == Progress

Fairness == WF_vars(Progress)
Spec == Init /\ [][Next]_vars /\ Fairness

-----------------------------------------------------------------------------
\* Every variable has its type; an activity is called once.
TypeOK ==
  /\ root \in Trees /\ returned \in BOOLEAN
  /\ \A s \in scheduled \cup answered :
       s = [activity |-> s.activity, arguments |-> s.arguments] /\ s.activity \in root.activities
  /\ \A r, s \in scheduled \cup answered : r.activity = s.activity => r = s

\* The variables solve the equations of the tree, whatever the order in which
\* branches are answered: the ones that were given are as they were, and each
\* activity was given what its arguments are now, none of them unset, and what
\* it answered is still there.  So they are what the activities compute one at
\* a time, and the workflow returns all of them.
BranchesDoNotDisturb ==
  /\ \A v \in root.variables : variables[v] = <<v>>
  /\ \A s \in scheduled \cup answered :
       /\ s.arguments = Arguments(s.activity, variables)
       /\ \A n \in DOMAIN s.activity.arguments : s.activity.arguments[n] \in DOMAIN variables
  /\ \A s \in answered :
       s.activity.result # "" =>
         variables[s.activity.result] = Result(s.activity, s.arguments)
  /\ DOMAIN variables = root.variables \cup ({a.result : a \in Done} \ {""})
  /\ returned => Done = root.activities

TreeIsWorkedOff == <>returned
=============================================================================
