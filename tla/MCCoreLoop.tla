----------------------------- MODULE MCCoreLoop -----------------------------
(***************************************************************************)
(* Instances of CoreLoop for TLC: plans of two or three phases.            *)
(***************************************************************************)
EXTENDS CoreLoop, Sequences

CONSTANTS f, g

\* A plan from sequences of numbers, dependencies and files.
Numbered(numbers, deps, files) ==
  [size |-> Len(numbers),
   index |-> [p \in Phases |-> IF p < Len(numbers) THEN numbers[p + 1] ELSE 0],
   dependsOn |-> [p \in Phases |-> IF p < Len(numbers) THEN deps[p + 1] ELSE {}],
   targetFiles |-> [p \in Phases |-> IF p < Len(numbers) THEN files[p + 1] ELSE {}]]

\* Plans of two phases on one file, numbered from 1, and one numbered from 0;
\* plans of three: a file that the first and the last share, a fork, dependencies
\* against the order of positions; a number given twice.  One of four, which is too many.
MCPlans ==
  {Numbered(<<1, 2>>, <<d, e>>, <<{f}, {f}>>) :
     d \in {{}, {1}, {2}}, e \in {{}, {0}, {1}}}
  \cup {Numbered(<<0, 1>>, <<{1}, {}>>, <<{}, {}>>),
        Numbered(<<1, 2, 3>>, <<{}, {3}, {}>>, <<{f}, {}, {f}>>),
        Numbered(<<1, 2, 3>>, <<{}, {1}, {1}>>, <<{}, {f}, {f}>>),
        Numbered(<<0, 1, 2>>, <<{2}, {}, {}>>, <<{g}, {f}, {f, g}>>),
        Numbered(<<1, 1, 2>>, <<{}, {}, {1}>>, <<{f}, {f}, {f}>>),
        Numbered(<<0, 1, 2, 3>>, <<{}, {}, {}, {}>>, <<{}, {}, {}, {}>>)}
=============================================================================
