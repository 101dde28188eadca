----------------------------- MODULE StackDepth -----------------------------
(***************************************************************************)
(* The bound that tools/stack_depth.py prints for one stack, and the       *)
(* processor that has to stay below it.                                    *)
(*                                                                         *)
(* The tool walks the call graph of an image: a cycle or an edge it cannot *)
(* follow leaves no number, otherwise the total is the deepest chain of    *)
(* the thread plus one exception frame and one handler chain for every     *)
(* level that can preempt.  Levels are declared by hand; a handler nobody  *)
(* declared is a level of its own.                                         *)
(*                                                                         *)
(* The image, the declarations and the levels the firmware really sets are *)
(* chosen at the start, the tool runs once, and then the processor calls,  *)
(* returns and takes interrupts.  Indirect calls are edges to what their   *)
(* declarations name (taken as true), or to the stand-in without a frame.  *)
(* Left out: reading the compiler's and the linker's output.               *)
(***************************************************************************)
EXTENDS Integers, Sequences, FiniteSets, FiniteSetsExt, SequencesExt

CONSTANTS
  Main,         \* what the processor runs in thread mode; nothing calls it
  Helpers,      \* functions that are called
  Handlers,     \* functions of the vector table
  Unfollowed,   \* the stand-in for a call that could not be followed
  Images,       \* call graphs
  Frame,        \* bytes of each function, also of what the tool cannot see
  EXC_FRAME,    \* bytes the hardware pushes
  Levels,       \* preemption levels; the lower preempts
  Undeclared, Off,
  NoNumber,
  MaxNesting    \* bound: functions on the stack

Functions == {Main} \cup Helpers \cup Handlers

ASSUME StackAssumption ==
  /\ Images \subseteq [Functions -> SUBSET (Helpers \cup {Unfollowed})]
  /\ Frame \in [Functions \cup {Unfollowed} -> Nat]
  /\ {EXC_FRAME, MaxNesting} \subseteq Nat /\ Levels \subseteq Int

VARIABLES
  edges,      \* the call graph, indirect calls resolved
  levels,     \* what the declarations say of each handler
  priority,   \* what the firmware sets at run time
  report,     \* what the tool says
  stack       \* the functions that are on the stack, thread first

image == << edges, levels, priority >>
vars  == << image, report, stack >>

----------------------------------------------------------------------------
(* The tool *)

\* find_cycle looks among the functions that have a frame.
Reached[n \in Nat] ==
  IF n = 0 THEN edges
  ELSE [f \in Functions |->
          UNION {{t} \cup (IF t = Unfollowed THEN {} ELSE Reached[n - 1][t])
                   : t \in edges[f]}]
Below == Reached[Cardinality(Functions)]

find_cycle == \E f \in Functions : f \in Below[f]

\* deepest: the frame and the deepest chain below it; a KeyError, so no number,
\* if any chain from the root reaches something without a frame.
Followed(root) == Unfollowed \notin Below[root]

DeepestWithin[n \in Nat] ==
  [f \in Functions |->
     Frame[f] + (IF n = 0 THEN 0
                 ELSE Max({0} \cup {DeepestWithin[n - 1][t] : t \in edges[f]}))]
deepest(root) == DeepestWithin[Cardinality(Functions)][root]

roots_of == {f \in Functions : \A g \in Functions : f \notin edges[g]}

\* Handlers of one level do not nest; one that was not declared may nest with all.
Fault_GroupOf(h) == << "level", levels[h] >>
GroupOf(h) == IF levels[h] = Undeclared THEN << "undeclared", h >>
              ELSE << "level", levels[h] >>

Enabled == {h \in Handlers : levels[h] # Off}
ThreadRoots == roots_of \ Handlers

nest_total ==
  LET thread == Max({0} \cup {deepest(r) : r \in ThreadRoots})
      LevelCost(k) == EXC_FRAME
                   + Max({deepest(h) : h \in {x \in Enabled : GroupOf(x) = k}})
  IN  MapThenSumSet(LevelCost, {GroupOf(h) : h \in Enabled}) + thread

\* A root or a handler that could not be followed refuses the total.
Total == IF \A f \in ThreadRoots \cup Enabled : Followed(f) THEN nest_total
         ELSE NoNumber
Row(root) == IF Followed(root) THEN deepest(root) ELSE NoNumber

Analyse ==
  /\ report = << >>
  /\ report' = IF find_cycle
               THEN [total |-> NoNumber, row |-> << >>]
               ELSE [total |-> Total, row |-> [f \in roots_of |-> Row(f)]]
  /\ UNCHANGED << image, stack >>

----------------------------------------------------------------------------
(* The processor *)

Current == Last(stack)
\* An image that got no number at all is not run: there is nothing to exceed.
Runs    == report # << >> /\ report.row # << >> /\ Len(stack) < MaxNesting
Active  == Handlers \cap ToSet(stack)

Call ==
  /\ Runs
  /\ \E f \in edges[Current] \ {Unfollowed} : stack' = Append(stack, f)
  /\ UNCHANGED << image, report >>

Return ==
  /\ Len(stack) > 1
  /\ stack' = Front(stack)
  /\ UNCHANGED << image, report >>

Interrupt(h) ==
  /\ Runs
  /\ levels[h] # Off
  /\ \A a \in Active : priority[h] < priority[a]
  /\ stack' = Append(stack, h)
  /\ UNCHANGED << image, report >>

Init ==
  /\ edges \in Images
  /\ levels \in [Handlers -> Levels \cup {Undeclared, Off}]
  /\ priority \in [Handlers -> Levels]
  /\ \A h \in Handlers : levels[h] \in Levels => priority[h] = levels[h]
  /\ \A h \in Handlers : levels[h] = Off => priority[h] = Max(Levels)
  /\ report = << >>
  /\ stack = << Main >>

Next == Analyse \/ Call \/ Return \/ \E h \in Handlers : Interrupt(h)

Spec == Init /\ [][Next]_vars

----------------------------------------------------------------------------
(* Properties *)

Cost(f) == Frame[f] + (IF f \in Handlers THEN EXC_FRAME ELSE 0)
Used(s) == FoldLeft(LAMBDA sum, f : sum + Cost(f), 0, s)

\* What was called from the handler that runs, or from the thread.
Chain == LET starts == {i \in 1 .. Len(stack) : stack[i] \in Handlers \cup {Main}}
         IN  SubSeq(stack, Max(starts), Len(stack))

\* If the tool prints a total, no nesting of calls and interrupts that the
\* levels allow uses more of the stack; and the row of a root bounds the chain
\* of calls that starts at it.  What it cannot bound has no number: an image
\* that recurses, a call that could not be followed.
BoundHolds ==
  report # << >> =>
    /\ report.total # NoNumber => Used(stack) <= report.total
    /\ Head(Chain) \in DOMAIN report.row =>
         LET row == report.row[Head(Chain)]
         IN  row # NoNumber =>
               Used(Chain) <= row + (IF Head(Chain) \in Handlers THEN EXC_FRAME ELSE 0)
=============================================================================
