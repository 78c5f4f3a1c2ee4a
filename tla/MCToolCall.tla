----------------------------- MODULE MCToolCall -----------------------------
(***************************************************************************)
(* One question, for TLC: while its call runs (ToolCall), or about one     *)
(* file of a comparison whose entry comes and goes between one asking and  *)
(* the next (Comparing), the other one at rest.                            *)
(*                                                                         *)
(* Comparing: a path that can be a file or a directory with one file in    *)
(* it, and another beside it.                                              *)
(***************************************************************************)
EXTENDS ToolCall, Comparing, TLC

CONSTANTS v1, v2, a, inA, b, t, u

VARIABLE asks  \* "call" or "comparison"

MCAbove == (a :> {}) @@ (inA :> {a}) @@ (b :> {})

\* A call that was answered before it began, and a comparison of nothing.
CallAtRest ==
  /\ tool = "document" /\ ahead = FALSE /\ stored = FALSE
  /\ now = 0 /\ phase = "lookup" /\ since = 0 /\ limit = 0
  /\ ends = [v \in Versions |-> [at |-> "none", since |-> 0]]
  /\ spent = [fetched |-> FALSE, first |-> Deadline, last |-> 0]
  /\ lookup = [asked |-> FALSE, found |-> FALSE, storeless |-> FALSE]
  /\ line = [result |-> "failed", cache |-> "none", fetch |-> Absent, from |-> "nowhere"]
  /\ ticks = [fetching |-> 0, writing |-> 0, working |-> 0]

ComparisonAtRest ==
  /\ fromFiles = [p \in Paths |-> Nothing] /\ toFiles = fromFiles /\ renames = {}
  /\ question = [path |-> a, old |-> NoPath, resource |-> FALSE]
  /\ entry = NoEntry /\ answer = NoAnswer /\ first = NoAnswer
  /\ over = NoEntry /\ downloads = 0

CallsInit ==
  \/ asks = "call" /\ Init /\ ComparisonAtRest
  \/ asks = "comparison" /\ CallAtRest /\ ComparingInit

CallsNext ==
  /\ \/ asks = "call" /\ Next /\ UNCHANGED comparingVars
     \/ asks = "comparison" /\ ComparingNext /\ UNCHANGED vars
  /\ UNCHANGED asks

CallsSpec ==
  /\ CallsInit
  /\ [][CallsNext]_<<vars, comparingVars, asks>>
  /\ WF_vars(~Over /\ Waited)
  /\ WF_vars(~Over /\ Tick)
  /\ WF_vars(~Over /\ OutOfTime)
==============================================================================
