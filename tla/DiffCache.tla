------------------------------ MODULE DiffCache ------------------------------
(***************************************************************************)
(* What the cache promises the tools, with no blob in sight: a question is *)
(* answered with the comparison it asks for, and an answer marked cached   *)
(* is made of comparisons that earlier calls worked out: its tree of the   *)
(* one asked for, its patches of one under the same diff_id.  Nothing      *)
(* obliges the cache to remember, so every question may be answered        *)
(* afresh.                                                                 *)
(***************************************************************************)
EXTENDS Answers

CONSTANTS
  Calls,      \* tool calls, resource reads and requests to the entries route
  Questions   \* a question is the nonempty set of keys whose comparison answers it

VARIABLES
  asked,      \* the question of each call, {} for a call not under way
  given,      \* the answer of each call, NoAnswer before there is one
  computed    \* every key whose comparison some call has worked out

vars == <<asked, given, computed>>

TypeOK ==
  /\ asked \in [Calls -> Questions \cup {{}}]
  /\ given \in [Calls -> Answer]
  /\ computed \subseteq Keys

Init ==
  /\ asked = [c \in Calls |-> {}]
  /\ given = [c \in Calls |-> NoAnswer]
  /\ computed = {}

Waiting(c) == asked[c] # {} /\ given[c] = NoAnswer

Ask(c) ==
  /\ asked[c] = {}
  /\ \E q \in Questions : asked' = [asked EXCEPT ![c] = q]
  /\ UNCHANGED <<given, computed>>

Compute(c) ==
  /\ Waiting(c)
  /\ \E k \in asked[c] : computed' = computed \cup {k}
  /\ UNCHANGED <<asked, given>>

(***************************************************************************)
(* The answers to a question that is still open: an entry whose tree is of *)
(* a key asked for, a comparison worked out, or none.                      *)
(***************************************************************************)
EntriesOf(k) ==
  {CachedOf({k}, {p}) : p \in {j \in computed : DiffId[j] = DiffId[k]}}
    \cup {CachedOf({j}, {}) : j \in {k} \cap Omitting}

Allowed(c) ==
  LET known == asked[c] \cap computed
  IN  (UNION {EntriesOf(k) : k \in known})
        \cup {FreshOf(k) : k \in known} \cup {Nothing(kind) : kind \in Empty}

Give(c) ==
  /\ Waiting(c)
  /\ \E a \in Allowed(c) : given' = [given EXCEPT ![c] = a]
  /\ UNCHANGED <<asked, computed>>

\* A deployment without a store answers in the step that works the comparison out.
ComputeAndGive(c) ==
  /\ Waiting(c)
  /\ \E k \in asked[c] :
       /\ computed' = computed \cup {k}
       /\ given' = [given EXCEPT ![c] = FreshOf(k)]
  /\ UNCHANGED asked

Close(c) ==
  /\ given[c] # NoAnswer
  /\ asked' = [asked EXCEPT ![c] = {}]
  /\ given' = [given EXCEPT ![c] = NoAnswer]
  /\ UNCHANGED computed

Next ==
  \E c \in Calls : Ask(c) \/ Compute(c) \/ Give(c) \/ ComputeAndGive(c) \/ Close(c)

Spec == Init /\ [][Next]_vars
==============================================================================
