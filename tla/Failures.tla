------------------------------- MODULE Failures -------------------------------
(***************************************************************************)
(* What error.rs makes of a failure: the line's word for it, the channel   *)
(* it takes, the code a resource read has instead of a channel, and what   *)
(* its sentence tells a model to do.                                       *)
(***************************************************************************)

\* Failure::kind.
MissingKinds    == {"no_such_package", "no_such_version", "no_such_file"}
UnreadableKinds == {"malformed_archive", "unreadable_versions", "unreadable_search"}
TooLargeKinds   == {"too_large", "versions_too_large", "search_too_large", "item_too_large"}
TransientKinds  == {"rate_limited", "timed_out", "busy", "out_of_time", "unreachable", "unavailable"}
CallersKinds    == {"invalid_params", "no_such_tool", "no_such_resource", "no_such_prompt"}
OwnKinds        == {"internal", "panicked"}
FailureKinds ==
  MissingKinds \cup UnreadableKinds \cup TooLargeKinds \cup TransientKinds \cup CallersKinds
    \cup OwnKinds \cup {"path_is_directory", "unresolvable_archive_url"}

\* Mutant: what a registry was too busy for, it does not have.
CodeWithoutRates(kind) ==
  CASE kind \in TransientKinds \ {"rate_limited"} -> "try_again"
    [] kind \in TooLargeKinds \ {"versions_too_large"} -> "ask_for_less"
    [] kind \in CallersKinds -> "invalid_params"
    [] kind = "internal" -> "internal_failure"
    [] kind = "panicked" -> "internal_error"
    [] OTHER -> "ask_for_something_else"

\* Failure::channel, the code: what a client is to do about it.  A history that is too
\* long has no shorter form.
Code(kind) ==
  CASE kind \in TransientKinds -> "try_again"
    [] kind \in TooLargeKinds \ {"versions_too_large"} -> "ask_for_less"
    [] kind \in CallersKinds -> "invalid_params"
    [] kind = "internal" -> "internal_failure"
    [] kind = "panicked" -> "internal_error"
    [] OTHER -> "ask_for_something_else"

\* Failure::respond: whether a tool's caller gets a result that is an error, which a
\* model reads, or a protocol error.
ForTheModel(kind) == kind \notin CallersKinds \cup OwnKinds

\* Failure::message: what the sentence says to do next.
Sentence(kind) ==
  CASE kind \in TransientKinds -> "again"
    [] kind \in {"too_large", "search_too_large", "item_too_large"} -> "less"
    [] kind \in MissingKinds \cup {"path_is_directory", "unresolvable_archive_url",
                                   "unreadable_versions", "unreadable_search"} -> "other"
    [] OTHER -> "nothing"
==============================================================================
