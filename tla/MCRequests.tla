------------------------------ MODULE MCRequests ------------------------------
(***************************************************************************)
(* The two clients over a network, for TLC: a request to the blob service  *)
(* (BlobApi) or a call to a registry (Sources), the other one at rest.     *)
(*                                                                         *)
(* Blobs: each request about one of three names, a delete of two of them,  *)
(* as of an entry, and a listing.  Registries: every call that one of them *)
(* is asked otherwise than another; a body is up to twice the limit.       *)
(***************************************************************************)
EXTENDS BlobApi, Sources

CONSTANTS known, other

VARIABLE over  \* "blobs" or "registries"

MCRequests ==
  [kind : {"put", "head", "read"}, names : {{2}}]
    \cup {[kind |-> "delete", names |-> {1, 2}], [kind |-> "list", names |-> {}]}

MCAsks ==
  [kind : {"archive", "search"}, registry : Registries]
    \cup [kind : {"versions"}, registry : {"npm", "go"}]

\* A request that is answered, and a call that has ended.
BlobsAtRest ==
  /\ held = {} /\ honest = TRUE
  /\ request = [kind |-> "head", names |-> {2}] /\ step = "whole"
  /\ pc = "done" /\ attempt = 1 /\ wait = Backoff /\ sent = {} /\ reply = NoReply
  /\ cursor = NoCursor /\ followed = {} /\ listed = {}
  /\ answer = "missing" /\ elapsed = 0 /\ moves = MaxMoves
  /\ throughout = {} /\ ever = {} /\ absent = Names

SourcesAtRest ==
  /\ ask = [kind |-> "search", registry |-> "npm"]
  /\ stock = "version" /\ been = {stock} /\ releases = 0
  /\ document = [d \in Documents |-> NotAsked]
  /\ reached = {} /\ spent = 0
  /\ outcome = "hits"

RequestsInit ==
  \/ over = "blobs" /\ Init /\ SourcesAtRest
  \/ over = "registries" /\ BlobsAtRest /\ SourcesInit

RequestsNext ==
  /\ \/ over = "blobs" /\ Next /\ UNCHANGED sourceVars
     \/ over = "registries" /\ SourcesNext /\ UNCHANGED vars
  /\ UNCHANGED over

RequestsSpec ==
  /\ RequestsInit
  /\ [][RequestsNext]_<<vars, sourceVars, over>>
  /\ WF_vars(Client)
  /\ SourcesFairness
==============================================================================
