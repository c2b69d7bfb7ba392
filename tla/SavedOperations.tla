--------------------------- MODULE SavedOperations ---------------------------
(***************************************************************************)
(* The saved operations an engine serves (.bittice_ops.json), the cache of *)
(* their definitions, the cache of their responses, and the requests that  *)
(* read and edit them: handle_request of server/mod.rs with                *)
(* response_cache.rs and the load and save of core/saved_queries.rs.       *)
(*                                                                         *)
(* An operation is the number of the edit that wrote it; what it computes  *)
(* is left to TableSearch and JoinQuery.  Both caches belong to one server  *)
(* of the engine.  Authenticated reads, which skip the response cache, and *)
(* I/O errors are left out; a batch is one in mode merge_first_data, the   *)
(* only mode whose response is stored.                                     *)
(***************************************************************************)
EXTENDS Integers, FiniteSets, Sequences

CONSTANTS
    Name,        \* the names of operations
    Cacheable,   \* BITTICE_RESPONSE_CACHE_OPS
    BatchOf,     \* for a batch the operation it runs, for any other its own name
    MaxEntries,  \* BITTICE_RESPONSE_CACHE_MAX_ENTRIES
    MaxConcurrent, \* BITTICE_MAX_CONCURRENT_QUERIES
    Client,      \* the requests being handled
    Server,      \* the servers, one per start of the engine, each with its caches
    Nothing

ASSUME BatchesRunOperations == BatchOf \in [Name -> Name]
ASSUME LimitsArePositive == MaxEntries \in Nat \ {0} /\ MaxConcurrent \in Nat \ {0}

VARIABLES
    opsFile,    \* .bittice_ops.json
    opsCache,   \* ops_cache of each server, with how it was loaded
    responses,  \* response_cache of each server, the oldest entry first
    req,        \* the requests
    edits,      \* history: edits begun
    acked,      \* history: per server and name the last edit acknowledged
    ackedAt,    \* history: the clears of the responses before that
    clears,     \* history: how often each server's responses were cleared
    damaged     \* history: an edit loaded before another saved, or died saving

opsVars == <<opsFile, opsCache, responses, req, edits, acked, ackedAt, clears, damaged>>

-----------------------------------------------------------------------------
(* State                                                                   *)

(* An operation: the edit that wrote it, and whether it is there.          *)
Op == [edit : Nat, there : BOOLEAN]
Saved == [edit |-> 0, there |-> TRUE]
Missing == [edit |-> 0, there |-> FALSE]
NoOps == [n \in Name |-> Missing]

(* load_operations_with_filter(..).unwrap_or_default(): a text that does   *)
(* not parse has no operations.                                            *)
LoadedOps == IF opsFile.torn THEN NoOps ELSE opsFile.ops

Free == [pc |-> "free", start |-> 0, name |-> Nothing, op |-> Missing, ops |-> NoOps,
         hit |-> FALSE, born |-> 0, put |-> 0, since |-> 0, sinceAt |-> 0, from |-> 0,
         raced |-> FALSE, specs |-> {}]

Reading == {"lookup", "probe", "compute"}
Loaded == {"truncate", "write"}
Saving == {"write", "invalidate"}

In(S) == {c \in Client : req[c].pc \in S}

(* A server's definitions as loaded now.  History: a request that another  *)
(* server still answers was writing the file.                              *)
FromFile(s) == [ops |-> LoadedOps, foreign |-> \E c \in In({"write"}) : req[c].start # s]

OpsInit ==
    /\ opsFile = [torn |-> FALSE, ops |-> [n \in Name |-> Saved]]
    /\ opsCache = [s \in Server |-> Nothing]
    /\ responses = [s \in Server |-> <<>>]
    /\ req = [c \in Client |-> Free]
    /\ edits = 0
    /\ acked = [s \in Server |-> [n \in Name |-> 0]]
    /\ ackedAt = [s \in Server |-> [n \in Name |-> 0]]
    /\ clears = [s \in Server |-> 0]
    /\ damaged = FALSE

Moves(c, rec) == req' = [req EXCEPT ![c] = rec]

-----------------------------------------------------------------------------
(* Reads                                                                   *)

(* query_concurrency_middleware: beyond the limit a request is refused at  *)
(* once, with 503, and changes nothing.                                    *)
BeginRead(c, s, n) ==
    /\ req[c].pc = "free"
    /\ Cardinality(In(Reading)) < MaxConcurrent
    /\ Moves(c, [Free EXCEPT !.pc = "lookup", !.start = s, !.name = n,
                   !.since = acked[s][BatchOf[n]], !.sinceAt = ackedAt[s][BatchOf[n]],
                   !.from = clears[s]])
    /\ UNCHANGED <<opsFile, opsCache, responses, edits, acked, ackedAt, clears, damaged>>

(* The cached definitions, loaded under the write lock when there are none *)
(* or when they are older than a minute.                                   *)
LookupOps(c, fresh) ==
    LET s == req[c].start
        cached == IF fresh \/ opsCache[s] = Nothing THEN FromFile(s) ELSE opsCache[s]
    IN  /\ opsCache' = [opsCache EXCEPT ![s] = cached]
        /\ Moves(c, [req[c] EXCEPT !.op = cached.ops[BatchOf[req[c].name]], !.born = clears[s],
                       !.raced = cached.foreign \/ In(Saving) # {},
                       !.pc = IF cached.ops[req[c].name].there THEN "probe" ELSE "answered"])

Lookup(c) ==
    /\ req[c].pc = "lookup"
    /\ \E expired \in BOOLEAN : LookupOps(c, expired)
    /\ UNCHANGED <<opsFile, responses, edits, acked, ackedAt, clears, damaged>>

EntriesOf(s, n) == {i \in 1 .. Len(responses[s]) : responses[s][i].name = n}

(* The key of a HashMap is removed: no name is in the sequence twice.      *)
Without(seq, n) ==
    LET at == {i \in 1 .. Len(seq) : seq[i].name = n}
        i == CHOOSE i \in at : TRUE
    IN  IF at = {} THEN seq ELSE SubSeq(seq, 1, i - 1) \o SubSeq(seq, i + 1, Len(seq))

(* ResponseCache::get: an entry found to be older than the TTL is removed. *)
ProbeHits(c) ==
    /\ req[c].pc = "probe"
    /\ req[c].name \in Cacheable
    /\ \E i \in EntriesOf(req[c].start, req[c].name) :
         LET e == responses[req[c].start][i]
         IN  Moves(c, [req[c] EXCEPT !.pc = "answered", !.hit = TRUE, !.op = e.op,
                         !.born = e.born, !.put = e.put])
    /\ UNCHANGED <<opsFile, opsCache, responses, edits, acked, ackedAt, clears, damaged>>

(* A miss.  A batch loads the definitions anew before it runs them.        *)
ProbeMisses(c) ==
    /\ req[c].pc = "probe"
    /\ LET s == req[c].start
           n == req[c].name
           loaded == FromFile(s)
       IN  /\ responses' = [responses EXCEPT ![s] = Without(@, n)]
           /\ IF BatchOf[n] # n
              THEN /\ opsCache' = [opsCache EXCEPT ![s] = loaded]
                   /\ Moves(c, [req[c] EXCEPT !.pc = "compute", !.op = loaded.ops[BatchOf[n]],
                                  !.born = clears[s], !.raced = In(Saving) # {}])
              ELSE /\ Moves(c, [req[c] EXCEPT !.pc = "compute"])
                   /\ UNCHANGED opsCache
    /\ UNCHANGED <<opsFile, edits, acked, ackedAt, clears, damaged>>

(* ResponseCache::put: at the limit the oldest entry goes first, also when *)
(* the key is among the entries.                                           *)
Stored(seq, entry) ==
    Append(Without(IF Len(seq) >= MaxEntries THEN Tail(seq) ELSE seq, entry.name), entry)

Computed(c) ==
    /\ req[c].pc = "compute" /\ req[c].op.there
    /\ LET s == req[c].start
           entry == [name |-> req[c].name, op |-> req[c].op, born |-> req[c].born, put |-> clears[s]]
       IN  responses' = [responses EXCEPT ![s] = IF req[c].name \in Cacheable THEN Stored(@, entry) ELSE @]
    /\ Moves(c, [req[c] EXCEPT !.pc = "answered"])
    /\ UNCHANGED <<opsFile, opsCache, edits, acked, ackedAt, clears, damaged>>

(* A query that fails answers 4xx or 5xx; a batch reports a member that    *)
(* fails, or is not there, inside a 200.  Neither is stored.               *)
ComputeFails(c) ==
    /\ req[c].pc = "compute"
    /\ Moves(c, Free)
    /\ UNCHANGED <<opsFile, opsCache, responses, edits, acked, ackedAt, clears, damaged>>

Succeeded(c) == req[c].pc = "answered" /\ req[c].op.there

Answered(c) ==
    /\ req[c].pc = "answered"
    /\ Moves(c, Free)
    /\ UNCHANGED <<opsFile, opsCache, responses, edits, acked, ackedAt, clears, damaged>>

-----------------------------------------------------------------------------
(* Edits                                                                   *)

(* POST, PUT and DELETE of /_config load the file, without a lock.  POST   *)
(* wants a new name, PUT and DELETE a known one.                           *)
BeginEdit(c, s, n, there) ==
    /\ req[c].pc = "free"
    /\ edits' = edits + 1
    /\ LET ops == LoadedOps
       IN  /\ there \/ ops[n].there
           /\ Moves(c, [Free EXCEPT !.pc = "truncate", !.start = s, !.name = n,
                          !.ops = [ops EXCEPT ![n] = [edit |-> edits + 1, there |-> there]]])
    /\ damaged' = (damaged \/ In(Loaded) # {})
    /\ UNCHANGED <<opsFile, opsCache, responses, acked, ackedAt, clears>>

(* save_operations is a plain fs::write: the file is empty, then written.  *)
SaveTruncates(c) ==
    /\ req[c].pc = "truncate"
    /\ opsFile' = [opsFile EXCEPT !.torn = TRUE]
    /\ Moves(c, [req[c] EXCEPT !.pc = "write"])
    /\ UNCHANGED <<opsCache, responses, edits, acked, ackedAt, clears, damaged>>

SaveWrites(c) ==
    /\ req[c].pc = "write"
    /\ \E torn \in IF In({"write"}) = {c} THEN {FALSE} ELSE BOOLEAN :
         opsFile' = [torn |-> torn, ops |-> req[c].ops]
    /\ Moves(c, [req[c] EXCEPT !.pc = "invalidate"])
    /\ UNCHANGED <<opsCache, responses, edits, acked, ackedAt, clears, damaged>>

(* History: the answer of an edit.  One overtaken by a later edit of the   *)
(* same operation promises nothing.                                        *)
Acknowledge(s, n, edit) ==
    /\ acked' = [acked EXCEPT ![s][n] = IF edit > @ THEN edit ELSE @]
    /\ ackedAt' = [ackedAt EXCEPT ![s][n] = clears[s]]

(* The definitions are dropped, the responses are not; then the edit is    *)
(* acknowledged.                                                           *)
Invalidate(c) ==
    /\ req[c].pc = "invalidate"
    /\ LET s == req[c].start
           n == req[c].name
       IN  /\ opsCache' = [opsCache EXCEPT ![s] = Nothing]
           /\ Acknowledge(s, n, req[c].ops[n].edit)
    /\ Moves(c, Free)
    /\ UNCHANGED <<opsFile, responses, edits, clears, damaged>>

-----------------------------------------------------------------------------
(* Reload                                                                  *)

(* /_config/reload: the definitions, the responses, the CDC workers.       *)
BeginReload(c, s) ==
    /\ req[c].pc = "free"
    /\ opsCache' = [opsCache EXCEPT ![s] = Nothing]
    /\ Moves(c, [Free EXCEPT !.pc = "clear", !.start = s])
    /\ UNCHANGED <<opsFile, responses, edits, acked, ackedAt, clears, damaged>>

(* Mutated form of ReloadClears: the responses stay.                       *)
ReloadClearsNothing(c) ==
    /\ req[c].pc = "clear"
    /\ clears' = [clears EXCEPT ![req[c].start] = @ + 1]
    /\ Moves(c, [req[c] EXCEPT !.pc = "collect"])
    /\ UNCHANGED <<opsFile, opsCache, responses, edits, acked, ackedAt, damaged>>

ReloadClears(c) ==
    /\ req[c].pc = "clear"
    /\ responses' = [responses EXCEPT ![req[c].start] = <<>>]
    /\ clears' = [clears EXCEPT ![req[c].start] = @ + 1]
    /\ Moves(c, [req[c] EXCEPT !.pc = "collect"])
    /\ UNCHANGED <<opsFile, opsCache, edits, acked, ackedAt, damaged>>

ReloadCollects(c, specs) ==
    /\ req[c].pc = "collect"
    /\ Moves(c, [req[c] EXCEPT !.pc = "spawn", !.specs = specs])
    /\ UNCHANGED <<opsFile, opsCache, responses, edits, acked, ackedAt, clears, damaged>>

ReloadSpawned(c, p) ==
    /\ req[c].pc = "spawn" /\ p \in req[c].specs
    /\ Moves(c, [req[c] EXCEPT !.specs = @ \ {p}])
    /\ UNCHANGED <<opsFile, opsCache, responses, edits, acked, ackedAt, clears, damaged>>

ReloadEnds(c) ==
    /\ req[c].pc = "spawn" /\ req[c].specs = {}
    /\ Moves(c, Free)
    /\ UNCHANGED <<opsFile, opsCache, responses, edits, acked, ackedAt, clears, damaged>>

(* A new server starts with empty caches, and with the edits acknowledged  *)
(* by those before it.                                                     *)
OpsLaunch(s) ==
    /\ acked' = [acked EXCEPT ![s] =
                   [n \in Name |-> CHOOSE e \in {acked[r][n] : r \in Server} :
                                     \A r \in Server : acked[r][n] <= e]]
    /\ UNCHANGED <<opsFile, opsCache, responses, req, edits, ackedAt, clears, damaged>>

(* The process dies: requests and caches go, the file stays as it is.      *)
OpsDie ==
    /\ opsCache' = [s \in Server |-> Nothing]
    /\ responses' = [s \in Server |-> <<>>]
    /\ req' = [c \in Client |-> Free]
    /\ damaged' = (damaged \/ In({"write"}) # {})
    /\ UNCHANGED <<opsFile, edits, acked, ackedAt, clears>>

-----------------------------------------------------------------------------
(* Properties                                                              *)

(* A read that begins after an edit was acknowledged runs what the edit    *)
(* wrote, in this process or a later one, unless an edit had loaded the    *)
(* file while another was about to save it, or died saving it.  It may     *)
(* miss the operation altogether while the file of a later edit is being   *)
(* written, and even after that if a request of an earlier start, whose    *)
(* server has stopped listening, wrote it: that edit drops the definitions *)
(* of its own server, not the ones cached here.  And its answer may be a   *)
(* cached response: one that no reload has cleared since the edit, or one  *)
(* whose request looked its operation up before a reload and stored the    *)
(* response after it.                                                      *)
EditsTakeEffect ==
    \A c \in Client :
        req[c].pc = "answered" /\ req[c].op.edit < req[c].since /\ ~ damaged =>
            \/ req[c].raced /\ req[c].op = Missing
            \/ req[c].hit /\ (req[c].from = req[c].sinceAt \/ req[c].born < req[c].put)

=============================================================================
