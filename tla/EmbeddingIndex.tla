--------------------------- MODULE EmbeddingIndex ---------------------------
(***************************************************************************)
(* The embedding index (embeddings_index_store.py): a file with a vector   *)
(* per source file, and the hash of the text each was made from, that a    *)
(* rerank of candidates loads, brings up to date and saves in place.       *)
(* Which texts it looks at is decided by a second record, the chunk cache  *)
(* contract (chunk_cache_contract.py): of a file whose contract has not    *)
(* changed the hash is taken over.                                         *)
(*                                                                         *)
(* A rerank has a time budget (index_stage/rerank_timeouts.py), and past   *)
(* it goes on in its thread, beside the next one of the same process.      *)
(***************************************************************************)
EXTENDS Naturals

CONSTANTS Sources,   \* paths of source files
          Versions,  \* what the entry of a file in the code index may be
          TextOf,    \* version -> its embedding text
          Sees,      \* version -> its fingerprint in the chunk contract
          Providers, \* embedding providers
          Builders,  \* threads that bring the index up to date
          MaxRelists, \* bound on the changes of the code index
          MaxBuilds   \* bound on the calls

ASSUME EmbeddingConstants ==
    /\ MaxRelists \in Nat
    /\ MaxBuilds \in Nat

VARIABLES listing,     \* path -> its version, of those in the code index
          vectorIndex, \* what the file holds: an index, or nothing that loads
          landed,      \* whether it was written to since it was truncated
          building,    \* builder -> its call
          relists,     \* number of changes of the code index
          builds       \* number of calls

embeddingVars == <<listing, vectorIndex, landed, building, relists, builds>>

Nothing == [kind |-> "nothing"]
NoBuild == [pc |-> "idle"]

EmbeddingInit ==
    /\ \E v \in Versions : listing = [f \in Sources |-> v]
    /\ vectorIndex = Nothing
    /\ landed = FALSE
    /\ building = [b \in Builders |-> NoBuild]
    /\ relists = 0
    /\ builds = 0

Become(b, r) == building' = [building EXCEPT ![b] = r]

(* The code index is that of another state of the repository.              *)
Relist(f) ==
    /\ relists < MaxRelists
    /\ relists' = relists + 1
    /\ \/ \E v \in Versions :
             listing' = [g \in DOMAIN listing \cup {f} |-> IF g = f THEN v ELSE listing[g]]
       \/ listing' = [g \in DOMAIN listing \ {f} |-> listing[g]]
    /\ UNCHANGED <<vectorIndex, landed, building, builds>>

-----------------------------------------------------------------------------
(* build_or_load_embedding_index.                                          *)
BeginBuild(b, p) ==
    /\ building[b].pc = "idle"
    /\ builds < MaxBuilds
    /\ builds' = builds + 1
    /\ Become(b, [pc |-> "load", map |-> listing, provider |-> p])
    /\ UNCHANGED <<listing, vectorIndex, landed, relists>>

(* build_chunk_cache_contract *)
Contract(map) == [f \in DOMAIN map |-> Sees[map[f]]]

Vector(p, text) == [by |-> p, text |-> text]

(* diff_chunk_cache_contract_paths, its changed paths.                     *)
Differing(map) ==
    {f \in DOMAIN map :
        \/ f \notin DOMAIN vectorIndex.contract
        \/ vectorIndex.contract[f] # Sees[map[f]]}

(* Mutant: when no contract has changed, no text has. *)
CheckedOnlyChanged(map) == Differing(map)

(* The files whose text is looked at: all, if no contract has changed.     *)
Checked(map) == IF Differing(map) = {} THEN DOMAIN map ELSE Differing(map)

(* The hashes the index should have.  A hash is its text.                  *)
Desired(map) ==
    [f \in DOMAIN map |->
        IF f \notin Checked(map) /\ f \in DOMAIN vectorIndex.hashes
        THEN vectorIndex.hashes[f]
        ELSE TextOf[map[f]]]

(* The files to encode: another hash, or no vector.                        *)
ToEncode(map) ==
    {f \in DOMAIN map :
        \/ f \notin DOMAIN vectorIndex.hashes
        \/ vectorIndex.hashes[f] # Desired(map)[f]
        \/ f \notin DOMAIN vectorIndex.vectors}

(* Mutant: an index of any provider is taken. *)
TakesAny(p) == vectorIndex.kind = "index"

(* _load_embedding_index_payload *)
Takes(p) == vectorIndex.kind = "index" /\ vectorIndex.provider = p

(* With nothing to encode and nothing to remove the index is returned, and *)
(* saved again if the contract or the index hash is another; which index   *)
(* hash a call has is left open.                                           *)
TakeIndex(b) ==
    LET c       == building[b]
        current == /\ ToEncode(c.map) = {}
                   /\ DOMAIN vectorIndex.vectors \subseteq DOMAIN c.map
        at(step) == Become(b, [pc |-> step, map |-> c.map, provider |-> c.provider,
                               differ |-> Differing(c.map), known |-> Checked(c.map),
                               outdated |-> ToEncode(c.map), hashes |-> Desired(c.map),
                               vectors |-> vectorIndex.vectors])
    IN  /\ c.pc = "load"
        /\ Takes(c.provider)
        /\ \/ current /\ vectorIndex.contract = Contract(c.map) /\ at("done")
           \/ current /\ at("open")
           \/ ~current /\ at("encode")
        /\ UNCHANGED <<listing, vectorIndex, landed, relists, builds>>

BuildAll(b) ==
    LET c == building[b]
    IN  /\ c.pc = "load"
        /\ ~ Takes(c.provider)
        /\ Become(b, [pc |-> "encode", map |-> c.map, provider |-> c.provider,
                      differ |-> {}, known |-> DOMAIN c.map, outdated |-> DOMAIN c.map,
                      hashes |-> [f \in DOMAIN c.map |-> TextOf[c.map[f]]],
                      vectors |-> << >>])
        /\ UNCHANGED <<listing, vectorIndex, landed, relists, builds>>

(* provider.encode of the texts at hand, and the vectors of files that are *)
(* gone are removed.  A text that was not looked at counts as empty.       *)
Encode(b) ==
    LET c       == building[b]
        text(f) == IF f \in c.known THEN TextOf[c.map[f]] ELSE ""
    IN  /\ c.pc = "encode"
        /\ Become(b, [c EXCEPT !.pc = "open", !.vectors =
              [f \in DOMAIN c.map |->
                 IF f \in c.outdated THEN Vector(c.provider, text(f)) ELSE c.vectors[f]]])
        /\ UNCHANGED <<listing, vectorIndex, landed, relists, builds>>

(* _write_embedding_index, in place.  Over another's index it may leave    *)
(* bytes that do not parse.                                                *)
OpenIndex(b) ==
    /\ building[b].pc = "open"
    /\ vectorIndex' = Nothing
    /\ landed' = FALSE
    /\ Become(b, [building[b] EXCEPT !.pc = "write"])
    /\ UNCHANGED <<listing, relists, builds>>

WriteIndex(b) ==
    LET c       == building[b]
        crossed == landed \/ \E d \in Builders \ {b} : building[d].pc = "write"
    IN  /\ c.pc = "write"
        /\ \/ vectorIndex' = [kind |-> "index", provider |-> c.provider,
                                contract |-> Contract(c.map), hashes |-> c.hashes,
                                vectors |-> c.vectors]
           \/ crossed /\ vectorIndex' = Nothing
        /\ landed' = TRUE
        /\ Become(b, [c EXCEPT !.pc = "done"])
        /\ UNCHANGED <<listing, relists, builds>>

(* The vectors are returned.  An error of the provider, or the end of the  *)
(* process, ends a call anywhere.                                          *)
EndBuild(b) ==
    /\ building[b].pc # "idle"
    /\ Become(b, NoBuild)
    /\ UNCHANGED <<listing, vectorIndex, landed, relists, builds>>

EmbeddingNext ==
    \/ \E f \in Sources : Relist(f)
    \/ \E b \in Builders :
          \/ \E p \in Providers : BeginBuild(b, p)
          \/ TakeIndex(b) \/ BuildAll(b) \/ Encode(b)
          \/ OpenIndex(b) \/ WriteIndex(b) \/ EndBuild(b)

EmbeddingSpec == EmbeddingInit /\ [][EmbeddingNext]_embeddingVars

-----------------------------------------------------------------------------
(* build_or_load_embedding_index returns vectors of just the files asked   *)
(* about and of the provider asked, whichever threads saved the index in   *)
(* between and from whatever state of the repository.  They are vectors of *)
(* the very texts, if no contract or their own has changed, and else at    *)
(* least of texts that the chunk contract cannot tell from them.           *)
Alike(text, v) == \E w \in Versions : Sees[w] = Sees[v] /\ TextOf[w] = text

VectorsFollowTexts ==
    \A b \in Builders :
       building[b].pc = "done" =>
          LET c == building[b]
          IN  /\ DOMAIN c.vectors = DOMAIN c.map
              /\ \A f \in DOMAIN c.map :
                    /\ c.vectors[f].by = c.provider
                    /\ IF c.differ = {} \/ f \in c.differ
                         THEN c.vectors[f].text = TextOf[c.map[f]]
                         ELSE Alike(c.vectors[f].text, c.map[f])
=============================================================================
