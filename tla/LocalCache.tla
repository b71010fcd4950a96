----------------------------- MODULE LocalCache ------------------------------
(***************************************************************************)
(* The cache in front of a memory provider (memory/local_cache.py): a file *)
(* of rows, loaded whole, pruned of what is old or too much, and saved     *)
(* whole through a temp file with a fixed name.  A search leaves rows      *)
(* without text, a fetch fills the text in; both ask the provider          *)
(* upstream between the load and the save.                                 *)
(*                                                                         *)
(* Scores, limits and previews are left out: which rows a search returns   *)
(* and which of two equally recent rows counts is left open.               *)
(***************************************************************************)
EXTENDS Naturals, Sequences, FiniteSets

CONSTANTS Clients,   \* processes, one call at a time each
          Queries,   \* query fingerprints
          Handles,   \* handles of memories
          Ttl,       \* _ttl_seconds
          MaxRows,   \* _max_entries
          LastDay,   \* bound on the time
          MaxRevisions, \* bound on the changes of one memory upstream
          MaxCalls   \* bound on the calls

ASSUME LocalCacheConstants ==
    /\ Ttl \in Nat
    /\ MaxRows \in Nat
    /\ LastDay \in Nat
    /\ MaxRevisions \in Nat
    /\ MaxCalls \in Nat
    /\ IsFiniteSet(Clients)

NoText == 0
NoQuery == "no query"

VARIABLES revised, \* handle -> when each of its versions was replaced upstream
          day,     \* time.time()
          live,    \* the file the cache path names
          spare,   \* the file its .tmp names, 0 for none
          rowsIn,  \* file -> its rows, those that do not parse left out
          dirty,   \* files written to since they were last truncated
          ask,     \* client -> its call
          asked    \* number of calls

localVars == <<revised, day, live, spare, rowsIn, dirty, ask, asked>>

FileIds == 1 .. 2 + Cardinality(Clients)

Row(q, h, v, t) == [query |-> q, handle |-> h, text |-> v, updated |-> t]

Resting == [pc |-> "idle"]

(* The day before, memories were fetched and some revised since; others    *)
(* were found by a search today.                                           *)
LocalInit ==
    /\ revised \in [Handles -> {<< >>, <<0>>}]
    /\ day = 1
    /\ live = 1
    /\ spare = 0
    /\ \E texts, finds \in SUBSET Handles, q \in Queries :
          rowsIn = [f \in FileIds |->
                       IF f # 1 THEN {}
                       ELSE {Row(NoQuery, h, 1, 0) : h \in texts}
                               \cup {Row(q, h, NoText, 1) : h \in finds}]
    /\ dirty = {}
    /\ ask = [c \in Clients |-> Resting]
    /\ asked = 0

(* The versions of a memory are numbered from 1; this is the last.         *)
Current(h) == Len(revised[h]) + 1

(* The provider upstream is used by others too. *)
Revise(h) ==
    /\ Len(revised[h]) < MaxRevisions
    /\ revised' = [revised EXCEPT ![h] = Append(@, day)]
    /\ UNCHANGED <<day, live, spare, rowsIn, dirty, ask, asked>>

Pass ==
    /\ day < LastDay
    /\ day' = day + 1
    /\ UNCHANGED <<revised, live, spare, rowsIn, dirty, ask, asked>>

-----------------------------------------------------------------------------
(* _prune_rows: the rows that have not expired, the newest if too many. *)
Expired(r, now) == r.updated + Ttl < now

Pruned(rows, now) ==
    LET valid == {r \in rows : ~ Expired(r, now)}
    IN  {kept \in SUBSET valid :
            /\ Cardinality(kept) <= MaxRows
            /\ kept = valid \/ Cardinality(kept) = MaxRows
            /\ \A r \in kept, s \in valid \ kept : r.updated >= s.updated}

Turn(c, to) == ask' = [ask EXCEPT ![c] = to]

(* _load_rows of a file that is still being written sees part of it.  Rows *)
(* that do not parse are skipped; bytes that are no UTF-8 raise out of the *)
(* call, which then has done nothing.                                      *)
Writes(c, f) == ask[c].pc = "write" /\ ask[c].file = f

Loaded ==
    LET writers == {c \in Clients : Writes(c, live)}
    IN  IF writers = {} THEN {rowsIn[live]}
        ELSE SUBSET (rowsIn[live] \cup UNION {ask[c].rows : c \in writers})

(* A save, and what the call goes on with. *)
Saving(rows, next) == [pc |-> "open", rows |-> rows, next |-> next]

Replying(found) == [pc |-> "reply", found |-> found]

(* A call loads the rows and prunes them.  When some were evicted it saves *)
(* the others before it goes on.                                           *)
BeginCall(c, rows, kept, call) ==
    /\ ask[c].pc = "idle"
    /\ asked < MaxCalls
    /\ asked' = asked + 1
    /\ Turn(c, IF kept = rows THEN call ELSE Saving(kept, call))
    /\ UNCHANGED <<revised, day, live, spare, rowsIn, dirty>>

(* search_compact up to the call of the provider, which a hit does without. *)
Search(c, q) ==
    \E rows \in Loaded :
       \E kept \in Pruned(rows, day) :
          BeginCall(c, rows, kept,
             IF \E r \in kept : r.query = q THEN Replying({})
             ELSE [pc |-> "search", query |-> q, now |-> day, rows |-> kept])

(* Of several rows of a handle the one updated last counts. *)
LatestRows(rows, h) ==
    {r \in rows : r.handle = h /\ \A s \in rows : s.handle = h => s.updated <= r.updated}

(* What the cache itself has for the handles of a fetch. *)
Answers(rows, hs) ==
    {{r \in chosen : r.text # NoText} :
        chosen \in {ch \in SUBSET UNION {LatestRows(rows, h) : h \in hs} :
                       \A h \in hs : Cardinality({r \in ch : r.handle = h}) =
                                        IF LatestRows(rows, h) = {} THEN 0 ELSE 1}}

Having(rows) == {r.handle : r \in rows}

(* fetch up to the call of the provider, for what the cache lacks. *)
Fetch(c, hs) ==
    \E rows \in Loaded :
       \E kept \in Pruned(rows, day) :
          \E own \in Answers(kept, hs) :
             LET found == {<<r.handle, r.text, day>> : r \in own}
             IN  BeginCall(c, rows, kept,
                    IF hs = Having(own) THEN Replying(found)
                    ELSE [pc |-> "fetch", wants |-> hs \ Having(own),
                          found |-> found, rows |-> kept])

-----------------------------------------------------------------------------
(* A search that missed appends a row for each handle it is told of; they  *)
(* have the time of its start.                                             *)
Searched(c) ==
    /\ ask[c].pc = "search"
    /\ \E hs \in SUBSET Handles :
          \E kept \in Pruned(ask[c].rows \cup
                                {Row(ask[c].query, h, NoText, ask[c].now) : h \in hs},
                             ask[c].now) :
             Turn(c, Saving(kept, Replying({})))
    /\ UNCHANGED <<revised, day, live, spare, rowsIn, dirty, asked>>

(* Mutant: a row that has a text is only renewed. *)
FilledKeepingText(r, hs) ==
    IF r.handle \in hs
    THEN Row(r.query, r.handle, IF r.text = NoText THEN Current(r.handle) ELSE r.text, day)
    ELSE r

(* Every row of a handle that was fetched takes the text and the time. *)
Filled(r, hs) ==
    IF r.handle \in hs THEN Row(r.query, r.handle, Current(r.handle), day) ELSE r

(* The provider may know some of the handles only.  Without a row of its   *)
(* handle a text gets one of its own.                                      *)
Fetched(c) ==
    /\ ask[c].pc = "fetch"
    /\ \E hs \in SUBSET ask[c].wants :
          LET found == ask[c].found \cup {<<h, Current(h), day>> : h \in hs}
              rowless == hs \ Having(ask[c].rows)
              filled == {Filled(r, hs) : r \in ask[c].rows}
                           \cup {Row(NoQuery, h, Current(h), day) : h \in rowless}
          IN  IF hs = {}
              THEN Turn(c, Replying(found))
              ELSE \E kept \in Pruned(filled, day) : Turn(c, Saving(kept, Replying(found)))
    /\ UNCHANGED <<revised, day, live, spare, rowsIn, dirty, asked>>

(* Without the provider a fetch returns what it found, if anything. *)
UpstreamFails(c) ==
    /\ \/ ask[c].pc = "search" /\ Turn(c, Resting)
       \/ /\ ask[c].pc = "fetch"
          /\ Turn(c, IF ask[c].found = {} THEN Resting ELSE Replying(ask[c].found))
    /\ UNCHANGED <<revised, day, live, spare, rowsIn, dirty, asked>>

-----------------------------------------------------------------------------
(* _save_rows.  Opening the temp file truncates it, even one that another  *)
(* process is writing.                                                     *)
Unused == {f \in FileIds : f \notin {live, spare} /\ \A c \in Clients : ~ Writes(c, f)}

(* The temp file, or else a new one: the first unused, as they are alike.  *)
Spares ==
    IF spare # 0 THEN {spare} ELSE {f \in Unused : \A g \in Unused : f <= g}

OpenSpare(c) ==
    /\ ask[c].pc = "open"
    /\ \E f \in Spares :
          /\ spare' = f
          /\ rowsIn' = [rowsIn EXCEPT ![f] = {}]
          /\ dirty' = dirty \ {f}
          /\ Turn(c, [pc |-> "write", rows |-> ask[c].rows, next |-> ask[c].next,
                      file |-> f])
    /\ UNCHANGED <<revised, day, live, asked>>

(* Over the rows of another process they leave a mixture, or part of them. *)
Close(c) ==
    /\ ask[c].pc = "write"
    /\ LET f == ask[c].file
           crossed == f \in dirty \/ \E d \in Clients \ {c} : Writes(d, f)
       IN  /\ \E all \in IF crossed THEN SUBSET (rowsIn[f] \cup ask[c].rows)
                         ELSE {ask[c].rows} :
                 rowsIn' = [rowsIn EXCEPT ![f] = all]
           /\ dirty' = dirty \cup {f}
           /\ Turn(c, [pc |-> "replace", next |-> ask[c].next])
    /\ UNCHANGED <<revised, day, live, spare, asked>>

(* The rename fails when another process has already moved the temp file.  *)
(* The file it replaces is gone.                                           *)
Supplant(c) ==
    /\ ask[c].pc = "replace"
    /\ IF spare = 0
       THEN Turn(c, Resting) /\ UNCHANGED <<live, spare, rowsIn, dirty>>
       ELSE /\ live' = spare
            /\ spare' = 0
            /\ rowsIn' = [rowsIn EXCEPT ![live] = {}]
            /\ dirty' = dirty \ {live}
            /\ Turn(c, ask[c].next)
    /\ UNCHANGED <<revised, day, asked>>

Reply(c) ==
    /\ ask[c].pc = "reply"
    /\ Turn(c, Resting)
    /\ UNCHANGED <<revised, day, live, spare, rowsIn, dirty, asked>>

(* A process killed while it saves leaves part of its rows. *)
KillClient(c) ==
    /\ ask[c].pc # "idle"
    /\ Turn(c, Resting)
    /\ IF ask[c].pc = "write"
       THEN /\ \E some \in SUBSET (rowsIn[ask[c].file] \cup ask[c].rows) :
                  rowsIn' = [rowsIn EXCEPT ![ask[c].file] = some]
            /\ dirty' = dirty \cup {ask[c].file}
       ELSE UNCHANGED <<rowsIn, dirty>>
    /\ UNCHANGED <<revised, day, live, spare, asked>>

-----------------------------------------------------------------------------
LocalNext ==
    \/ \E h \in Handles : Revise(h)
    \/ Pass
    \/ \E c \in Clients :
          \/ \E q \in Queries : Search(c, q)
          \/ \E hs \in SUBSET Handles : hs # {} /\ Fetch(c, hs)
          \/ Searched(c)
          \/ Fetched(c)
          \/ UpstreamFails(c)
          \/ OpenSpare(c)
          \/ Close(c)
          \/ Supplant(c)
          \/ Reply(c)
          \/ KillClient(c)

LocalSpec == LocalInit /\ [][LocalNext]_localVars

-----------------------------------------------------------------------------
(* Whatever crossing writers, kills and late answers do to the file, a     *)
(* fetch returns no text that the provider had already replaced more than  *)
(* the time to live before the fetch began (fetch, _prune_rows).           *)
Outdated(h, v, now) == v < Current(h) /\ revised[h][v] + Ttl < now

TextsAreRecent ==
    \A c \in Clients :
       ask[c].pc = "reply" =>
          \A t \in ask[c].found : ~ Outdated(t[1], t[2], t[3])
=============================================================================
