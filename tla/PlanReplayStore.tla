-------------------------- MODULE PlanReplayStore ---------------------------
(***************************************************************************)
(* The plan replay cache (plan_replay_cache.py).  Plans are kept in the    *)
(* stage artifact cache, here by what LossyCache promises of it; when it   *)
(* cannot be written a plan goes to a JSON file of entries instead, which  *)
(* each process remembers by its stat.  A store that succeeds replaces the *)
(* file by a marker.  The file is written in place and without a lock.     *)
(***************************************************************************)
EXTENDS Naturals, FiniteSets

CONSTANTS PlanKeys, Payloads,
          Processes,  \* each makes one call at a time
          MaxEntries, \* _MAX_ENTRIES
          MaxStores   \* bound on the calls of store_cached_plan

ASSUME ReplayConstants ==
    /\ MaxEntries \in Nat
    /\ MaxStores \in Nat

(* What the file holds: a list of entries, each with its place in it, the  *)
(* marker of the artifact cache, or bytes that are no JSON, and maybe no   *)
(* UTF-8.  A stamp stands for modification time and size.                  *)
Entries(list) == [kind |-> "entries", list |-> list]
Marker == [kind |-> "marker", list |-> {}]
Broken == [kind |-> "broken", list |-> {}]

VARIABLES handed,   \* history: key -> payloads handed to store_cached_plan
          artifact, \* key -> payloads the artifact cache was given
          stamp,    \* of the file, 0 while there is none
          body,     \* what the file holds
          whole,    \* whether the file was written to since it was truncated
          recall,   \* process -> {} or the stamp and body it remembers
          call,     \* process -> its call
          reply,    \* process -> {} or the key and payload it is given
          stores    \* number of calls of store_cached_plan

replayVars == <<handed, artifact, stamp, body, whole, recall, call, reply, stores>>

NoCall == [pc |-> "idle"]

ReplayInit ==
    /\ handed = [k \in PlanKeys |-> {}]
    /\ artifact = [k \in PlanKeys |-> {}]
    /\ stamp = 0
    /\ body = Broken
    /\ whole = FALSE
    /\ recall = [p \in Processes |-> {}]
    /\ call = [p \in Processes |-> NoCall]
    /\ reply = [p \in Processes |-> {}]
    /\ stores = 0

Go(p, c) == call' = [call EXCEPT ![p] = c]
fileState == <<stamp, body, whole>>

-----------------------------------------------------------------------------
(* Calls begin.                                                            *)
Lookup(p, k) ==
    /\ call[p].pc = "idle"
    /\ reply[p] = {}
    /\ Go(p, [pc |-> "get", key |-> k])
    /\ UNCHANGED <<handed, artifact, fileState, recall, reply, stores>>

Store(p, k, c) ==
    /\ call[p].pc = "idle"
    /\ reply[p] = {}
    /\ stores < MaxStores
    /\ stores' = stores + 1
    /\ handed' = [handed EXCEPT ![k] = @ \cup {c}]
    /\ Go(p, [pc |-> "put", key |-> k, payload |-> c])
    /\ UNCHANGED <<artifact, fileState, recall, reply>>

(* The artifact cache answers with what it was given under the key, or     *)
(* misses, and the file is asked.                                          *)
Get(p) ==
    /\ call[p].pc = "get"
    /\ \/ /\ \E c \in artifact[call[p].key] :
                reply' = [reply EXCEPT ![p] = {[key |-> call[p].key, content |-> c]}]
          /\ Go(p, NoCall)
       \/ /\ Go(p, [call[p] EXCEPT !.pc = "stat"])
          /\ UNCHANGED reply
    /\ UNCHANGED <<handed, artifact, fileState, recall, stores>>

(* It takes the payload, or fails, before or after it has taken it.        *)
Put(p) ==
    /\ call[p].pc = "put"
    /\ LET k == call[p].key
           given == [artifact EXCEPT ![k] = @ \cup {call[p].payload}]
       IN  \/ /\ artifact' = given
              /\ Go(p, [pc |-> "open", key |-> k, body |-> Marker,
                        payload |-> call[p].payload])
           \/ /\ artifact' \in {artifact, given}
              /\ Go(p, [call[p] EXCEPT !.pc = "stat"])
    /\ UNCHANGED <<handed, fileState, recall, reply, stores>>

-----------------------------------------------------------------------------
(* _load_cache_payload, and what the call does with the entries it finds.  *)
Storing(p) == "payload" \in DOMAIN call[p]

(* Mutant: the first entry answers for every key. *)
FirstOfAny(p, list) ==
    {[key |-> call[p].key, content |-> e.content] : e \in {e \in list : e.place = 1}}

(* The first entry of the key, of which there is never a second. *)
Found(p, list) ==
    {[key |-> e.key, content |-> e.content] :
        e \in {e \in list : /\ e.key = call[p].key
                            /\ \A d \in list : d.key = e.key => e.place <= d.place}}

(* The new entry comes first, the others keep their order, and the last    *)
(* ones go.                                                                *)
Pushed(p, list) ==
    LET others   == {e \in list : e.key # call[p].key}
        place(e) == 2 + Cardinality({d \in others : d.place < e.place})
        newest   == [key |-> call[p].key, content |-> call[p].payload, place |-> 1]
    IN  {e \in {newest} \cup {[d EXCEPT !.place = place(d)] : d \in others} :
            e.place <= MaxEntries}

Use(p, list) ==
    IF Storing(p)
    THEN /\ Go(p, [pc |-> "open", key |-> call[p].key, body |-> Entries(Pushed(p, list)),
                   payload |-> call[p].payload])
         /\ UNCHANGED reply
    ELSE /\ Go(p, NoCall)
         /\ reply' = [reply EXCEPT ![p] = Found(p, list)]

(* The stat, and what is remembered under it.  No file has no entries, and *)
(* neither has a remembered marker.                                        *)
Stat(p) ==
    /\ call[p].pc = "stat"
    /\ IF stamp = 0 THEN Use(p, {})
       ELSE \/ \E r \in recall[p] : r.stamp = stamp /\ Use(p, r.body.list)
            \/ /\ \A r \in recall[p] : r.stamp # stamp
               /\ IF Storing(p)
                  THEN Go(p, [pc |-> "parse", key |-> call[p].key, stamp |-> stamp,
                              payload |-> call[p].payload])
                  ELSE Go(p, [pc |-> "parse", key |-> call[p].key, stamp |-> stamp])
               /\ UNCHANGED reply
    /\ UNCHANGED <<handed, artifact, fileState, recall, stores>>

(* The bytes may be newer than the stat they are remembered under.  Bytes  *)
(* that are no JSON count as no entries; those that are no UTF-8 raise     *)
(* UnicodeDecodeError out of the call.                                     *)
Parse(p) ==
    /\ call[p].pc = "parse"
    /\ Use(p, body.list) \/ (body = Broken /\ Go(p, NoCall) /\ UNCHANGED reply)
    /\ recall' = IF body.kind = "entries"
                 THEN [recall EXCEPT ![p] = {[stamp |-> call[p].stamp, body |-> body]}]
                 ELSE recall
    /\ UNCHANGED <<handed, artifact, fileState, stores>>

-----------------------------------------------------------------------------
(* _write_cache_payload: truncate, write, and remember under the next stat,*)
(* which may be that of another writer.  Writing the marker may fail, and  *)
(* the plan then goes to the file of entries all the same.                 *)
OpenFile(p) ==
    /\ call[p].pc = "open"
    /\ \/ /\ stamp' = stamp + 1
          /\ body' = Broken
          /\ whole' = FALSE
          /\ Go(p, [call[p] EXCEPT !.pc = "write"])
       \/ /\ call[p].body = Marker
          /\ Go(p, [pc |-> "stat", key |-> call[p].key, payload |-> call[p].payload])
          /\ UNCHANGED fileState
    /\ UNCHANGED <<handed, artifact, recall, reply, stores>>

WriteFile(p) ==
    /\ call[p].pc = "write"
    /\ stamp' = stamp + 1
    /\ body' \in {call[p].body} \cup IF whole THEN {Broken} ELSE {}
    /\ whole' = TRUE
    /\ Go(p, [call[p] EXCEPT !.pc = "remember"])
    /\ UNCHANGED <<handed, artifact, recall, reply, stores>>

Remember(p) ==
    /\ call[p].pc = "remember"
    /\ recall' = [recall EXCEPT ![p] = {[stamp |-> stamp, body |-> call[p].body]}]
    /\ Go(p, NoCall)
    /\ UNCHANGED <<handed, artifact, fileState, reply, stores>>

(* The caller takes its answer.  A killed process forgets, and leaves the  *)
(* file as it is.                                                          *)
TakeReply(p) ==
    /\ reply[p] # {}
    /\ reply' = [reply EXCEPT ![p] = {}]
    /\ UNCHANGED <<handed, artifact, fileState, recall, call, stores>>

KillProcess(p) ==
    /\ call[p].pc # "idle"
    /\ Go(p, NoCall)
    /\ recall' = [recall EXCEPT ![p] = {}]
    /\ UNCHANGED <<handed, artifact, fileState, reply, stores>>

ReplayNext ==
    \E p \in Processes :
        \/ \E k \in PlanKeys : Lookup(p, k) \/ \E c \in Payloads : Store(p, k, c)
        \/ Get(p) \/ Put(p) \/ Stat(p) \/ Parse(p)
        \/ OpenFile(p) \/ WriteFile(p) \/ Remember(p)
        \/ TakeReply(p) \/ KillProcess(p)

ReplaySpec == ReplayInit /\ [][ReplayNext]_replayVars

-----------------------------------------------------------------------------
(* The replay cache promises what the artifact cache under it promises: a  *)
(* lookup that answers, answers with a plan that was handed over under its *)
(* key, also from a file cut short, crossed by two writers, remembered     *)
(* under another's stat or left behind by a store that half failed.        *)
NoReply == [key |-> "", content |-> ""]

TheReply(rs) == CHOOSE r \in rs : TRUE
Replies == [p \in Processes |->
               IF reply[p] = {} THEN NoReply ELSE TheReply(reply[p])]

Lossy == INSTANCE LossyCache WITH
            Keys <- PlanKeys, Contents <- Payloads, Threads <- Processes,
            None <- NoReply, given <- handed, answer <- Replies

ReplayLossy == Lossy!Spec
=============================================================================
