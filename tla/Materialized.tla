---------------------------- MODULE Materialized ----------------------------
(***************************************************************************)
(* The materialized cache of the artifact store: resolve_path of a         *)
(* directory artifact (materialize_tree of artifact/store.rs) copies its   *)
(* files from the store to a temporary directory, puts the marker          *)
(* .rlab-materialized there, and renames the directory to its final path;  *)
(* a call that finds a marker at the final path returns at once.  The      *)
(* evictions of artifact/gc.rs (the size cap and "gc") remove whole        *)
(* directories of the cache, temporary ones included, entry by entry.      *)
(*                                                                         *)
(* One tree is modelled.  A directory is named by the call that made it,   *)
(* wherever it has been renamed to: an eviction that has opened it goes on *)
(* inside it.  Its files are in the store.                                 *)
(***************************************************************************)
EXTENDS Naturals, FiniteSets

CONSTANTS Calls,      \* calls of resolve_path, each in a process of its own
          Evictors,   \* gc commands and the cap enforced by completed runs
          Files,      \* the files of the tree
          Marker,     \* .rlab-materialized
          NoCall

ASSUME MaterializedAssumption ==
  /\ Marker \notin Files /\ NoCall \notin Calls

VARIABLES pc,       \* where each call is
          copied,   \* the files it has copied
          place,    \* the path of the directory it made: none, temporary or final
          entries,  \* what is in that directory
          victim,   \* the directory each eviction removes
          from,     \* the path it found it at
          events    \* "overlap": a call was at work at the same time as an eviction;
                    \* "stop": an eviction died or failed midway

cacheVars == <<pc, copied, place, entries, victim, from, events>>

Working == {"copy", "look", "discard", "rename"}

CacheInit ==
  /\ pc = [c \in Calls |-> "idle"]
  /\ copied = [c \in Calls |-> {}]
  /\ place = [c \in Calls |-> "none"]
  /\ entries = [c \in Calls |-> {}]
  /\ victim = [e \in Evictors |-> NoCall]
  /\ from = [e \in Evictors |-> "none"]
  /\ events = {}

AtWork == \E c \in Calls : pc[c] \in Working
Evicting == \E e \in Evictors : victim[e] # NoCall

\* The directories at the final path: one at most.
Final == {d \in Calls : place[d] = "final"}

-----------------------------------------------------------------------------
(* materialize_tree                                                        *)

\* The marker is looked for, and if it is not there a temporary directory made.
Begin(c) ==
  /\ pc[c] = "idle"
  /\ \/ /\ \E d \in Final : Marker \in entries[d]
        /\ pc' = [pc EXCEPT ![c] = "returned"]
        /\ UNCHANGED place
     \/ /\ \A d \in Final : Marker \notin entries[d]
        /\ pc' = [pc EXCEPT ![c] = "copy"]
        /\ place' = [place EXCEPT ![c] = "temporary"]
  /\ events' = IF Evicting THEN events \cup {"overlap"} ELSE events
  /\ UNCHANGED <<copied, entries, victim, from>>

\* ensure_parent_dir makes the directory again when it has been evicted.
Put(c, x) == /\ place' = [place EXCEPT ![c] = "temporary"]
             /\ entries' = [entries EXCEPT ![c] = @ \cup {x}]

CopyFile(c, f) ==
  /\ pc[c] = "copy"
  /\ f \notin copied[c]
  /\ copied' = [copied EXCEPT ![c] = @ \cup {f}]
  /\ Put(c, f)
  /\ UNCHANGED <<pc, victim, from, events>>

\* Mutant: the marker is written before the last file.
WriteMarkerEarly(c) ==
  /\ pc[c] = "copy"
  /\ copied[c] # {}
  /\ pc' = [pc EXCEPT ![c] = "look"]
  /\ Put(c, Marker)
  /\ UNCHANGED <<copied, victim, from, events>>

WriteMarker(c) ==
  /\ pc[c] = "copy"
  /\ copied[c] = Files
  /\ pc' = [pc EXCEPT ![c] = "look"]
  /\ Put(c, Marker)
  /\ UNCHANGED <<copied, victim, from, events>>

\* target.exists(): whatever is in it, it is what the call will return.
LookForTarget(c) ==
  /\ pc[c] = "look"
  /\ pc' = [pc EXCEPT ![c] = IF Final = {} THEN "rename" ELSE "discard"]
  /\ UNCHANGED <<copied, place, entries, victim, from, events>>

Discard(c) ==
  /\ pc[c] = "discard"
  /\ pc' = [pc EXCEPT ![c] = IF place[c] = "temporary" THEN "returned" ELSE "failed"]
  /\ place' = [place EXCEPT ![c] = "none"]
  /\ entries' = [entries EXCEPT ![c] = {}]
  /\ UNCHANGED <<copied, victim, from, events>>

\* rename fails when the directory is gone, or when another call has renamed its
\* own since and there is something in it.
Rename(c) ==
  /\ pc[c] = "rename"
  /\ \/ /\ place[c] = "temporary" /\ \A d \in Final : entries[d] = {}
        /\ pc' = [pc EXCEPT ![c] = "returned"]
        /\ place' = [d \in Calls |-> CASE d = c       -> "final"
                                       [] d \in Final -> "none"
                                       [] OTHER       -> place[d]]
     \/ /\ place[c] # "temporary" \/ \E d \in Final : entries[d] # {}
        /\ pc' = [pc EXCEPT ![c] = "failed"]
        /\ UNCHANGED place
  /\ UNCHANGED <<copied, entries, victim, from, events>>

\* An error, or the process is killed: the temporary directory stays.
CallFails(c) ==
  /\ pc[c] \in Working
  /\ pc' = [pc EXCEPT ![c] = "failed"]
  /\ UNCHANGED <<copied, place, entries, victim, from, events>>

-----------------------------------------------------------------------------
(* enforce_materialized_cap and remove_children                            *)

Evict(e, d) ==
  /\ victim[e] = NoCall
  /\ place[d] # "none"
  /\ events' = IF AtWork THEN events \cup {"overlap"} ELSE events
  /\ victim' = [victim EXCEPT ![e] = d]
  /\ from' = [from EXCEPT ![e] = place[d]]
  /\ UNCHANGED <<pc, copied, place, entries>>

\* remove_dir_all removes the entries in the order the directory lists them.
RemoveEntry(e, x) ==
  /\ victim[e] # NoCall
  /\ x \in entries[victim[e]]
  /\ entries' = [entries EXCEPT ![victim[e]] = @ \ {x}]
  /\ UNCHANGED <<pc, copied, place, victim, from, events>>

LeaveEviction(e) ==
  /\ victim' = [victim EXCEPT ![e] = NoCall]
  /\ from' = [from EXCEPT ![e] = "none"]
  /\ UNCHANGED <<pc, copied, entries>>

\* The empty directory goes, unless it is no longer where it was.
EndEvict(e) ==
  /\ victim[e] # NoCall
  /\ LET d == victim[e] IN
       /\ entries[d] = {}
       /\ place' = [place EXCEPT ![d] = IF @ = from[e] THEN "none" ELSE @]
  /\ LeaveEviction(e)
  /\ UNCHANGED events

StopEvict(e) ==
  /\ victim[e] # NoCall
  /\ events' = events \cup {"stop"}
  /\ LeaveEviction(e)
  /\ UNCHANGED place

-----------------------------------------------------------------------------

CallStep(c) == \/ \E f \in Files : CopyFile(c, f)
               \/ WriteMarker(c)
               \/ LookForTarget(c)
               \/ Discard(c)
               \/ Rename(c)

CacheNext ==
  \/ \E c \in Calls : Begin(c) \/ CallStep(c) \/ CallFails(c)
  \/ \E e \in Evictors : \/ \E d \in Calls : Evict(e, d)
                         \/ \E x \in Files \cup {Marker} : RemoveEntry(e, x)
                         \/ EndEvict(e)
                         \/ StopEvict(e)

CacheSpec == CacheInit /\ [][CacheNext]_cacheVars

\* A call whose process lives goes on.
CacheFairSpec == CacheSpec /\ \A c \in Calls : WF_cacheVars(CallStep(c))

-----------------------------------------------------------------------------
(* Properties.                                                             *)

CacheTypeOK ==
  /\ pc \in [Calls -> {"idle", "returned", "failed"} \cup Working]
  /\ copied \in [Calls -> SUBSET Files]
  /\ place \in [Calls -> {"none", "temporary", "final"}]
  /\ entries \in [Calls -> SUBSET (Files \cup {Marker})]
  /\ \A c \in Calls : place[c] = "none" => entries[c] = {}
  /\ victim \in [Evictors -> Calls \cup {NoCall}]
  /\ from \in [Evictors -> {"none", "temporary", "final"}]
  /\ events \subseteq {"overlap", "stop"}

\* What a call returns is there and holds every file of the tree.
Returned(c) == pc[c] # "returned" /\ pc'[c] = "returned"
Whole == \E d \in Final : Files \subseteq entries[d]

\* While evictions have neither overlapped a call nor stopped midway, the path a call
\* returns is whole, whatever calls ran at the same time, failed, or died before it
\* and left their directories to the evictions.
OnlyWholeReturned == \A c \in Calls : Returned(c) /\ events' = {} => Whole'
ReturnsComplete == [][OnlyWholeReturned]_cacheVars

\* A call that has begun returns or fails, whatever other calls and evictions do.
CallEnds == \A c \in Calls : (pc[c] \in Working) ~> (pc[c] \in {"returned", "failed"})

=============================================================================
