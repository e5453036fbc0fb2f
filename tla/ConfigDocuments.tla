--------------------------- MODULE ConfigDocuments ---------------------------
(***************************************************************************)
(* The configuration documents of rlab-core/src/config/documents: YAML     *)
(* mappings that may extend one another.  resolve_config reads the         *)
(* documents of a chain one after the other, while they may be edited,     *)
(* merges them and applies overrides; validate_configs resolves every      *)
(* document it lists; diff_configs compares two resolved values; and       *)
(* ctx.config (rlab-py/src/py_run.rs) sets the parameters of a run in one. *)
(*                                                                         *)
(* A value is a scalar or an object, an object a function from keys.       *)
(***************************************************************************)
EXTENDS Naturals, SequencesExt

CONSTANTS Docs,          \* the names that documents may have
          Scalars,       \* values that are not objects
          Null,          \* the scalar null
          NoParent,      \* a document that extends none
          Refused,       \* an error in place of a value
          Contents,      \* what a document may hold: [parent, value]
          OverrideLists, \* what a caller may override: in order of the paths
          KeyPaths,      \* the paths of all overrides, in order
          Contexts,      \* the parameters of a run, in order of their paths, and what
                         \* its callable asks of them: [params, exclude, prefix, passthrough]
          MaxDocEdits    \* bound on the edits of documents

VARIABLES docs,       \* the documents there are: missing, unreadable or whole
          resolution, \* the call at work
          docEdits

docVars == <<docs, resolution, docEdits>>

Missing == [is |-> "missing"]
\* Neither a mapping nor one that names its parent by a non-empty string.
Unreadable == [is |-> "unreadable"]
Whole(content) == [is |-> "whole", parent |-> content.parent, value |-> content.value]

Listed == {d \in Docs : docs[d] # Missing}

IsObject(value) == value \notin Scalars

Put(object, key, value) == (key :> value) @@ object

\* Mutant: an object replaces the one below it.
MergeShallow(base, value) ==
  IF IsObject(base) /\ IsObject(value) THEN value @@ base ELSE value

\* Objects are merged key by key; anything else replaces what is below it.
RECURSIVE Merge(_, _)
Merge(base, value) ==
  IF IsObject(base) /\ IsObject(value)
  THEN [k \in DOMAIN base \cup DOMAIN value |->
          IF k \notin DOMAIN value THEN base[k]
          ELSE Merge(IF k \in DOMAIN base THEN base[k] ELSE Null, value[k])]
  ELSE value

\* An override may make its last key, not the objects on the way to it.
RECURSIVE SetPath(_, _, _)
SetPath(object, path, value) ==
  LET key == Head(path)
  IN CASE Len(path) = 1 -> Put(object, key, value)
       [] Len(path) > 1 /\ key \in DOMAIN object /\ IsObject(object[key]) ->
            LET inner == SetPath(object[key], Tail(path), value)
            IN IF inner = Refused THEN Refused ELSE Put(object, key, inner)
       [] OTHER -> Refused

ApplyOverrides(object, overrides, explicit) ==
  FoldLeft(LAMBDA done, o :
             IF done = Refused \/ (explicit /\ Len(o.path) = 1) THEN Refused
             ELSE SetPath(done, o.path, o.value),
           object, overrides)

\* ctx.overrides: the parameters that are not excluded, below the prefix unless
\* their first name passes through.  Two of them may come to one path: the last has it.
Target(context, path) ==
  IF Head(path) \in context.passthrough THEN path ELSE context.prefix \o path

Kept(context) == SelectSeq(context.params, LAMBDA p : p.path \notin context.exclude)

ContextOverrides(context) ==
  LET values == FoldLeft(LAMBDA done, p : Put(done, Target(context, p.path), p.value),
                         [p \in {} |-> Null], Kept(context))
      paths == SelectSeq(KeyPaths, LAMBDA p : p \in DOMAIN values)
  IN [i \in DOMAIN paths |-> [path |-> paths[i], value |-> values[paths[i]]]]

ContextConfig(base, context, explicit) ==
  IF IsObject(base) THEN ApplyOverrides(base, ContextOverrides(context), explicit)
  ELSE Refused

\* Null where the two are alike, else what was before and what is after.
RECURSIVE Diff(_, _)
Diff(left, right) ==
  IF IsObject(left) /\ IsObject(right)
  THEN LET At(object, k) == IF k \in DOMAIN object THEN object[k] ELSE Null
           Of(k) == IF k \in DOMAIN left \cap DOMAIN right THEN Diff(left[k], right[k])
                    ELSE [before |-> At(left, k), after |-> At(right, k)]
           changed == {k \in DOMAIN left \cup DOMAIN right : Of(k) # Null}
       IN IF changed = {} THEN Null ELSE [k \in changed |-> Of(k)]
  ELSE IF left = right THEN Null ELSE [before |-> left, after |-> right]

-----------------------------------------------------------------------------
(* The calls.  read is the chain as read so far, the document asked for    *)
(* first; pending and failures are those of validate_configs; clean is     *)
(* FALSE once a document has been edited during the call.                  *)

Idle == [pc |-> "idle", name |-> NoParent, next |-> NoParent, read |-> <<>>,
         overrides |-> <<>>, explicit |-> TRUE, value |-> Null, base |-> Null,
         context |-> Null, pending |-> {}, failures |-> {}, validating |-> FALSE, clean |-> TRUE]

DocInit ==
  /\ docs \in [Docs -> {Missing, Unreadable} \cup {Whole(c) : c \in Contents}]
  /\ resolution = Idle
  /\ docEdits = 0

Resolve(name, overrides, explicit) ==
  /\ resolution.pc = "idle" /\ ~resolution.validating
  /\ resolution' = [Idle EXCEPT !.pc = "load", !.name = name, !.next = name,
                                !.overrides = overrides, !.explicit = explicit]
  /\ UNCHANGED <<docs, docEdits>>

NotCyclic(name, read) == \A i \in DOMAIN read : read[i].name # name

ReadDocument ==
  /\ resolution.pc = "load"
  /\ LET name == resolution.next
     IN IF /\ NotCyclic(name, resolution.read)
           /\ name \in Docs /\ docs[name].is = "whole"
        THEN resolution' =
               [resolution EXCEPT
                  !.read = Append(@, [name |-> name, value |-> docs[name].value]),
                  !.next = docs[name].parent,
                  !.pc = IF docs[name].parent = NoParent THEN "merge" ELSE "load"]
        ELSE resolution' = [resolution EXCEPT !.pc = "error"]
  /\ UNCHANGED <<docs, docEdits>>

Merged(read) == FoldRight(LAMBDA d, base : Merge(base, d.value), read, Null)

\* The path of the document asked for is looked up once more at the end.
Finish ==
  /\ resolution.pc = "merge"
  /\ LET value == ApplyOverrides(Merged(resolution.read), resolution.overrides,
                                 resolution.explicit)
     IN resolution' = IF value = Refused \/ docs[resolution.name] = Missing
                      THEN [resolution EXCEPT !.pc = "error"]
                      ELSE [resolution EXCEPT !.pc = "returned", !.value = value]
  /\ UNCHANGED <<docs, docEdits>>

\* The callable of a run sets its parameters in what was returned to it.
Configure(context, explicit) ==
  /\ resolution.pc = "returned" /\ ~resolution.validating
  /\ LET value == ContextConfig(resolution.value, context, explicit)
     IN resolution' = [resolution EXCEPT
                         !.pc = IF value = Refused THEN "refused" ELSE "configured",
                         !.value = value, !.base = resolution.value,
                         !.context = context, !.explicit = explicit]
  /\ UNCHANGED <<docs, docEdits>>

Return ==
  /\ resolution.pc \in {"returned", "error", "configured", "refused"} /\ ~resolution.validating
  /\ resolution' = Idle
  /\ UNCHANGED <<docs, docEdits>>

Validate ==
  /\ resolution.pc = "idle" /\ ~resolution.validating
  /\ resolution' = [Idle EXCEPT !.validating = TRUE, !.pending = Listed]
  /\ UNCHANGED <<docs, docEdits>>

\* In the order of their names in the code, in any order here.
ValidateNext ==
  /\ resolution.validating /\ resolution.pc = "idle"
  /\ \E name \in resolution.pending :
       resolution' = [resolution EXCEPT !.pc = "load", !.name = name, !.next = name,
                                        !.read = <<>>, !.pending = @ \ {name}]
  /\ UNCHANGED <<docs, docEdits>>

ValidateOne ==
  /\ resolution.validating /\ resolution.pc \in {"returned", "error"}
  /\ resolution' = [resolution EXCEPT
                      !.pc = "idle",
                      !.failures = IF resolution.pc = "error" THEN @ \cup {resolution.name}
                                   ELSE @]
  /\ UNCHANGED <<docs, docEdits>>

Validated == resolution.validating /\ resolution.pc = "idle" /\ resolution.pending = {}

ReturnFailures ==
  /\ Validated
  /\ resolution' = Idle
  /\ UNCHANGED <<docs, docEdits>>

EditDocument ==
  /\ docEdits < MaxDocEdits
  /\ \E d \in Docs, file \in {Missing, Unreadable} \cup {Whole(c) : c \in Contents} :
       docs[d] # file /\ docs' = [docs EXCEPT ![d] = file]
  /\ docEdits' = docEdits + 1
  /\ resolution' = [resolution EXCEPT !.clean = resolution = Idle]

DocNext ==
  \/ \E name \in Docs, overrides \in OverrideLists, explicit \in BOOLEAN :
       Resolve(name, overrides, explicit)
  \/ \E context \in Contexts, explicit \in BOOLEAN : Configure(context, explicit)
  \/ ReadDocument \/ Finish \/ Return
  \/ Validate \/ ValidateNext \/ ValidateOne \/ ReturnFailures
  \/ EditDocument

-----------------------------------------------------------------------------
(* What a document means: every key has the value of the nearest document  *)
(* of the chain that defines it, and an object the keys of all objects in  *)
(* its place down to the first value that is none.                         *)

Chain(name) ==
  LET Parent(d) == IF d \in Docs /\ docs[d].is = "whole" THEN docs[d].parent ELSE Refused
      chain[n \in 1 .. Cardinality(Docs) + 1] == IF n = 1 THEN name ELSE Parent(chain[n - 1])
  IN chain

Resolvable(name) == \E n \in DOMAIN Chain(name) : Chain(name)[n] = NoParent

Ancestry(name) ==
  LET last == CHOOSE n \in DOMAIN Chain(name) : Chain(name)[n] = NoParent
  IN [i \in 1 .. last - 1 |-> docs[Chain(name)[i]].value]

RECURSIVE Nearest(_)
Nearest(values) ==
  IF ~IsObject(values[1]) THEN values[1]
  ELSE LET Objects(n) == \A i \in 1 .. n : IsObject(values[i])
           last == CHOOSE n \in DOMAIN values :
                     Objects(n) /\ (n = Len(values) \/ ~Objects(n + 1))
           objects == SubSeq(values, 1, last)
           With(k) == SelectSeq(objects, LAMBDA o : k \in DOMAIN o)
       IN [k \in UNION {DOMAIN objects[i] : i \in 1 .. last} |->
             Nearest([i \in DOMAIN With(k) |-> With(k)[i][k]])]

Meaning(name, overrides, explicit) ==
  IF Resolvable(name) THEN ApplyOverrides(Nearest(Ancestry(name)), overrides, explicit)
  ELSE Refused

(* A call that no edit disturbed returns what its document means, and      *)
(* fails exactly when that is nothing; validation names exactly the        *)
(* documents that do; whatever is edited meanwhile, no document is read    *)
(* twice, so that every chain ends.                                        *)
ResolutionIsExact ==
  /\ resolution.clean /\ resolution.pc \in {"returned", "error"} =>
       LET meaning == Meaning(resolution.name, resolution.overrides, resolution.explicit)
       IN IF resolution.pc = "returned" THEN resolution.value = meaning
          ELSE meaning = Refused
  /\ resolution.clean /\ Validated =>
       resolution.failures = {d \in Listed : ~Resolvable(d)}
  /\ IsInjective([i \in DOMAIN resolution.read |-> resolution.read[i].name])

(* diff_configs of what was resolved and of what another document means,  *)
(* in either order, is null exactly when the two are equal.                *)
DiffIsExact ==
  resolution.pc = "returned" =>
    \A d \in Docs : Resolvable(d) =>
      LET value == resolution.value
          other == Meaning(d, <<>>, TRUE)
      IN /\ Diff(value, other) = Null <=> value = other
         /\ Diff(other, value) = Null <=> value = other

RECURSIVE Has(_, _)
Has(value, path) ==
  path = <<>> \/ (IsObject(value) /\ Head(path) \in DOMAIN value
                  /\ Has(value[Head(path)], Tail(path)))

At(value, path) == FoldLeft(LAMBDA v, key : v[key], value, path)

(* ctx.config puts every parameter that is kept, and that no other one     *)
(* meets on its path, where its name and the prefix say, leaves everything *)
(* else of its base as it was, and refuses only a path that its base does  *)
(* not lead to, or one of a single name when paths must be explicit.       *)
ContextIsExact ==
  resolution.pc \in {"configured", "refused"} =>
    LET context == resolution.context
        kept == ToSet(Kept(context))
        Place(p) == Target(context, p.path)
        Meet(p, q) == IsPrefix(p, q) \/ IsPrefix(q, p)
        Alone(p) == \A q \in kept \ {p} : ~Meet(Place(p), Place(q))
        Leads(p) == /\ Has(resolution.base, Front(Place(p)))
                    /\ IsObject(At(resolution.base, Front(Place(p))))
                    /\ ~(resolution.explicit /\ Len(Place(p)) = 1)
    IN IF resolution.pc = "refused" THEN \E p \in kept : ~Leads(p)
       ELSE /\ \A p \in kept : Alone(p) => /\ Leads(p) /\ Has(resolution.value, Place(p))
                                           /\ At(resolution.value, Place(p)) = p.value
            /\ \A path \in ToSet(KeyPaths) :
                 (\A p \in kept : ~Meet(path, Place(p))) =>
                   /\ Has(resolution.value, path) = Has(resolution.base, path)
                   /\ Has(resolution.base, path) =>
                        At(resolution.value, path) = At(resolution.base, path)

(* What a document resolves to, how two compare, and what a run makes of   *)
(* one, is what they mean.                                                 *)
DocumentsAreExact == ResolutionIsExact /\ DiffIsExact /\ ContextIsExact
=============================================================================
