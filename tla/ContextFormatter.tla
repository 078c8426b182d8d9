-------------------------- MODULE ContextFormatter --------------------------
(***************************************************************************)
(* How a context is written into an analytics event (context_formatter.go):*)
(* attributes the configuration or the context itself designates as        *)
(* private are left out and named in redactedAttributes.                   *)
(*                                                                         *)
(* An attribute reference is its path, a sequence of property names.  A    *)
(* context of one kind has in attrs the paths of its attributes and of the *)
(* properties nested in them, in objects those whose value is an object,   *)
(* and in private its own list of private references.  Values other than   *)
(* objects, arrays included, are never looked into.                        *)
(***************************************************************************)
EXTENDS Naturals, SequencesExt

\* Any path of a context is a property of an attribute or of an object in it.
IsContext(c) ==
  /\ <<>> \notin c.attrs
  /\ c.objects \subseteq c.attrs
  /\ \A p \in c.attrs : Len(p) > 1 => Front(p) \in c.objects
-----------------------------------------------------------------------------
(* The lookup tree of the configuration's private references.  A node is   *)
(* its path; it is marked if its attribute field is set.                   *)

EmptyTree == [nodes |-> {}, marked |-> {}]

\* One reference is added: the nodes on its path that do not exist are made, and
\* the last of them, if it is new, is marked.
AddRef(tree, ref) ==
  LET path == Prefixes(ref) \ {<<>>}
  IN  [nodes  |-> tree.nodes \cup path,
       marked |-> tree.marked \cup ((path \ tree.nodes) \cap {ref})]

MakePrivateAttrLookupData(refs) == FoldLeft(AddRef, EmptyTree, refs)

NewEventContextFormatter(config) ==
  [allAttributesPrivate |-> config.allAttributesPrivate,
   privateAttributes    |-> MakePrivateAttrLookupData(config.privateAttributes)]

\* One round of the loop of checkGlobalPrivateAttrRefs that is not the last one:
\* lookup has the node whose children are searched, or nothing after a break.  The
\* search stays where it is at a node without children.
Descend(tree, lookup, name) ==
  LET next == {Append(n, name) : n \in lookup} \cap tree.nodes
  IN  IF \E n \in next, m \in tree.nodes : IsStrictPrefix(n, m) THEN next
      ELSE IF next = {} THEN {} ELSE lookup

\* The node the loop ends at, if any.
NodeAt(tree, path) ==
  LET lookup[i \in 0 .. (Len(path) - 1)] ==
        IF i = 0 THEN {<<>>} ELSE Descend(tree, lookup[i - 1], path[i])
  IN  {Append(n, Last(path)) : n \in lookup[Len(path) - 1]} \cap tree.nodes

\* The references of the context itself that match path, or point into it if its
\* value is an object.  (Faulty: only those that match it are considered.)
OwnRefsAtOnly(c, path) == {ref \in ToSet(c.private) : ref = path}
OwnRefsAt(c, path) ==
  {ref \in ToSet(c.private) : IsPrefix(path, ref) /\ (ref # path => path \in c.objects)}

\* maybeRedact: path itself is private, or something within it, or nothing.
MaybeRedact(f, c, path) ==
  LET node == NodeAt(f.privateAttributes, path)
      own  == OwnRefsAt(c, path)
  IN  IF node \cap f.privateAttributes.marked # {} \/ path \in own THEN "redacted"
      ELSE IF node # {} \/ own # {} THEN "nested" ELSE "clear"

\* writeFilteredAttribute for every path: it is redacted, written with all there
\* is in it ("clear"), filtered ("nested"), or lies within a redacted one ("gone").
Outcome(f, c) ==
  LET outcome[path \in c.attrs] ==
        LET parent == IF Len(path) = 1 THEN "nested" ELSE outcome[Front(path)]
        IN  CASE parent = "nested" -> MaybeRedact(f, c, path)
              [] parent = "clear"  -> "clear"
              [] OTHER             -> "gone"
  IN  outcome

\* writeContextInternalSingle.  If everything is to be redacted there is nothing to
\* look up: the names of the attributes are listed.
WriteContextInternalSingle(f, c, redactAnonymous) ==
  LET redactAll == f.allAttributesPrivate \/ (c.anonymous /\ redactAnonymous)
      outcome   == Outcome(f, c)
      written   == {p \in c.attrs : ~redactAll /\ outcome[p] \in {"clear", "nested"}}
      redacted  == {p \in c.attrs : IF redactAll THEN Len(p) = 1 ELSE outcome[p] = "redacted"}
  IN  [kind |-> c.kind, key |-> c.key, anonymous |-> c.anonymous, attrs |-> written,
       redactedAttributes |-> redacted]

\* What the caller has serialized already is written as it is.
Preserialized(c) ==
  [kind |-> c.kind, key |-> c.key, anonymous |-> c.anonymous, attrs |-> c.attrs,
   redactedAttributes |-> {}]

\* An EventInputContext ec holds its individual contexts, one or more.
WriteContextInternalMulti(f, ec, redactAnonymous) ==
  {WriteContextInternalSingle(f, c, redactAnonymous) : c \in ec.contexts}

DoWriteContext(f, ec, redactAnonymous) ==
  IF ec.preserialized THEN {Preserialized(c) : c \in ec.contexts}
  ELSE WriteContextInternalMulti(f, ec, redactAnonymous)

WriteContext(f, ec) == DoWriteContext(f, ec, FALSE)
WriteContextRedactAnonymous(f, ec) == DoWriteContext(f, ec, TRUE)
=============================================================================
