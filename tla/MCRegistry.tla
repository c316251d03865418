----------------------------- MODULE MCRegistry -----------------------------
(* Instances of Registry for TLC.                                          *)
EXTENDS Registry, SequencesExt, TLC

\* releaseOrderForHandleLocked: the reverse of a depth-first postorder over
\* what the handle still uses.  visit appends the dependencies of a resource
\* that has a row (known) before the resource.
RECURSIVE postorder(_, _, _, _)
postorder(todo, owned, known, done) ==
  IF todo = <<>> THEN done
  ELSE LET r == Head(todo)
           below == {d \in Dependencies(r) \cap owned : r \in known} IN
       IF r \in ToSet(done) THEN postorder(Tail(todo), owned, known, done)
       ELSE postorder(Tail(todo), owned, known,
                      Append(postorder(SetToSeq(below), owned, known, done), r))

releaseOrder(q, owned, known) ==
  Reverse(postorder(SelectSeq(q, LAMBDA r : r \in owned), owned, known, <<>>))

Symmetry == Permutations(Handles)

====
