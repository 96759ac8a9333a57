--------------------------- MODULE MCCompilerWrapper ---------------------------
(***************************************************************************)
(* Three invocations in one directory, each with one of nine command       *)
(* lines: a link of two sources, of two with the same stem, of a source    *)
(* with an object file and predefined contracts, and of that object alone, *)
(* its compilation with and without a name, a preprocessor run and two dry *)
(* runs.                                                                   *)
(***************************************************************************)
EXTENDS CompilerWrapper, TLC

Source(name, stem) == [name |-> name, stem |-> stem]
Job(kind, sources) == [kind |-> kind, sources |-> sources, objects |-> <<>>, predefined |-> <<>>, dest |-> NoFile, dry |-> FALSE]

MCJobs ==
  {Job("LINK", <<Source("a.c", "a"), Source("b.c", "b")>>),
   Job("LINK", <<Source("x/b.c", "b"), Source("y/b.c", "b")>>),
   [Job("LINK", <<Source("d.c", "d")>>) EXCEPT !.objects = <<Object("c")>>, !.predefined = <<"m.c">>],
   [Job("LINK", <<>>) EXCEPT !.objects = <<Object("c")>>],
   [Job("ONLY_COMPILE", <<Source("c.c", "c")>>) EXCEPT !.dest = Object("c")],
   Job("ONLY_COMPILE", <<Source("c.c", "c"), Source("a.f90", "a")>>),
   Job("ONLY_PREPROCESS", <<Source("d.c", "d")>>),
   [Job("ONLY_COMPILE", <<Source("d.c", "d")>>) EXCEPT !.dry = TRUE],
   [Job("LINK", <<Source("e.c", "e")>>) EXCEPT !.dry = TRUE]}

MCSourceOf == [o \in {Object("c")} |-> "c.c"]

Symmetry == Permutations(Invocation)
=============================================================================
