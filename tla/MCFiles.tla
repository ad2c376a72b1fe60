------------------------------ MODULE MCFiles ------------------------------
(* A root directory that fills three clusters, with deleted entries and a   *)
(* name that occurs twice, a subdirectory that ends within its second       *)
(* cluster, and a file.                                                     *)
EXTENDS Files, TLC

CONSTANTS root, sub, f

Entry(n, c, s) == [name |-> n, first |-> c, size |-> s]

MCNames == {"a", "b", "s", ".."}
MCDirectory ==
  (root :> << Entry(Other, None, 0), Entry("s", sub, 0), Entry("a", f, 1),
              Entry(Other, f, 1), Entry("a", f, 0), Entry(Other, f, 0) >>)
    @@ (sub :> << Entry("..", None, 0), Entry(Other, f, 0), Entry("b", f, 1) >>)
    @@ (f :> << Entry(Other, None, 1) >>)
=============================================================================
