--------------------------- MODULE MCDownloadModel ---------------------------
(* Small instances of DownloadModel for TLC. *)
EXTENDS DownloadModel

CONSTANTS v1, v2, w1

\* File "a" has two versions on the branch "main" and one at the commit "c0".
Pinned == "c0"
TwoFiles ==
  [at \in {<<"a", "main">>, <<"a", Pinned>>, <<"b", Pinned>>} |->
     CASE at = <<"a", "main">> -> {v1, v2} [] at = <<"a", Pinned>> -> {v1}
       [] at = <<"b", Pinned>> -> {w1}]
TwoSizes == [v \in {v1, v2, w1} |-> CASE v = v1 -> 3 [] v = v2 -> 2 [] v = w1 -> 1]

Item(key, id, name, base, wanted) ==
  [key |-> key, logical_id |-> id, quantization |-> key, file |-> name, base |-> base,
   revision |-> Pinned, wanted |-> wanted]

\* As the repository has it, without checksums for one model, ...
Good == <<Item("q8", "m8", "b", "qwen", None), Item("q4", "m4", "a", "qwen", v1)>>
\* ... with the same file under two keys, ...
Twice == <<Item("q8", "m8", "a", "qwen", v1), Item("q4", "m4", "a", "qwen", v1)>>
\* ... with models that cannot be compared, and without a required field.
Mixed == <<Item("q8", "m8", "b", "qwen", w1), Item("q4", "m4", "a", "other", v1)>>

Incomplete ==
  <<Good[1], [f \in DOMAIN Good[2] \ {"revision"} |-> Good[2][f]]>>

\* A path in place of a file name, which is noticed after the first file is there.
Elsewhere == <<Good[1], Item("q4", "m4", "x/a", "qwen", v1)>>

\* A revision that the repository does not have.
Unknown == [i \in DOMAIN Good |-> [Good[i] EXCEPT !.revision = "c9"]]

SomeConfigs == {Good, Twice, Mixed, Incomplete, Elsewhere, Unknown}

OneFile  == [at \in {<<"a", Pinned>>} |-> {v1}]
OneSize  == [v \in {v1} |-> 3]
OneModel == {<<Item("q4", "m4", "a", "qwen", v1)>>}
=============================================================================
