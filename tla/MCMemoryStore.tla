--------------------------- MODULE MCMemoryStore ---------------------------
(***************************************************************************)
(* Small instances of MemoryStore for TLC: two files, three texts.  A      *)
(* caller of the write endpoint may name either file's key or none.        *)
(***************************************************************************)
EXTENDS MemoryStore

CONSTANTS a, b, c, f1, f2

MCContent == {a, b, c}
MCInjected == {b}
MCEpisodic == {b, c}
MCRefused == {c}
MCKey == {f1, f2}
MCFiles == <<f1, f2>>

\* f1 may be withdrawn or refused; f2 only comes and goes.
MCTrees ==
    LET file(text, retired) == [content |-> text, retired |-> retired]
    IN  {tree \in [{f1, f2} -> {NULL} \cup [content : Content, retired : BOOLEAN]] :
            /\ tree[f1] # file(c, TRUE)
            /\ tree[f2] \in {NULL, file(a, FALSE), file(b, FALSE)}}

\* f1 alone, with one text or another or absent, and never withdrawn.
MCOneFileTrees ==
    {tree \in [{f1, f2} -> {NULL} \cup [content : {a, b}, retired : {FALSE}]] :
        tree[f2] = NULL}
=============================================================================
